------------------------- MODULE BackOffice_proofs -------------------------
(* The back office: each of its eleven parts keeps its types and what it       *)
(* promises, for all values of the constants, and so does their composition.   *)
(* QuickBooks, the Google Sheets settings and the companies are proved in      *)
(* modules of their own; here are the inventory, the imports, the reports, the *)
(* mapping form, the point-of-sale page, the setup wizard, the tax desk and    *)
(* the accounting pages.                                                       *)
EXTENDS MCBackOffice, QuickBooksConnection_proofs, SheetsSettings_proofs,
        Onboarding_proofs, FiniteSetTheorems, SequenceTheorems, TLAPS
-----------------------------------------------------------------------------
(* The inventory: what a request needs for its next step.                    *)

ItemSteps == {"updateItem", "saveItem", "deleteItem", "move", "insertMove"}
CodeSteps == {"createItem", "insertItem", "importItems"}
InSteps == InOps \cup {"idle", "insertItem", "saveItem", "insertLocation", "insertMove"}

InRequests ==
    [pc : InSteps, id : Nat, upc : Upcs \cup {Unsent}, modifier : Modifiers \cup {Unsent},
     from : Shelves, to : Shelves, read : {NoShelf} \cup ItemDocs, source : Nat, goal : Nat]

\* What a request needs for its next step: documents that exist (none is ever
\* taken out of its collection), codes that were sent, an item it has read.
Fits(r, items, locations) ==
    /\ r \in InRequests
    /\ r.pc \in CodeSteps => r.upc \in Upcs /\ r.modifier \in Modifiers
    /\ r.pc \in ItemSteps => r.id \in DOMAIN items
    /\ r.pc = "saveItem" => r.read \in ItemDocs
    /\ r.pc = "insertMove" => {r.source, r.goal} \subseteq DOMAIN locations

StocksTyped ==
    /\ inItems \in Seq(ItemDocs) /\ inLocations \in Seq(LocationDocs)
    /\ inOverlaid \subseteq DOMAIN inItems

MovesTyped ==
    /\ inMoves \in Seq([item : Nat, from : Nat, to : Nat])
    /\ \A m \in DOMAIN inMoves : {inMoves[m].from, inMoves[m].to} \subseteq DOMAIN inLocations

ScriptTyped == inScript \in [ops : SUBSET InOps, left : Nat]

RequestsFit ==
    /\ DOMAIN inProc = InProcs
    /\ inProc = [p \in InProcs |-> inProc[p]]
    /\ \A p \in InProcs : inProc[p] = InIdle \/ Fits(inProc[p], inItems, inLocations)

InInv == StocksTyped /\ MovesTyped /\ ScriptTyped /\ RequestsFit /\ BarcodeAgrees
-----------------------------------------------------------------------------
(* Lemmas. *)

\* Appending keeps what a sequence has.
LEMMA AppendTo ==
    ASSUME NEW S, NEW q \in Seq(S), NEW x \in S
    PROVE  /\ Append(q, x) \in Seq(S) /\ DOMAIN q \subseteq DOMAIN Append(q, x)
           /\ \A i \in DOMAIN Append(q, x) : Append(q, x)[i] = IF i \in DOMAIN q THEN q[i] ELSE x
OBVIOUS

\* So does replacing an element.
LEMMA ReplaceIn ==
    ASSUME NEW S, NEW q \in Seq(S), NEW f, DOMAIN f = DOMAIN q, f = [i \in DOMAIN q |-> f[i]],
           \A i \in DOMAIN q : f[i] \in S
    PROVE  f \in Seq(S)
<1>1. PICK n \in Nat : DOMAIN q = 1 .. n
  OBVIOUS
<1>2. f \in [1 .. n -> S]
  BY <1>1
<1> QED
  BY <1>1, <1>2

\* An element of a sequence over a set is of the set.
LEMMA ElementOf == ASSUME NEW S, NEW q \in Seq(S), NEW i \in DOMAIN q PROVE q[i] \in S
OBVIOUS

\* A barcode of stored codes is one of the barcodes.
LEMMA BarcodeMade ==
    ASSUME NEW u \in Upcs, NEW m \in Modifiers PROVE Barcode(u, m) \in Barcodes
BY DEF Barcodes

\* A new item has the barcode of its codes.
LEMMA NewItem ==
    ASSUME NEW u \in Upcs, NEW m \in Modifiers, NEW s \in Nat
    PROVE  Item(u, m, s) \in ItemDocs
           /\ Item(u, m, s).barcode = Barcode(Item(u, m, s).upc, Item(u, m, s).modifier)
BY BarcodeMade DEF Item, ItemDocs

\* What is found under a code is one of the locations.
LEMMA ShelvedThere ==
    ASSUME StocksTyped, NEW code PROVE Shelved(code) \subseteq DOMAIN inLocations \cap Nat
BY DEF Shelved, StocksTyped

\* A request is at work only if it is not idle, and then it fits.
LEMMA AtWork ==
    ASSUME InInv, NEW p \in InProcs, NEW pc, InAt(p, pc), pc # "idle"
    PROVE  Fits(inProc[p], inItems, inLocations) /\ inProc[p].pc = pc
BY DEF InInv, RequestsFit, InAt, InIdle

\* A step of one request that leaves the items alone but for additions, and the
\* locations too, leaves the others as fit as they were.
LEMMA OthersFit ==
    ASSUME InInv, NEW p \in InProcs, NEW new, inProc' = [inProc EXCEPT ![p] = new],
           DOMAIN inItems \subseteq DOMAIN inItems',
           DOMAIN inLocations \subseteq DOMAIN inLocations',
           new = InIdle \/ Fits(new, inItems', inLocations')
    PROVE  RequestsFit'
<1>1. \A q \in InProcs : inProc'[q] = IF q = p THEN new ELSE inProc[q]
  BY DEF InInv, RequestsFit
<1>2. \A q \in InProcs : inProc'[q] = InIdle \/ Fits(inProc'[q], inItems', inLocations')
  BY <1>1 DEF InInv, RequestsFit, Fits
<1> QED
  BY <1>1, <1>2 DEF InInv, RequestsFit
-----------------------------------------------------------------------------
(* Kinds of steps. *)

\* A step that ends or advances a request and may store, replace or add items.
LEMMA StepOnItems ==
    ASSUME InInv, NEW p \in InProcs, NEW new, inProc' = [inProc EXCEPT ![p] = new],
           new = InIdle \/ Fits(new, inItems', inLocations),
           inItems' \in Seq(ItemDocs), DOMAIN inItems \subseteq DOMAIN inItems',
           inOverlaid' \subseteq DOMAIN inItems',
           \A i \in DOMAIN inItems' \ inOverlaid' :
               inItems'[i].barcode = Barcode(inItems'[i].upc, inItems'[i].modifier),
           UNCHANGED <<inLocations, inMoves, inScript>>
    PROVE  InInv'
<1>1. RequestsFit'
  BY OthersFit
<1>2. StocksTyped' /\ MovesTyped' /\ ScriptTyped'
  BY DEF InInv, StocksTyped, MovesTyped, ScriptTyped
<1>3. BarcodeAgrees'
  BY DEF BarcodeAgrees
<1> QED
  BY <1>1, <1>2, <1>3 DEF InInv

\* A step that only advances or ends a request.
LEMMA StepOnRequest ==
    ASSUME InInv, NEW p \in InProcs, NEW new, inProc' = [inProc EXCEPT ![p] = new],
           new = InIdle \/ Fits(new, inItems, inLocations),
           UNCHANGED <<inItems, inLocations, inMoves, inOverlaid, inScript>>
    PROVE  InInv'
<1>1. /\ inItems' \in Seq(ItemDocs) /\ DOMAIN inItems \subseteq DOMAIN inItems'
      /\ inOverlaid' \subseteq DOMAIN inItems'
      /\ \A i \in DOMAIN inItems' \ inOverlaid' :
            inItems'[i].barcode = Barcode(inItems'[i].upc, inItems'[i].modifier)
  BY DEF InInv, StocksTyped, BarcodeAgrees
<1>2. new = InIdle \/ Fits(new, inItems', inLocations)
  OBVIOUS
<1>3. UNCHANGED <<inLocations, inMoves, inScript>>
  OBVIOUS
<1> QED
  BY <1>1, <1>2, <1>3, StepOnItems

\* A step that ends a request and changes the locations.
LEMMA StepOnLocations ==
    ASSUME InInv, NEW p \in InProcs, InDone(p), inLocations' \in Seq(LocationDocs),
           DOMAIN inLocations \subseteq DOMAIN inLocations',
           UNCHANGED <<inItems, inMoves, inOverlaid, inScript>>
    PROVE  InInv'
<1>1. RequestsFit'
  BY OthersFit DEF InDone
<1>2. StocksTyped' /\ MovesTyped' /\ ScriptTyped' /\ BarcodeAgrees'
  BY DEF InInv, StocksTyped, MovesTyped, ScriptTyped, BarcodeAgrees
<1> QED
  BY <1>1, <1>2 DEF InInv
-----------------------------------------------------------------------------
(* Items. *)

LEMMA ArriveKeeps == ASSUME InInv, NEW p \in InProcs, InArrive(p) PROVE InInv'
<1>1. PICK op \in inScript.ops, item \in 0 .. Len(inItems), upc \in Upcs \cup {Unsent},
           modifier \in Modifiers \cup {Unsent}, from \in Shelves, to \in Shelves :
          /\ op \in {"createItem", "importItems"} => upc # Unsent /\ modifier # Unsent
          /\ op \in {"updateItem", "deleteItem", "move"} <=> item # 0
          /\ op \notin {"createItem", "importItems", "updateItem"} => upc = Unsent /\ modifier = Unsent
          /\ op \notin {"move", "updateLocation"} => from = to
          /\ inProc' = [inProc EXCEPT ![p] =
                 [pc |-> op, id |-> item, upc |-> upc, modifier |-> modifier, from |-> from,
                  to |-> to, read |-> NoShelf, source |-> NoShelf, goal |-> NoShelf]]
  BY Zenon DEF InArrive
<1> DEFINE new == [pc |-> op, id |-> item, upc |-> upc, modifier |-> modifier, from |-> from,
                   to |-> to, read |-> NoShelf, source |-> NoShelf, goal |-> NoShelf]
<1>2. op \in InOps /\ inItems \in Seq(ItemDocs)
  BY DEF InInv, ScriptTyped, StocksTyped
<1>3. new \in InRequests
  BY <1>2 DEF InRequests, InSteps, NoShelf
<1>4. item # 0 => item \in DOMAIN inItems
  BY <1>2
<1>5. Fits(new, inItems, inLocations)
  BY <1>1, <1>2, <1>3, <1>4 DEF Fits, CodeSteps, ItemSteps, InOps
<1>6. RequestsFit'
  BY <1>1, <1>5, OthersFit DEF InArrive
<1>7. ScriptTyped'
  BY DEF InInv, ScriptTyped, InArrive
<1>8. StocksTyped' /\ MovesTyped' /\ BarcodeAgrees'
  BY DEF InArrive, InInv, StocksTyped, MovesTyped, BarcodeAgrees
<1> QED
  BY <1>6, <1>7, <1>8 DEF InInv

LEMMA FindShelfKeeps == ASSUME InInv, NEW p \in InProcs, FindShelf(p) PROVE InInv'
<1>1. Fits(inProc[p], inItems, inLocations) /\ inProc[p].pc = "createItem"
  BY AtWork DEF FindShelf
<1>2. CASE Shelved(inProc[p].from) = {}
  BY <1>2, StepOnRequest DEF FindShelf, InDone
<1>3. CASE Shelved(inProc[p].from) # {}
  <2> DEFINE s == CHOOSE s \in Shelved(inProc[p].from) : TRUE
             new == [inProc[p] EXCEPT !.pc = "insertItem", !.source = s]
  <2>1. s \in Nat
    BY <1>3, ShelvedThere DEF InInv
  <2>2. Fits(new, inItems, inLocations)
    BY <1>1, <2>1 DEF Fits, InRequests, InSteps, CodeSteps, ItemSteps
  <2>3. inProc' = [inProc EXCEPT ![p] = new]
    BY <1>3 DEF FindShelf
  <2> HIDE DEF new
  <2> QED
    BY <2>2, <2>3, StepOnRequest DEF FindShelf
<1> QED
  BY <1>2, <1>3

LEMMA InsertItemKeeps == ASSUME InInv, NEW p \in InProcs, InsertItem(p) PROVE InInv'
<1> DEFINE new == Item(inProc[p].upc, inProc[p].modifier, inProc[p].source)
<1>1. Fits(inProc[p], inItems, inLocations) /\ inProc[p].pc = "insertItem"
  BY AtWork DEF InsertItem
<1>2. new \in ItemDocs /\ new.barcode = Barcode(new.upc, new.modifier)
  BY <1>1, NewItem DEF Fits, InRequests, CodeSteps
<1>3. inItems' = inItems \/ inItems' = Append(inItems, new)
  BY DEF InsertItem
<1>4. inItems \in Seq(ItemDocs) /\ inOverlaid \subseteq DOMAIN inItems /\ BarcodeAgrees
  BY DEF InInv, StocksTyped
<1> HIDE DEF new
<1>5. /\ inItems' \in Seq(ItemDocs) /\ DOMAIN inItems \subseteq DOMAIN inItems'
      /\ \A i \in DOMAIN inItems' : inItems'[i] = IF i \in DOMAIN inItems THEN inItems[i] ELSE new
  BY <1>2, <1>3, <1>4, AppendTo
<1>6. \A i \in DOMAIN inItems' \ inOverlaid :
          inItems'[i].barcode = Barcode(inItems'[i].upc, inItems'[i].modifier)
  BY <1>2, <1>4, <1>5 DEF BarcodeAgrees
<1> QED
  BY <1>4, <1>5, <1>6, StepOnItems DEF InsertItem, InDone

LEMMA LoadItemKeeps == ASSUME InInv, NEW p \in InProcs, LoadItem(p) PROVE InInv'
<1> DEFINE new == [inProc[p] EXCEPT !.pc = "saveItem", !.read = inItems[inProc[p].id]]
<1>1. Fits(inProc[p], inItems, inLocations) /\ inProc[p].pc = "updateItem"
  BY AtWork DEF LoadItem
<1>2. inProc[p].id \in DOMAIN inItems /\ inItems[inProc[p].id] \in ItemDocs
  BY <1>1 DEF Fits, ItemSteps, InInv, StocksTyped
<1>3. Fits(new, inItems, inLocations)
  BY <1>1, <1>2 DEF Fits, InRequests, InSteps, CodeSteps, ItemSteps
<1>4. inProc' = [inProc EXCEPT ![p] = new] \/ inProc' = [inProc EXCEPT ![p] = InIdle]
  BY DEF LoadItem, InDone
<1> HIDE DEF new
<1> QED
  BY <1>3, <1>4, StepOnRequest DEF LoadItem

\* What is saved differs from what is stored only by what the request changed;
\* if the item is still as it was read, that is the whole of what it assigned.
LEMMA SaveItemKeeps == ASSUME InInv, NEW p \in InProcs, SaveItem(p) PROVE InInv'
<1> DEFINE i == inProc[p].id
           old == inProc[p].read
           new == Updated(inProc[p].upc, inProc[p].modifier, old)
           saved == [f \in DOMAIN old |-> IF new[f] = old[f] THEN inItems[i][f] ELSE new[f]]
           refused == inItems[i].gone \/ Clashes(inItems, i, saved)
<1>1. Fits(inProc[p], inItems, inLocations) /\ inProc[p].pc = "saveItem"
  BY AtWork DEF SaveItem
<1>2. i \in DOMAIN inItems /\ inItems[i] \in ItemDocs /\ old \in ItemDocs
  BY <1>1 DEF Fits, ItemSteps, InInv, StocksTyped
<1>3. new \in ItemDocs /\ new.barcode = Barcode(new.upc, new.modifier)
  <2> DEFINE u == Sent(inProc[p].upc, old.upc)
             m == Sent(inProc[p].modifier, old.modifier)
  <2>1. u \in Upcs /\ m \in Modifiers
    BY <1>1, <1>2 DEF Fits, InRequests, ItemDocs, Sent
  <2>2. new = [old EXCEPT !.upc = u, !.modifier = m, !.barcode = Barcode(u, m)]
    BY DEF Updated
  <2> HIDE DEF u, m, old, new
  <2> QED
    BY <2>1, <2>2, <1>2, BarcodeMade DEF ItemDocs
<1>4. /\ inItems' = IF refused THEN inItems ELSE [inItems EXCEPT ![i] = saved]
      /\ inOverlaid' = IF refused \/ inItems[i] = old THEN inOverlaid ELSE inOverlaid \cup {i}
  BY DEF SaveItem
<1> HIDE DEF i, old, new, refused
<1>5. saved \in ItemDocs
  BY <1>2, <1>3 DEF ItemDocs
<1>6. inItems[i] = old => saved = new
  BY <1>2, <1>3 DEF ItemDocs
<1> HIDE DEF saved
<1>7. inItems \in Seq(ItemDocs) /\ inOverlaid \subseteq DOMAIN inItems /\ BarcodeAgrees
  BY DEF InInv, StocksTyped
<1>8. /\ inItems' \in Seq(ItemDocs) /\ DOMAIN inItems' = DOMAIN inItems
      /\ \A j \in DOMAIN inItems : inItems'[j] = IF j = i /\ ~refused THEN saved ELSE inItems[j]
  BY <1>2, <1>4, <1>5, <1>7
<1>9. inOverlaid' \subseteq DOMAIN inItems'
  BY <1>2, <1>4, <1>7, <1>8
<1>10. \A j \in DOMAIN inItems' \ inOverlaid' :
           inItems'[j].barcode = Barcode(inItems'[j].upc, inItems'[j].modifier)
  <2> SUFFICES ASSUME NEW j \in DOMAIN inItems' \ inOverlaid'
               PROVE  inItems'[j].barcode = Barcode(inItems'[j].upc, inItems'[j].modifier)
    OBVIOUS
  <2>1. CASE j = i /\ ~refused
    BY <2>1, <1>3, <1>4, <1>6, <1>8
  <2>2. CASE ~(j = i /\ ~refused)
    BY <2>2, <1>4, <1>7, <1>8 DEF BarcodeAgrees
  <2> QED
    BY <2>1, <2>2
<1> QED
  BY <1>8, <1>9, <1>10, StepOnItems DEF SaveItem, InDone

LEMMA DeleteItemKeeps == ASSUME InInv, NEW p \in InProcs, DeleteItem(p) PROVE InInv'
<1> DEFINE i == inProc[p].id
<1>1. Fits(inProc[p], inItems, inLocations) /\ inProc[p].pc = "deleteItem"
  BY AtWork DEF DeleteItem
<1>2. /\ i \in DOMAIN inItems /\ inItems[i] \in ItemDocs /\ inItems \in Seq(ItemDocs)
      /\ inOverlaid \subseteq DOMAIN inItems /\ BarcodeAgrees
  BY <1>1 DEF Fits, ItemSteps, InInv, StocksTyped
<1>3. inItems' = [inItems EXCEPT ![i] = [inItems[i] EXCEPT !.gone = TRUE]]
  BY DEF DeleteItem
<1> HIDE DEF i
<1>4. [inItems[i] EXCEPT !.gone = TRUE] \in ItemDocs
  BY <1>2 DEF ItemDocs
<1>5. /\ inItems' \in Seq(ItemDocs) /\ DOMAIN inItems' = DOMAIN inItems
      /\ \A j \in DOMAIN inItems :
            inItems'[j] = IF j = i THEN [inItems[i] EXCEPT !.gone = TRUE] ELSE inItems[j]
  BY <1>2, <1>3, <1>4
<1>6. \A j \in DOMAIN inItems' \ inOverlaid :
          inItems'[j].barcode = Barcode(inItems'[j].upc, inItems'[j].modifier)
  BY <1>2, <1>5 DEF BarcodeAgrees, ItemDocs
<1> QED
  BY <1>2, <1>5, <1>6, StepOnItems DEF DeleteItem, InDone

LEMMA ImportRowKeeps == ASSUME InInv, NEW p \in InProcs, ImportRow(p) PROVE InInv'
<1> DEFINE new == Item(inProc[p].upc, inProc[p].modifier, NoShelf)
           same == {i \in DOMAIN inItems : InStock(i) /\ inItems[i].barcode = new.barcode}
           i == CHOOSE i \in same : TRUE
           row == [new EXCEPT !.shelf = inItems[i].shelf]
<1>1. Fits(inProc[p], inItems, inLocations) /\ inProc[p].pc = "importItems"
  BY AtWork DEF ImportRow
<1>2. new \in ItemDocs /\ new.barcode = Barcode(new.upc, new.modifier)
  BY <1>1, NewItem DEF Fits, InRequests, CodeSteps, NoShelf
<1>3. inItems \in Seq(ItemDocs) /\ inOverlaid \subseteq DOMAIN inItems /\ BarcodeAgrees
  BY DEF InInv, StocksTyped
<1>4. \/ inItems' = inItems
      \/ inItems' = Append(inItems, new)
      \/ same # {} /\ inItems' = [inItems EXCEPT ![i] = row]
  BY DEF ImportRow
<1>5. same # {} => i \in DOMAIN inItems
  OBVIOUS
<1> HIDE DEF new, same, i
<1>6. same # {} => row \in ItemDocs /\ row.barcode = Barcode(row.upc, row.modifier)
  <2> SUFFICES ASSUME same # {} PROVE row \in ItemDocs /\ row.barcode = Barcode(row.upc, row.modifier)
    OBVIOUS
  <2>1. inItems[i] \in ItemDocs
    BY <1>3, <1>5
  <2> QED
    BY <2>1, <1>2 DEF ItemDocs
<1> HIDE DEF row
<1>7. /\ inItems' \in Seq(ItemDocs) /\ DOMAIN inItems \subseteq DOMAIN inItems'
      /\ \A j \in DOMAIN inItems' \ inOverlaid :
            inItems'[j].barcode = Barcode(inItems'[j].upc, inItems'[j].modifier)
  <2>1. CASE inItems' = inItems
    BY <2>1, <1>3 DEF BarcodeAgrees
  <2>2. CASE inItems' = Append(inItems, new)
    BY <2>2, <1>2, <1>3, AppendTo DEF BarcodeAgrees
  <2>3. CASE same # {} /\ inItems' = [inItems EXCEPT ![i] = row]
    <3>1. /\ inItems' \in Seq(ItemDocs) /\ DOMAIN inItems' = DOMAIN inItems
          /\ \A j \in DOMAIN inItems : inItems'[j] = IF j = i THEN row ELSE inItems[j]
      BY <2>3, <1>3, <1>5, <1>6
    <3> QED
      BY <2>3, <3>1, <1>3, <1>6 DEF BarcodeAgrees
  <2> QED
    BY <1>4, <2>1, <2>2, <2>3
<1> QED
  BY <1>3, <1>7, StepOnItems DEF ImportRow, InDone
-----------------------------------------------------------------------------
(* Locations and moves. *)

LEMMA CheckShelfKeeps == ASSUME InInv, NEW p \in InProcs, CheckShelf(p) PROVE InInv'
<1> DEFINE new == [inProc[p] EXCEPT !.pc = "insertLocation"]
<1>1. Fits(inProc[p], inItems, inLocations) /\ inProc[p].pc = "createLocation"
  BY AtWork DEF CheckShelf
<1>2. Fits(new, inItems, inLocations)
  BY <1>1 DEF Fits, InRequests, InSteps, CodeSteps, ItemSteps
<1>3. inProc' = [inProc EXCEPT ![p] = new] \/ inProc' = [inProc EXCEPT ![p] = InIdle]
  BY DEF CheckShelf, InDone, InGo
<1> HIDE DEF new
<1> QED
  BY <1>2, <1>3, StepOnRequest DEF CheckShelf

LEMMA InsertLocationKeeps == ASSUME InInv, NEW p \in InProcs, InsertLocation(p) PROVE InInv'
<1> DEFINE new == Shelf(inProc[p].from)
<1>1. Fits(inProc[p], inItems, inLocations)
  BY AtWork DEF InsertLocation
<1>2. new \in LocationDocs /\ inLocations \in Seq(LocationDocs)
  BY <1>1 DEF Fits, InRequests, Shelf, LocationDocs, InInv, StocksTyped
<1>3. inLocations' = inLocations \/ inLocations' = Append(inLocations, new)
  BY DEF InsertLocation
<1> HIDE DEF new
<1>4. inLocations' \in Seq(LocationDocs) /\ DOMAIN inLocations \subseteq DOMAIN inLocations'
  BY <1>2, <1>3, AppendTo
<1> QED
  BY <1>4, StepOnLocations DEF InsertLocation

LEMMA UpdateLocationKeeps == ASSUME InInv, NEW p \in InProcs, UpdateLocation(p) PROVE InInv'
<1>1. Fits(inProc[p], inItems, inLocations)
  BY AtWork DEF UpdateLocation
<1>2. inLocations \in Seq(LocationDocs) /\ inProc[p].to \in Shelves
  BY <1>1 DEF Fits, InRequests, InInv, StocksTyped
<1>3. /\ DOMAIN inLocations' = DOMAIN inLocations
      /\ inLocations' = [s \in DOMAIN inLocations |-> inLocations'[s]]
      /\ \A s \in DOMAIN inLocations :
            \/ inLocations'[s] = inLocations[s]
            \/ inLocations'[s] = [inLocations[s] EXCEPT !.code = inProc[p].to]
  BY DEF UpdateLocation
<1>4. ASSUME NEW s \in DOMAIN inLocations PROVE inLocations'[s] \in LocationDocs
  <2>1. inLocations[s] \in LocationDocs
    BY <1>2, ElementOf
  <2> QED
    BY <2>1, <1>2, <1>3 DEF LocationDocs
<1>5. inLocations' \in Seq(LocationDocs)
  BY <1>2, <1>3, <1>4, ReplaceIn
<1> QED
  BY <1>3, <1>5, StepOnLocations DEF UpdateLocation

LEMMA DeleteLocationKeeps == ASSUME InInv, NEW p \in InProcs, DeleteLocation(p) PROVE InInv'
<1>1. inLocations \in Seq(LocationDocs)
  BY DEF InInv, StocksTyped
<1>2. /\ DOMAIN inLocations' = DOMAIN inLocations
      /\ inLocations' = [s \in DOMAIN inLocations |-> inLocations'[s]]
      /\ \A s \in DOMAIN inLocations :
            inLocations'[s] = [inLocations[s] EXCEPT
                !.gone = inLocations[s].gone \/ s \in Shelved(inProc[p].from)]
  BY DEF DeleteLocation
<1>3. ASSUME NEW s \in DOMAIN inLocations PROVE inLocations'[s] \in LocationDocs
  <2>1. inLocations[s] \in LocationDocs
    BY <1>1, ElementOf
  <2>2. (inLocations[s].gone \/ s \in Shelved(inProc[p].from)) \in BOOLEAN
    OBVIOUS
  <2> QED
    BY <2>1, <2>2, <1>2 DEF LocationDocs
<1>4. inLocations' \in Seq(LocationDocs)
  BY <1>1, <1>2, <1>3, ReplaceIn
<1> QED
  BY <1>2, <1>4, StepOnLocations DEF DeleteLocation

LEMMA CheckMoveKeeps == ASSUME InInv, NEW p \in InProcs, CheckMove(p) PROVE InInv'
<1> DEFINE from == Shelved(inProc[p].from)
           to == Shelved(inProc[p].to)
           s == CHOOSE x \in from : TRUE
           g == CHOOSE x \in to : TRUE
           new == [inProc[p] EXCEPT !.pc = "insertMove", !.source = s, !.goal = g]
<1>1. Fits(inProc[p], inItems, inLocations) /\ inProc[p].pc = "move"
  BY AtWork DEF CheckMove
<1>2. \/ inProc' = [inProc EXCEPT ![p] = InIdle]
      \/ from # {} /\ to # {} /\ inProc' = [inProc EXCEPT ![p] = new]
  BY DEF CheckMove, InDone
<1>3. CASE inProc' = [inProc EXCEPT ![p] = InIdle]
  BY <1>3, StepOnRequest DEF CheckMove
<1>4. CASE from # {} /\ to # {} /\ inProc' = [inProc EXCEPT ![p] = new]
  <2>1. s \in from /\ g \in to
    BY <1>4
  <2>2. s \in DOMAIN inLocations /\ s \in Nat /\ g \in DOMAIN inLocations /\ g \in Nat
    BY <2>1, ShelvedThere DEF InInv
  <2> HIDE DEF from, to, s, g
  <2>3. Fits(new, inItems, inLocations)
    BY <1>1, <2>2 DEF Fits, InRequests, InSteps, CodeSteps, ItemSteps
  <2> HIDE DEF new
  <2> QED
    BY <1>4, <2>3, StepOnRequest DEF CheckMove
<1> QED
  BY <1>2, <1>3, <1>4

LEMMA InsertMoveKeeps == ASSUME InInv, NEW p \in InProcs, InsertMove(p) PROVE InInv'
<1> DEFINE new == [item |-> inProc[p].id, from |-> inProc[p].source, to |-> inProc[p].goal]
           Shifts == [item : Nat, from : Nat, to : Nat]
<1>1. Fits(inProc[p], inItems, inLocations) /\ inProc[p].pc = "insertMove"
  BY AtWork DEF InsertMove
<1>2. new \in Shifts /\ {new.from, new.to} \subseteq DOMAIN inLocations
  BY <1>1 DEF Fits, InRequests
<1>3. inMoves' = Append(inMoves, new) /\ inMoves \in Seq(Shifts)
  BY DEF InsertMove, InInv, MovesTyped
<1> HIDE DEF new, Shifts
<1>4. /\ inMoves' \in Seq(Shifts)
      /\ \A m \in DOMAIN inMoves' : inMoves'[m] = IF m \in DOMAIN inMoves THEN inMoves[m] ELSE new
  BY <1>2, <1>3, AppendTo
<1>5. MovesTyped'
  <2>1. \A m \in DOMAIN inMoves : {inMoves[m].from, inMoves[m].to} \subseteq DOMAIN inLocations
    BY DEF InInv, MovesTyped
  <2>2. \A m \in DOMAIN inMoves' : {inMoves'[m].from, inMoves'[m].to} \subseteq DOMAIN inLocations
    BY <2>1, <1>2, <1>4
  <2>3. inLocations' = inLocations
    BY DEF InsertMove
  <2> QED
    BY <2>2, <2>3, <1>4 DEF Shifts, MovesTyped
<1>6. RequestsFit'
  BY OthersFit DEF InsertMove, InDone
<1>7. StocksTyped' /\ ScriptTyped' /\ BarcodeAgrees'
  BY DEF InsertMove, InInv, StocksTyped, ScriptTyped, BarcodeAgrees
<1> QED
  BY <1>5, <1>6, <1>7 DEF InInv
-----------------------------------------------------------------------------
(* The theorems. *)

LEMMA InInitInv == InInit => InInv
<1> SUFFICES ASSUME InInit PROVE InInv
  OBVIOUS
<1>1. PICK s \in InScripts :
          inItems = s.items /\ inLocations = s.locations /\ inScript = [ops |-> s.ops, left |-> s.left]
  BY DEF InInit
<1>2. StocksTyped /\ BarcodeAgrees
  BY <1>1, InAssumption DEF InInit, StocksTyped, BarcodeAgrees
<1>3. ScriptTyped
  BY <1>1, InAssumption DEF ScriptTyped
<1>4. MovesTyped
  BY DEF InInit, MovesTyped
<1>5. RequestsFit
  BY DEF InInit, RequestsFit
<1> QED
  BY <1>2, <1>3, <1>4, <1>5 DEF InInv

LEMMA InNextInv == InInv /\ [InNext]_inVars => InInv'
<1> SUFFICES ASSUME InInv, [InNext]_inVars PROVE InInv'
  OBVIOUS
<1>1. CASE UNCHANGED inVars
  BY <1>1 DEF inVars, InInv, StocksTyped, MovesTyped, ScriptTyped, RequestsFit, BarcodeAgrees, Fits
<1>2. ASSUME NEW p \in InProcs,
             \/ InArrive(p) \/ FindShelf(p) \/ InsertItem(p) \/ LoadItem(p) \/ SaveItem(p)
             \/ DeleteItem(p) \/ ImportRow(p)
      PROVE  InInv'
  BY <1>2, ArriveKeeps, FindShelfKeeps, InsertItemKeeps, LoadItemKeeps, SaveItemKeeps,
     DeleteItemKeeps, ImportRowKeeps
<1>3. ASSUME NEW p \in InProcs,
             \/ CheckShelf(p) \/ InsertLocation(p) \/ UpdateLocation(p) \/ DeleteLocation(p)
             \/ CheckMove(p) \/ InsertMove(p)
      PROVE  InInv'
  BY <1>3, CheckShelfKeeps, InsertLocationKeeps, UpdateLocationKeeps, DeleteLocationKeeps,
     CheckMoveKeeps, InsertMoveKeeps
<1> QED
  BY <1>1, <1>2, <1>3 DEF InNext

LEMMA InInvTypes == InInv => InTypeOK
<1> SUFFICES ASSUME InInv PROVE InTypeOK
  OBVIOUS
<1>1. ASSUME NEW i \in DOMAIN inItems
      PROVE  inItems[i].upc \in Upcs /\ inItems[i].modifier \in Modifiers
  <2>1. inItems[i] \in ItemDocs
    BY ElementOf DEF InInv, StocksTyped
  <2> QED
    BY <2>1 DEF ItemDocs
<1>2. ASSUME NEW s \in DOMAIN inLocations PROVE inLocations[s].code \in Shelves
  <2>1. inLocations[s] \in LocationDocs
    BY ElementOf DEF InInv, StocksTyped
  <2> QED
    BY <2>1 DEF LocationDocs
<1>3. ASSUME NEW p \in InProcs PROVE inProc[p].pc \in InSteps
  <2>1. CASE inProc[p] = InIdle
    BY <2>1 DEF InIdle, InSteps
  <2>2. CASE Fits(inProc[p], inItems, inLocations)
    BY <2>2 DEF Fits, InRequests
  <2> QED
    BY <2>1, <2>2 DEF InInv, RequestsFit
<1> QED
  BY <1>1, <1>2, <1>3 DEF InTypeOK, InInv, StocksTyped, MovesTyped, InSteps

\* Whatever updates, imports, deletions and moves run side by side, an item's
\* barcode is that of its codes, unless it was saved by a request that had not
\* read them (itemController.ts, updateItem and importItemsCsv).
THEOREM InventoryBarcodeAgrees == InSpec => []BarcodeAgrees
<1>1. InInv => BarcodeAgrees
  BY DEF InInv
<1> QED
  BY <1>1, InInitInv, InNextInv, PTL DEF InSpec

\* Items, locations, moves and requests keep their types, and a move names
\* locations that are stored.
THEOREM InventoryTypes == InSpec => []InTypeOK
BY InInitInv, InNextInv, InInvTypes, PTL DEF InSpec
-----------------------------------------------------------------------------
(* Imports.                                                                *)

\* No target has two columns exactly when there are as many targets as columns.
LEMMA NoneTwice ==
    ASSUME NEW mapping, IsFiniteSet(DOMAIN mapping),
           mapping = [c \in DOMAIN mapping |-> mapping[c]]
    PROVE  Cardinality(Targets(mapping)) = Cardinality(DOMAIN mapping)
               <=> \A c, d \in DOMAIN mapping : mapping[c] = mapping[d] => c = d
<1> DEFINE D == DOMAIN mapping
           T == Targets(mapping)
<1>1. mapping \in [D -> T] /\ \A t \in T : \E c \in D : mapping[c] = t
  BY DEF Targets
<1>2. mapping \in Surjection(D, T)
  BY <1>1 DEF Surjection
<1> HIDE DEF T
<1>3. Cardinality(T) = Cardinality(D) <=> mapping \in Injection(D, T)
  BY <1>2, FS_Surjection
<1>4. mapping \in Injection(D, T)
          <=> \A c, d \in D : mapping[c] = mapping[d] => c = d
  BY <1>1 DEF Injection, IsInjective
<1> QED
  BY <1>3, <1>4 DEF T
\* Figures that may be missing: of one number each, the sum is one number.
LEMMA TheOne ==
    ASSUME NEW a, OneNumber(a), a # {}
    PROVE  The(a) \in Int /\ a = {The(a)}
BY DEF OneNumber, The

LEMMA InSum ==
    ASSUME NEW a, NEW b, NEW z
    PROVE  /\ z \in Plus(a, b) <=> \E x \in a, y \in b : z = x + y
           /\ z \in Minus(a, b) <=> \E x \in a, y \in b : z = x - y
<1>1. z \in {x + y : x \in a, y \in b} <=> \E x \in a, y \in b : z = x + y
  OBVIOUS
<1>2. z \in {x - y : x \in a, y \in b} <=> \E x \in a, y \in b : z = x - y
  OBVIOUS
<1> QED
  BY <1>1, <1>2 DEF Plus, Minus

LEMMA SumOfOnes ==
    ASSUME NEW a, NEW b, OneNumber(a), OneNumber(b)
    PROVE  /\ OneNumber(Plus(a, b)) /\ OneNumber(Minus(a, b)) /\ OneNumber(Else(a, b))
           /\ Plus(a, b) # {} <=> a # {} /\ b # {}
           /\ Minus(a, b) # {} <=> a # {} /\ b # {}
           /\ a # {} /\ b # {} => The(Plus(a, b)) = The(a) + The(b)
           /\ a # {} /\ b # {} => The(Minus(a, b)) = The(a) - The(b)
<1>1. CASE a = {} \/ b = {}
  <2>1. Plus(a, b) = {} /\ Minus(a, b) = {}
    BY <1>1, InSum
  <2> QED
    BY <1>1, <2>1 DEF OneNumber, Else
<1>2. CASE a # {} /\ b # {}
  <2>1. PICK x, y : a = {x} /\ b = {y} /\ x \in Int /\ y \in Int /\ The(a) = x /\ The(b) = y
    BY <1>2, TheOne
  <2>2. Plus(a, b) = {x + y} /\ Minus(a, b) = {x - y}
    <3>1. \A z : (z \in Plus(a, b) <=> z = x + y) /\ (z \in Minus(a, b) <=> z = x - y)
      BY <2>1, InSum
    <3> QED
      BY <3>1
  <2>3. The({x + y}) = x + y /\ The({x - y}) = x - y
    BY DEF The
  <2>4. OneNumber({x + y}) /\ OneNumber({x - y}) /\ OneNumber(Else(a, b))
    BY <2>1 DEF OneNumber, Else
  <2>5. {x + y} # {} /\ {x - y} # {}
    OBVIOUS
  <2> QED
    BY <1>2, <2>1, <2>2, <2>3, <2>4, <2>5
<1> QED
  BY <1>1, <1>2

ReadableRow(row) == \A c \in DOMAIN row : OneNumber(row[c])

LEMMA CellIsOne ==
    ASSUME NEW row, ReadableRow(row), NEW c
    PROVE  OneNumber(Cell(row, c))
BY DEF ReadableRow, Cell, OneNumber

LEMMA ValueIsOne ==
    ASSUME NEW row, ReadableRow(row), NEW mapping, NEW t,
           \A c, d \in DOMAIN mapping : mapping[c] = mapping[d] => c = d
    PROVE  OneNumber(Value(row, mapping, t))
<1>1. CASE ColumnOf(mapping, t) = {}
  <2>1. Value(row, mapping, t) = {}
    BY <1>1 DEF Value
  <2> QED
    BY <2>1 DEF OneNumber
<1>2. CASE ColumnOf(mapping, t) # {}
  <2>1. PICK c : ColumnOf(mapping, t) = {c}
    BY <1>2 DEF ColumnOf
  <2>2. Value(row, mapping, t) = Cell(row, c)
    BY <2>1 DEF Value
  <2> QED
    BY <2>2, CellIsOne
<1> QED
  BY <1>1, <1>2

PdRows ==
    [date : Int, figure : [Raw -> Int], totalSales : Int, clTotal : Int, cash : Int,
     source : PdSources]
AddsUp(r) ==
    r.source = "google_sheets" =>
        r.cash = r.totalSales + r.figure["gas"] + r.figure["lottery"] + r.figure["saleTax"]
                 - r.figure["creditCard"] - r.figure["lotteryPayout"]
SoundRows == {r \in PdRows : AddsUp(r)}

\* A row of a sheet that is not refused adds up.
LEMMA EvaluatedAddsUp ==
    ASSUME NEW row, ReadableRow(row), NEW mapping, NEW derived,
           \A c, d \in DOMAIN mapping : mapping[c] = mapping[d] => c = d,
           Evaluated(row, mapping, derived) # {}
    PROVE  The(Evaluated(row, mapping, derived)) \in SoundRows
<1> DEFINE config == DerivedConfig(mapping, derived)
           Of(t) == Value(row, mapping, t)
           total == Total(row, mapping, config)
           sales == Sales(row, mapping, config)
           cl == CreditPlusLottery(row, mapping, config)
           cash == CashDifference(row, mapping, config)
           figure == [t \in Raw |-> The(Of(t))]
           r == [date |-> The(Of("date")), figure |-> figure, totalSales |-> The(total),
                 clTotal |-> The(cl), cash |-> The(cash), source |-> "google_sheets"]
<1>1. /\ Evaluated(row, mapping, derived) = {r}
      /\ Of("date") # {} /\ (\A t \in Raw : Of(t) # {}) /\ total # {} /\ cl # {} /\ cash # {}
  BY DEF Evaluated
<1>2. \A t : OneNumber(Of(t))
  BY ValueIsOne
<1>3. \A k : OneNumber(OwnColumn(row, config, k))
  BY CellIsOne DEF OwnColumn, OneNumber
<1>4. OneNumber(total) /\ sales = total
  <2>1. OneNumber(Plus(Of("highTax"), Of("lowTax")))
    BY <1>2, SumOfOnes
  <2>2. OneNumber(total)
    BY <1>3, <2>1, SumOfOnes DEF Total
  <2>3. sales = total
    BY <1>1 DEF Sales, Else
  <2> QED
    BY <2>2, <2>3
<1>5. OneNumber(cl)
  <2>1. OneNumber(Plus(Of("creditCard"), Of("lotteryPayout")))
    BY <1>2, SumOfOnes
  <2> QED
    BY <1>3, <2>1, SumOfOnes DEF CreditPlusLottery
<1> DEFINE gas == Of("gas")
           lottery == Of("lottery")
           tax == Of("saleTax")
           card == Of("creditCard")
           payout == Of("lotteryPayout")
<1>6. OneNumber(cash) /\ The(cash) = The(total) + The(gas) + The(lottery) + The(tax)
                                     - The(card) - The(payout)
  <2> DEFINE one == Plus(total, gas)
             two == Plus(lottery, tax)
             in == Plus(one, two)
             out == Plus(card, payout)
  <2>1. cash = Minus(in, out)
    BY <1>4 DEF CashDifference
  <2>2. /\ OneNumber(gas) /\ OneNumber(lottery) /\ OneNumber(tax) /\ OneNumber(card)
        /\ OneNumber(payout)
    BY <1>2
  <2>3. /\ gas # {} /\ lottery # {} /\ tax # {} /\ card # {} /\ payout # {} /\ total # {}
    BY <1>1 DEF Raw
  <2> HIDE DEF Of, total, gas, lottery, tax, card, payout, cash
  <2>4. OneNumber(one) /\ one # {} /\ The(one) = The(total) + The(gas)
    BY <1>4, <2>2, <2>3, SumOfOnes
  <2>5. OneNumber(two) /\ two # {} /\ The(two) = The(lottery) + The(tax)
    BY <2>2, <2>3, SumOfOnes
  <2>6. OneNumber(out) /\ out # {} /\ The(out) = The(card) + The(payout)
    BY <2>2, <2>3, SumOfOnes
  <2> HIDE DEF one, two, out
  <2>7. OneNumber(in) /\ in # {} /\ The(in) = The(one) + The(two)
    BY <2>4, <2>5, SumOfOnes
  <2> HIDE DEF in
  <2>8. OneNumber(cash) /\ The(cash) = The(in) - The(out)
    BY <2>1, <2>6, <2>7, SumOfOnes
  <2>9. /\ The(total) \in Int /\ The(gas) \in Int /\ The(lottery) \in Int /\ The(tax) \in Int
        /\ The(card) \in Int /\ The(payout) \in Int
    BY <1>4, <2>2, <2>3, TheOne
  <2> QED
    BY <2>4, <2>5, <2>6, <2>7, <2>8, <2>9
<1>7. /\ The(Of("date")) \in Int /\ The(total) \in Int /\ The(cl) \in Int /\ The(cash) \in Int
      /\ figure \in [Raw -> Int]
  BY <1>1, <1>2, <1>4, <1>5, <1>6, TheOne
<1>8. /\ figure["gas"] = The(gas) /\ figure["lottery"] = The(lottery)
      /\ figure["saleTax"] = The(tax) /\ figure["creditCard"] = The(card)
      /\ figure["lotteryPayout"] = The(payout)
  BY DEF Raw
<1> HIDE DEF Of, total, cl, cash, figure, gas, lottery, tax, card, payout
<1>9. r \in PdRows
  BY <1>7 DEF PdRows, PdSources
<1>10. AddsUp(r)
  BY <1>6, <1>8 DEF AddsUp
<1> HIDE DEF r
<1>11. The({r}) = r
  BY DEF The
<1> QED
  BY <1>1, <1>9, <1>10, <1>11 DEF SoundRows

\* A row of a valid mapping is refused only for a required cell that does not read.
LEMMA RefusedIsIllegible ==
    ASSUME NEW row, NEW mapping, NEW derived, Legible(row, mapping)
    PROVE  Evaluated(row, mapping, derived) # {}
<1> DEFINE config == DerivedConfig(mapping, derived)
           Of(t) == Value(row, mapping, t)
<1>0. ASSUME NEW a, NEW b, a # {}, b # {} PROVE Plus(a, b) # {} /\ Minus(a, b) # {}
  <2>1. PICK x, y : x \in a /\ y \in b
    BY <1>0
  <2>2. x + y \in Plus(a, b) /\ x - y \in Minus(a, b)
    BY <2>1, InSum
  <2> QED
    BY <2>2
<1>1. Of("date") # {} /\ \A t \in Raw : Of(t) # {}
  BY DEF Legible
<1>2. /\ Of("highTax") # {} /\ Of("lowTax") # {} /\ Of("saleTax") # {} /\ Of("gas") # {}
      /\ Of("lottery") # {} /\ Of("creditCard") # {} /\ Of("lotteryPayout") # {}
  BY <1>1 DEF Raw
<1> HIDE DEF Of
<1>3. \A a, b : b # {} => Else(a, b) # {}
  BY DEF Else
<1>4. Total(row, mapping, config) # {}
  BY <1>0, <1>2, <1>3 DEF Total, Of
<1>5. Sales(row, mapping, config) # {}
  BY <1>0, <1>2, <1>3 DEF Sales, Of
<1>6. CreditPlusLottery(row, mapping, config) # {}
  BY <1>0, <1>2, <1>3 DEF CreditPlusLottery, Of
<1>7. CashDifference(row, mapping, config) # {}
  <2>1. Plus(Sales(row, mapping, config), Of("gas")) # {} /\ Plus(Of("lottery"), Of("saleTax")) # {}
        /\ Plus(Of("creditCard"), Of("lotteryPayout")) # {}
    BY <1>0, <1>2, <1>5
  <2>2. Plus(Plus(Sales(row, mapping, config), Of("gas")), Plus(Of("lottery"), Of("saleTax"))) # {}
    BY <1>0, <2>1
  <2> QED
    BY <1>0, <2>1, <2>2 DEF CashDifference, Of
<1> QED
  BY <1>1, <1>4, <1>6, <1>7 DEF Evaluated, Of

LEMMA FileRowIsSound ==
    ASSUME NEW row, ReadableRow(row), FileRow(row) # {}
    PROVE  The(FileRow(row)) \in SoundRows
<1> DEFINE Of(t) == The(Else(Cell(row, t), {0}))
           total == The(Else(Cell(row, "totalSales"), {Of("highTax") + Of("lowTax")}))
           cl == The(Else(Cell(row, "clTotal"), {Of("creditCard") + Of("lottery")}))
           cash == The(Else(Cell(row, "cash"), {total - Of("creditCard")}))
           figure == [t \in Raw |-> Of(t)]
           R(d) == [date |-> d, figure |-> figure, totalSales |-> total, clTotal |-> cl,
                    cash |-> cash, source |-> "file"]
<1>0. \A c : OneNumber(Cell(row, c))
  BY CellIsOne
<1>1. ASSUME NEW c, NEW n \in Int
      PROVE  The(Else(Cell(row, c), {n})) \in Int
  <2>1. OneNumber({n})
    BY DEF OneNumber
  <2>2. OneNumber(Else(Cell(row, c), {n})) /\ Else(Cell(row, c), {n}) # {}
    BY <1>0, <2>1, SumOfOnes DEF Else
  <2> QED
    BY <2>2, TheOne
<1>2. \A t : Of(t) \in Int
  BY <1>1
<1>3. FileRow(row) = {R(d) : d \in Cell(row, "date")}
  BY DEF FileRow
<1> HIDE DEF Of
<1>4. total \in Int /\ cl \in Int
  BY <1>1, <1>2
<1> HIDE DEF total, cl
<1>5. cash \in Int /\ figure \in [Raw -> Int]
  BY <1>1, <1>2, <1>4
<1> HIDE DEF cash, figure
<1>6. \A d \in Cell(row, "date") : d \in Int
  BY <1>0 DEF OneNumber
<1>7. ASSUME NEW d \in Cell(row, "date") PROVE R(d) \in SoundRows
  BY <1>4, <1>5, <1>6 DEF SoundRows, PdRows, PdSources, AddsUp
<1> HIDE DEF R
<1>8. The(FileRow(row)) \in FileRow(row)
  BY DEF The
<1> QED
  BY <1>3, <1>7, <1>8

-----------------------------------------------------------------------------
IsPdScript(s) ==
    /\ s \in [days : {s.days}, mapping : {s.mapping}, sheets : {s.sheets},
              derived : {s.derived}, ops : {s.ops}, left : Nat, faults : Nat]
    /\ IsFiniteSet(DOMAIN s.mapping)
    /\ s.mapping = [c \in DOMAIN s.mapping |-> s.mapping[c]]
    /\ \A sheet \in s.sheets :
          /\ sheet \in Seq({sheet[i] : i \in DOMAIN sheet})
          /\ \A i \in DOMAIN sheet : ReadableRow(sheet[i])

\* A request at rest or clearing, one whose sheet was refused, one that imports.
IsPdProc(x) ==
    \/ x \in [pc : {"idle", "forget"}]
    \/ x \in [pc : {"refused"}, op : {x.op}, sheet : {x.sheet}, derived : {x.derived}]
    \/ /\ x \in [pc : {"write", "mark", "job", "jobDone", "note", "end"}, op : {x.op},
                 rows : Seq(SoundRows), after : {"mark", "note", "end"}]
       /\ x.pc = "write" => x.rows # <<>>

RefusedRightly(x, mapping) ==
    x.pc = "refused" =>
        \/ x.sheet = <<>> \/ ~CompatibleMapping(mapping)
        \/ ~DerivedIsValid(mapping, x.derived, DOMAIN x.sheet[1])
        \/ \E i \in DOMAIN x.sheet : ~Legible(x.sheet[i], mapping)

Unfinished == {p \in PdProcs : PdAt(p, "jobDone")}

PdStored ==
    /\ \A d \in DOMAIN pdDays : \A r \in pdDays[d] : r.date = d /\ r \in SoundRows
    /\ pdLast \in PdSources \cup {"null"}
PdCounted ==
    /\ pdJobs \in [processing : Nat, done : Nat]
    /\ Cardinality(Unfinished) <= pdJobs.processing
PdProcsFit ==
    /\ pdProc = [p \in PdProcs |-> pdProc[p]]
    /\ \A p \in PdProcs : IsPdProc(pdProc[p]) /\ RefusedRightly(pdProc[p], pdScript.mapping)
PdInv == IsPdScript(pdScript) /\ PdStored /\ PdCounted /\ PdProcsFit

LEMMA UnfinishedIsFinite ==
    /\ IsFiniteSet(Unfinished) /\ Cardinality(Unfinished) \in Nat
<1>1. Unfinished \in SUBSET PdProcs
  BY DEF Unfinished
<1>2. IsFiniteSet(Unfinished)
  BY <1>1, PdAssumption, FS_Subset
<1> QED
  BY <1>2, FS_CardinalityType

\* A request is served and none begins to wait for the end of its job.
LEMMA PdServes ==
    ASSUME PdInv, NEW p \in PdProcs, NEW x, pdProc' = [pdProc EXCEPT ![p] = x], IsPdProc(x),
           RefusedRightly(x, pdScript.mapping), x.pc # "jobDone",
           IsPdScript(pdScript'), pdScript'.mapping = pdScript.mapping, PdStored',
           pdJobs' = pdJobs
    PROVE  PdInv'
<1>1. PdProcsFit'
  BY DEF PdInv, PdProcsFit
<1>2. Unfinished' \in SUBSET Unfinished
  BY DEF Unfinished, PdAt, PdInv, PdProcsFit
<1>3. Cardinality(Unfinished') <= Cardinality(Unfinished) /\ Cardinality(Unfinished') \in Nat
  <2>1. IsFiniteSet(Unfinished')
    BY <1>2, UnfinishedIsFinite, FS_Subset
  <2>2. Cardinality(Unfinished') <= Cardinality(Unfinished)
    BY <1>2, UnfinishedIsFinite, FS_Subset
  <2> QED
    BY <2>1, <2>2, FS_CardinalityType
<1>4. PdCounted'
  BY <1>3, UnfinishedIsFinite DEF PdInv, PdCounted
<1> QED
  BY <1>1, <1>4 DEF PdInv

\* What may still be asked keeps its sheets and mapping, however little is left.
LEMMA SameScript ==
    ASSUME NEW s, IsPdScript(s)
    PROVE  /\ s.left > 0 => LET new == [s EXCEPT !.left = @ - 1]
                            IN  IsPdScript(new) /\ new.mapping = s.mapping
           /\ s.faults > 0 => LET new == [s EXCEPT !.faults = @ - 1]
                              IN  IsPdScript(new) /\ new.mapping = s.mapping
<1>1. ASSUME NEW new,
             new \in [days : {s.days}, mapping : {s.mapping}, sheets : {s.sheets},
                      derived : {s.derived}, ops : {s.ops}, left : Nat, faults : Nat]
      PROVE  IsPdScript(new) /\ new.mapping = s.mapping
  <2>1. /\ new.days = s.days /\ new.mapping = s.mapping /\ new.sheets = s.sheets
        /\ new.derived = s.derived /\ new.ops = s.ops
    BY <1>1
  <2>2. new \in [days : {new.days}, mapping : {new.mapping}, sheets : {new.sheets},
                 derived : {new.derived}, ops : {new.ops}, left : Nat, faults : Nat]
    BY <1>1, <2>1
  <2> QED
    BY <2>1, <2>2 DEF IsPdScript
<1>2. s \in [days : {s.days}, mapping : {s.mapping}, sheets : {s.sheets},
             derived : {s.derived}, ops : {s.ops}, left : Nat, faults : Nat]
  BY DEF IsPdScript
<1> QED
  BY <1>1, <1>2

LEMMA PdBegins ==
    ASSUME IsPdScript(pdScript), PdBegin
    PROVE  IsPdScript(pdScript') /\ pdScript'.mapping = pdScript.mapping
BY SameScript DEF PdBegin

\* What a request becomes that has such rows to write.
Working(op, rows, after) ==
    [pc |-> IF rows = <<>> THEN after ELSE "write", op |-> op, rows |-> rows, after |-> after]

LEMMA WorkIs ==
    ASSUME NEW rows \in Seq(SoundRows), NEW op, NEW after \in {"mark", "note", "end"}, NEW mapping
    PROVE  LET x == Working(op, rows, after)
           IN  IsPdProc(x) /\ RefusedRightly(x, mapping) /\ x.pc # "jobDone"
<1> DEFINE pc == IF rows = <<>> THEN after ELSE "write"
           x == [pc |-> pc, op |-> op, rows |-> rows, after |-> after]
<1>1. pc \in {"write", "mark", "note", "end"} /\ (pc = "write" => rows # <<>>)
  OBVIOUS
<1> HIDE DEF pc
<1>2. IsPdProc(x) /\ RefusedRightly(x, mapping) /\ x.pc # "jobDone"
  BY <1>1 DEF IsPdProc, RefusedRightly
<1> QED
  BY <1>2 DEF Working, pc

LEMMA ImportSheetKeeps ==
    ASSUME PdInv, NEW p \in PdProcs, ImportSheet(p)
    PROVE  PdInv'
<1> DEFINE mapping == pdScript.mapping
<1>1. PICK sheet \in pdScript.sheets, derived \in pdScript.derived :
          LET rows == [i \in DOMAIN sheet |-> Evaluated(sheet[i], mapping, derived)]
              refused == \/ sheet = <<>> \/ ~CompatibleMapping(mapping)
                         \/ ~DerivedIsValid(mapping, derived, DOMAIN sheet[1])
                         \/ \E i \in DOMAIN rows : rows[i] = {}
          IN  IF refused
              THEN pdProc' = [pdProc EXCEPT ![p] =
                       [pc |-> "refused", op |-> "sheet", sheet |-> sheet, derived |-> derived]]
              ELSE Work(p, "sheet", [i \in DOMAIN rows |-> The(rows[i])], "mark")
  BY DEF ImportSheet
<1> DEFINE rows == [i \in DOMAIN sheet |-> Evaluated(sheet[i], mapping, derived)]
           refused == \/ sheet = <<>> \/ ~CompatibleMapping(mapping)
                      \/ ~DerivedIsValid(mapping, derived, DOMAIN sheet[1])
                      \/ \E i \in DOMAIN rows : rows[i] = {}
           told == [pc |-> "refused", op |-> "sheet", sheet |-> sheet, derived |-> derived]
           good == [i \in DOMAIN rows |-> The(rows[i])]
<1>2. IF refused THEN pdProc' = [pdProc EXCEPT ![p] = told]
      ELSE pdProc' = [pdProc EXCEPT ![p] = Working("sheet", good, "mark")]
  BY <1>1 DEF Work, Working
<1>3. /\ sheet \in Seq({sheet[i] : i \in DOMAIN sheet})
      /\ \A i \in DOMAIN sheet : ReadableRow(sheet[i])
      /\ IsFiniteSet(DOMAIN mapping) /\ mapping = [c \in DOMAIN mapping |-> mapping[c]]
  BY DEF PdInv, IsPdScript
<1>4. /\ IsPdScript(pdScript') /\ pdScript'.mapping = mapping
      /\ PdStored' /\ pdJobs' = pdJobs
  BY PdBegins DEF ImportSheet, PdInv, PdStored
<1> HIDE DEF mapping
<1>5. CASE refused
  <2>1. RefusedRightly(told, mapping)
    BY <1>5, RefusedIsIllegible DEF RefusedRightly
  <2>2. IsPdProc(told) /\ told.pc # "jobDone"
    BY DEF IsPdProc
  <2>3. pdProc' = [pdProc EXCEPT ![p] = told]
    BY <1>2, <1>5
  <2> HIDE DEF told
  <2> QED
    BY <1>4, <2>1, <2>2, <2>3, PdServes DEF mapping
<1>6. CASE ~refused
  <2>1. \A c, d \in DOMAIN mapping : mapping[c] = mapping[d] => c = d
    BY <1>3, <1>6, NoneTwice DEF CompatibleMapping
  <2>2. \A i \in DOMAIN sheet : The(rows[i]) \in SoundRows
    BY <1>3, <1>6, <2>1, EvaluatedAddsUp
  <2>3. DOMAIN sheet = 1..Len(sheet) /\ Len(sheet) \in Nat
    BY <1>3
  <2>4. good \in Seq(SoundRows)
    BY <2>2, <2>3
  <2>5. pdProc' = [pdProc EXCEPT ![p] = Working("sheet", good, "mark")]
    BY <1>2, <1>6
  <2> HIDE DEF good
  <2> DEFINE x == Working("sheet", good, "mark")
  <2>6. IsPdProc(x) /\ RefusedRightly(x, mapping) /\ x.pc # "jobDone"
    BY <2>4, WorkIs
  <2> HIDE DEF x
  <2>7. pdProc' = [pdProc EXCEPT ![p] = x]
    BY <2>5 DEF x
  <2> QED
    BY <1>4, <2>6, <2>7, PdServes DEF mapping
<1> QED
  BY <1>5, <1>6

LEMMA AtRestIs ==
    ASSUME NEW mapping, NEW pc \in {"idle", "forget"}
    PROVE  IsPdProc([pc |-> pc]) /\ RefusedRightly([pc |-> pc], mapping)
BY DEF IsPdProc, RefusedRightly

LEMMA ImportFileKeeps ==
    ASSUME PdInv, NEW p \in PdProcs, ImportFile(p)
    PROVE  PdInv'
<1> DEFINE mapping == pdScript.mapping
<1>1. PICK op \in {"file", "rows"} \cap pdScript.ops, sheet \in pdScript.sheets :
          LET good == {i \in DOMAIN sheet : FileRow(sheet[i]) # {}}
          IN  IF good = {} THEN PdDone(p)
              ELSE \E kept \in [1..Cardinality(good) -> good] :
                      Work(p, op, [i \in DOMAIN kept |-> The(FileRow(sheet[kept[i]]))],
                           IF op = "file" THEN "note" ELSE "end")
  BY DEF ImportFile
<1>2. /\ sheet \in Seq({sheet[i] : i \in DOMAIN sheet})
      /\ \A i \in DOMAIN sheet : ReadableRow(sheet[i])
  BY DEF PdInv, IsPdScript
<1>3. /\ IsPdScript(pdScript') /\ pdScript'.mapping = mapping
      /\ PdStored' /\ pdJobs' = pdJobs
  BY PdBegins DEF ImportFile, PdInv, PdStored
<1> DEFINE good == {i \in DOMAIN sheet : FileRow(sheet[i]) # {}}
           after == IF op = "file" THEN "note" ELSE "end"
<1>4. CASE good = {}
  <2>1. pdProc' = [pdProc EXCEPT ![p] = [pc |-> "idle"]]
    BY <1>1, <1>4 DEF PdDone, PdIdle
  <2>2. [pc |-> "idle"].pc # "jobDone"
    OBVIOUS
  <2> QED
    BY <1>3, <2>1, <2>2, AtRestIs, PdServes
<1>5. CASE good # {}
  <2>1. PICK kept \in [1..Cardinality(good) -> good] :
            Work(p, op, [i \in DOMAIN kept |-> The(FileRow(sheet[kept[i]]))], after)
    BY <1>1, <1>5
  <2> DEFINE rows == [i \in DOMAIN kept |-> The(FileRow(sheet[kept[i]]))]
             x == Working(op, rows, after)
  <2>2. pdProc' = [pdProc EXCEPT ![p] = x]
    BY <2>1 DEF Work, Working
  <2>3. \A i \in good : The(FileRow(sheet[i])) \in SoundRows
    BY <1>2, FileRowIsSound
  <2>4. Cardinality(good) \in Nat
    <3>1. good \in SUBSET (1..Len(sheet)) /\ Len(sheet) \in Nat
      BY <1>2
    <3>2. IsFiniteSet(1..Len(sheet))
      <4>1. 1 \in Int /\ Len(sheet) \in Int
        BY <3>1
      <4> QED
        BY <4>1, FS_Interval, Zenon
    <3>3. IsFiniteSet(good)
      BY <3>1, <3>2, FS_Subset
    <3> QED
      BY <3>3, FS_CardinalityType
  <2> HIDE DEF good
  <2>5. rows \in Seq(SoundRows)
    BY <2>3, <2>4
  <2>6. after \in {"mark", "note", "end"}
    OBVIOUS
  <2> HIDE DEF rows, after
  <2>7. IsPdProc(x) /\ RefusedRightly(x, mapping) /\ x.pc # "jobDone"
    BY <2>5, <2>6, WorkIs
  <2> HIDE DEF x
  <2> QED
    BY <1>3, <2>2, <2>7, PdServes
<1> QED
  BY <1>4, <1>5

LEMMA WriteDayKeeps ==
    ASSUME PdInv, NEW p \in PdProcs, WriteDay(p)
    PROVE  PdInv'
<1> DEFINE row == Head(pdProc[p].rows)
           rest == Tail(pdProc[p].rows)
           pc == IF rest = <<>> THEN pdProc[p].after ELSE pdProc[p].pc
           x == [pdProc[p] EXCEPT !.rows = rest, !.pc = pc]
<1>1. /\ pdProc[p] \in [pc : {"write"}, op : {pdProc[p].op},
                        rows : Seq(SoundRows), after : {"mark", "note", "end"}]
      /\ pdProc[p].rows # <<>>
  BY DEF PdInv, PdProcsFit, IsPdProc, WriteDay, PdAt
<1>2. row \in SoundRows /\ rest \in Seq(SoundRows)
  BY <1>1
<1>3. /\ pdDays' = [pdDays EXCEPT ![row.date] = {row}]
      /\ pdProc' = [pdProc EXCEPT ![p].rows = rest, ![p].pc = pc]
      /\ UNCHANGED <<pdLast, pdJobs, pdScript>>
  BY DEF WriteDay
<1>4. PdStored'
  BY <1>2, <1>3 DEF PdInv, PdStored
<1>5. pc \in {"write", "mark", "note", "end"} /\ (pc = "write" => rest # <<>>)
  BY <1>1
<1> HIDE DEF rest, pc
<1>6. pdProc' = [pdProc EXCEPT ![p] = x]
  BY <1>3 DEF PdInv, PdProcsFit
<1>7. IsPdProc(x) /\ RefusedRightly(x, pdScript.mapping) /\ x.pc # "jobDone"
  BY <1>1, <1>2, <1>5 DEF IsPdProc, RefusedRightly
<1> HIDE DEF x
<1> QED
  BY <1>3, <1>4, <1>6, <1>7, PdServes DEF PdInv

LEMMA PdInitially == PdInit => PdInv
<1> SUFFICES ASSUME PdInit PROVE PdInv
  OBVIOUS
<1>1. IsPdScript(pdScript)
  BY PdAssumption DEF PdInit, IsPdScript, ReadableRow
<1>2. PdStored
  BY DEF PdInit, PdStored
<1>3. PdProcsFit
  BY AtRestIs DEF PdInit, PdProcsFit, PdIdle
<1>4. Unfinished = {}
  BY DEF Unfinished, PdInit, PdIdle, PdAt
<1>5. PdCounted
  BY <1>4, FS_EmptySet DEF PdCounted, PdInit
<1> QED
  BY <1>1, <1>2, <1>3, <1>5 DEF PdInv

\* A request that goes on to another step of its import.
LEMMA PdGoes ==
    ASSUME PdInv, NEW p \in PdProcs, pdProc[p].pc \in {"mark", "job", "jobDone", "note", "end"},
           NEW pc \in {"job", "jobDone"}
    PROVE  LET x == [pdProc[p] EXCEPT !.pc = pc]
           IN  /\ IsPdProc(x) /\ RefusedRightly(x, pdScript.mapping) /\ x.pc = pc
               /\ [pdProc EXCEPT ![p].pc = pc] = [pdProc EXCEPT ![p] = x]
<1>1. pdProc[p] \in [pc : {"mark", "job", "jobDone", "note", "end"}, op : {pdProc[p].op},
                     rows : Seq(SoundRows), after : {"mark", "note", "end"}]
  BY DEF PdInv, PdProcsFit, IsPdProc
<1> QED
  BY <1>1 DEF IsPdProc, RefusedRightly

LEMMA CreateJobKeeps ==
    ASSUME PdInv, NEW p \in PdProcs, CreateJob(p)
    PROVE  PdInv'
<1> DEFINE x == [pdProc[p] EXCEPT !.pc = "jobDone"]
<1>1. /\ pdProc[p].pc = "job" /\ pdProc' = [pdProc EXCEPT ![p].pc = "jobDone"]
      /\ pdJobs' = [pdJobs EXCEPT !.processing = @ + 1]
      /\ UNCHANGED <<pdDays, pdLast, pdScript>>
  BY DEF CreateJob, PdAt, PdGo
<1>2. IsPdProc(x) /\ RefusedRightly(x, pdScript.mapping) /\ x.pc = "jobDone"
      /\ pdProc' = [pdProc EXCEPT ![p] = x]
  BY <1>1, PdGoes
<1> HIDE DEF x
<1>3. PdProcsFit' /\ PdStored' /\ IsPdScript(pdScript')
  BY <1>1, <1>2 DEF PdInv, PdProcsFit, PdStored
<1>4. Unfinished' = Unfinished \cup {p} /\ p \notin Unfinished
  BY <1>1, <1>2 DEF PdInv, PdProcsFit, Unfinished, PdAt
<1>5. Cardinality(Unfinished') = Cardinality(Unfinished) + 1
  <2>1. Cardinality(Unfinished \cup {p}) = Cardinality(Unfinished) + 1
    BY <1>4, UnfinishedIsFinite, FS_AddElement
  <2> QED
    BY <1>4, <2>1
<1>6. PdCounted'
  BY <1>1, <1>5, UnfinishedIsFinite DEF PdInv, PdCounted
<1> QED
  BY <1>3, <1>6 DEF PdInv

\* A request ends.
LEMMA PdEnds ==
    ASSUME PdInv, NEW p \in PdProcs, NEW pc \in {"idle", "forget"},
           pdProc' = [pdProc EXCEPT ![p] = [pc |-> pc]],
           IsPdScript(pdScript'), pdScript'.mapping = pdScript.mapping, PdStored',
           pdJobs' = pdJobs
    PROVE  PdInv'
<1>1. [pc |-> pc].pc # "jobDone"
  OBVIOUS
<1> QED
  BY <1>1, AtRestIs, PdServes

LEMMA FinishJobKeeps ==
    ASSUME PdInv, NEW p \in PdProcs, FinishJob(p)
    PROVE  PdInv'
<1>1. /\ pdProc[p].pc = "jobDone" /\ pdProc' = [pdProc EXCEPT ![p] = [pc |-> "idle"]]
      /\ pdJobs' = [processing |-> pdJobs.processing - 1, done |-> pdJobs.done + 1]
      /\ UNCHANGED <<pdDays, pdLast, pdScript>>
  BY DEF FinishJob, PdAt, PdDone, PdIdle
<1>2. PdProcsFit' /\ PdStored' /\ IsPdScript(pdScript')
  BY <1>1, AtRestIs DEF PdInv, PdProcsFit, PdStored
<1>3. Unfinished' = Unfinished \ {p} /\ p \in Unfinished
  BY <1>1 DEF PdInv, PdProcsFit, Unfinished, PdAt
<1>4. Cardinality(Unfinished') = Cardinality(Unfinished) - 1 /\ Cardinality(Unfinished') \in Nat
  <2>1. Cardinality(Unfinished \ {p}) = Cardinality(Unfinished) - 1 /\ IsFiniteSet(Unfinished \ {p})
    BY <1>3, UnfinishedIsFinite, FS_RemoveElement
  <2>2. Cardinality(Unfinished \ {p}) \in Nat
    BY <2>1, FS_CardinalityType
  <2> QED
    BY <1>3, <2>1, <2>2
<1>5. PdCounted'
  BY <1>1, <1>4, UnfinishedIsFinite DEF PdInv, PdCounted
<1> QED
  BY <1>2, <1>5 DEF PdInv

LEMMA PdStepKeeps == PdInv /\ [PdNext]_pdVars => PdInv'
<1> SUFFICES ASSUME PdInv, [PdNext]_pdVars PROVE PdInv'
  OBVIOUS
<1>0. IsPdScript(pdScript) /\ PdStored
  BY DEF PdInv
<1>1. ASSUME NEW p \in PdProcs, Refuse(p) \/ EndRows(p)
      PROVE  PdInv'
  BY <1>0, <1>1, PdEnds DEF Refuse, EndRows, PdDone, PdIdle, PdStored
<1>2. ASSUME NEW p \in PdProcs, NoteFile(p) \/ ForgetLast(p)
      PROVE  PdInv'
  <2>1. PdStored'
    BY <1>0, <1>2 DEF NoteFile, ForgetLast, PdStored, PdSources
  <2> QED
    BY <1>0, <1>2, <2>1, PdEnds DEF NoteFile, ForgetLast, PdDone, PdIdle
<1>3. ASSUME NEW p \in PdProcs, MarkSheet(p)
      PROVE  PdInv'
  <2>1. PdStored' /\ pdProc[p].pc = "mark" /\ pdProc' = [pdProc EXCEPT ![p].pc = "job"]
        /\ UNCHANGED <<pdJobs, pdScript>>
    BY <1>0, <1>3 DEF MarkSheet, PdStored, PdSources, PdAt, PdGo
  <2> DEFINE x == [pdProc[p] EXCEPT !.pc = "job"]
  <2>2. IsPdProc(x) /\ RefusedRightly(x, pdScript.mapping) /\ x.pc = "job"
        /\ pdProc' = [pdProc EXCEPT ![p] = x]
    BY <2>1, PdGoes
  <2> HIDE DEF x
  <2> QED
    BY <1>0, <2>1, <2>2, PdServes
<1>4. ASSUME NEW p \in PdProcs, ClearDays(p)
      PROVE  PdInv'
  <2>1. PdStored'
    <3>1. DOMAIN pdDays' = DOMAIN pdDays
          /\ \A d \in DOMAIN pdDays : pdDays'[d] \in {{}, pdDays[d]}
      BY <1>4 DEF ClearDays
    <3> QED
      BY <1>0, <1>4, <3>1 DEF ClearDays, PdStored
  <2>2. pdProc[p] = [pc |-> "idle"]
    BY <1>4 DEF PdInv, PdProcsFit, IsPdProc, ClearDays, PdAt
  <2>3. pdProc' = [pdProc EXCEPT ![p] = [pc |-> "forget"]]
    <3>1. [[pc |-> "idle"] EXCEPT !.pc = "forget"] = [pc |-> "forget"]
      OBVIOUS
    <3>2. pdProc' = [pdProc EXCEPT ![p] = [pdProc[p] EXCEPT !.pc = "forget"]]
      BY <1>4 DEF ClearDays, PdGo
    <3> QED
      BY <2>2, <3>1, <3>2
  <2>4. IsPdScript(pdScript') /\ pdScript'.mapping = pdScript.mapping /\ pdJobs' = pdJobs
    BY <1>0, <1>4, PdBegins DEF ClearDays
  <2> QED
    BY <2>1, <2>3, <2>4, PdEnds
<1>5. ASSUME NEW p \in PdProcs, PdFail(p)
      PROVE  PdInv'
  <2>1. IsPdScript(pdScript') /\ pdScript'.mapping = pdScript.mapping
    BY <1>0, <1>5, SameScript DEF PdFail
  <2> QED
    BY <1>0, <1>5, <2>1, PdEnds DEF PdFail, PdDone, PdIdle, PdStored
<1>6. CASE UNCHANGED pdVars
  <2>1. Unfinished' = Unfinished
    BY <1>6 DEF Unfinished, PdAt, pdVars
  <2> QED
    BY <1>6, <2>1 DEF PdInv, PdStored, PdCounted, PdProcsFit, pdVars
<1> QED
  BY <1>1, <1>2, <1>3, <1>4, <1>5, <1>6, ImportSheetKeeps, ImportFileKeeps, WriteDayKeeps,
     CreateJobKeeps, FinishJobKeeps DEF PdNext

LEMMA PdInvAgrees == PdInv => PdTypeOK /\ CheckedSheetsAddUp
<1> SUFFICES ASSUME PdInv PROVE PdTypeOK /\ CheckedSheetsAddUp
  OBVIOUS
<1>1. \A d \in DOMAIN pdDays : \A r \in pdDays[d] : r.date = d /\ r \in PdRows /\ AddsUp(r)
  BY DEF PdInv, PdStored, SoundRows
<1>2. PdTypeOK
  <2>1. \A p \in PdProcs : pdProc[p].pc \in {"idle", "refused", "write", "mark", "job", "jobDone",
                                            "note", "end", "forget"}
    BY DEF PdInv, PdProcsFit, IsPdProc
  <2> QED
    BY <1>1, <2>1 DEF PdInv, PdStored, PdCounted, PdTypeOK, PdRows
<1>3. CheckedSheetsAddUp
  BY <1>1 DEF PdInv, PdProcsFit, RefusedRightly, AddsUp, CheckedSheetsAddUp, PdAt
<1> QED
  BY <1>2, <1>3
-----------------------------------------------------------------------------
(* The reports.                                                            *)

IsRpAsk(ask) ==
    \/ ask = RpIdle
    \/ ask \in [pc : {"ask"}, range : {ask.range}, limit : RpLimits, list : {ask.list},
                count : {ask.count}, totals : {ask.totals}, moved : BOOLEAN]
RpTyped ==
    /\ DOMAIN rpRows \subseteq RpDays /\ \A d \in DOMAIN rpRows : rpRows[d] \in RpSales
    /\ rpCalendar \in RpCalendars /\ rpLeft \in Nat /\ rpLeft <= rpCalendar.asks
    /\ IsRpAsk(rpAsk)

LEMMA RpInitially == RpInit => RpTyped
BY RpAssumption DEF RpInit, RpTyped, IsRpAsk

LEMMA RpStepKeeps == RpTyped /\ [RpNext]_rpVars => RpTyped'
<1> SUFFICES ASSUME RpTyped, [RpNext]_rpVars PROVE RpTyped'
  OBVIOUS
<1>0. rpCalendar.asks \in Nat /\ rpLeft \in Nat /\ rpLeft <= rpCalendar.asks
  BY RpAssumption DEF RpTyped
<1>1. CASE Ask
  <2>1. PICK limit \in RpLimits : \E range :
             rpAsk' = [pc |-> "ask", range |-> range, limit |-> limit, list |-> {}, count |-> {},
                       totals |-> {}, moved |-> FALSE]
    BY <1>1 DEF Ask
  <2>2. IsRpAsk(rpAsk')
    BY <2>1 DEF IsRpAsk
  <2> QED
    BY <1>0, <1>1, <2>2 DEF Ask, RpTyped
<1>2. CASE ReadList \/ ReadCount \/ ReadTotals
  <2>1. rpAsk.pc = "ask"
    BY <1>2 DEF ReadList, ReadCount, ReadTotals
  <2>2. rpAsk \in [pc : {"ask"}, range : {rpAsk.range}, limit : RpLimits, list : {rpAsk.list},
                   count : {rpAsk.count}, totals : {rpAsk.totals}, moved : BOOLEAN]
    BY <2>1 DEF RpTyped, IsRpAsk, RpIdle
  <2>3. PICK x : \/ rpAsk' = [rpAsk EXCEPT !.list = x]
                 \/ rpAsk' = [rpAsk EXCEPT !.count = x]
                 \/ rpAsk' = [rpAsk EXCEPT !.totals = x]
    BY <1>2 DEF ReadList, ReadCount, ReadTotals
  <2>4. rpAsk' \in [pc : {"ask"}, range : {rpAsk'.range}, limit : RpLimits, list : {rpAsk'.list},
                    count : {rpAsk'.count}, totals : {rpAsk'.totals}, moved : BOOLEAN]
    BY <2>2, <2>3
  <2>5. UNCHANGED <<rpCalendar, rpRows, rpLeft>>
    BY <1>2 DEF ReadList, ReadCount, ReadTotals
  <2> QED
    BY <2>4, <2>5 DEF RpTyped, IsRpAsk
<1>3. CASE Answer
  BY <1>3 DEF Answer, RpTyped, IsRpAsk
<1>4. CASE RecordDay
  <2>1. PICK d \in RpDays, n \in RpSales :
          /\ rpRows' = [e \in DOMAIN rpRows \cup {d} |-> IF e = d THEN n ELSE rpRows[e]]
          /\ rpAsk' = IF rpAsk = RpIdle THEN RpIdle ELSE [rpAsk EXCEPT !.moved = TRUE]
    BY <1>4 DEF RecordDay
  <2>2. DOMAIN rpRows' \subseteq RpDays /\ \A e \in DOMAIN rpRows' : rpRows'[e] \in RpSales
    BY <2>1 DEF RpTyped
  <2>3. IsRpAsk(rpAsk')
    <3>1. CASE rpAsk = RpIdle
      BY <2>1, <3>1 DEF IsRpAsk
    <3>2. CASE rpAsk # RpIdle
      <4>1. rpAsk \in [pc : {"ask"}, range : {rpAsk.range}, limit : RpLimits, list : {rpAsk.list},
                       count : {rpAsk.count}, totals : {rpAsk.totals}, moved : BOOLEAN]
        BY <3>2 DEF RpTyped, IsRpAsk
      <4>2. rpAsk' = [rpAsk EXCEPT !.moved = TRUE]
        BY <2>1, <3>2
      <4> QED
        BY <4>1, <4>2 DEF IsRpAsk
    <3> QED
      BY <3>1, <3>2
  <2> QED
    BY <1>0, <1>4, <2>2, <2>3 DEF RecordDay, RpTyped
<1>5. CASE UNCHANGED rpVars
  BY <1>5 DEF RpTyped, rpVars
<1> QED
  BY <1>1, <1>2, <1>3, <1>4, <1>5 DEF RpNext

LEMMA RpTypedAgrees == RpTyped => RpTypeOK
<1> SUFFICES ASSUME RpTyped PROVE RpTypeOK
  OBVIOUS
<1>1. rpAsk # RpIdle => rpAsk.limit \in RpLimits /\ rpAsk.moved \in BOOLEAN
  BY DEF RpTyped, IsRpAsk
<1>2. rpLeft \in 0..rpCalendar.asks
  BY RpAssumption DEF RpTyped
<1> QED
  BY <1>1, <1>2 DEF RpTyped, RpTypeOK
-----------------------------------------------------------------------------
(* The mapping form.                                                       *)

\* A mapping to targets and figures, over columns that a sheet may have; the
\* headers and the tabs that may be previewed have such columns too.
MwTyped ==
    /\ DOMAIN mwMapping \subseteq MwColumns
    /\ \A c \in DOMAIN mwMapping : mwMapping[c] \in Mappable \cup DerivedKeys
    /\ mwDerived \in [DerivedKeys -> {Calc, NoColumn} \cup MwColumns]
    /\ mwHeaders \subseteq MwColumns
    /\ mwScript \in [targets : {mwScript.targets}, picks : {mwScript.picks},
                     tabs : {mwScript.tabs}, left : Nat]
    /\ UNION mwScript.tabs \subseteq MwColumns

LEMMA ByTargetIs ==
    ASSUME NEW mapping, NEW t \in Mappable
    PROVE  /\ ColumnOf(mapping, t) = {} => ByTarget(mapping)[t] = NoColumn
           /\ ColumnOf(mapping, t) # {} =>
                 ByTarget(mapping)[t] \in DOMAIN mapping /\ mapping[ByTarget(mapping)[t]] = t
BY DEF ByTarget, ColumnOf

LEMMA ByColumnIs ==
    ASSUME NEW byTarget
    PROVE  /\ DOMAIN ByColumn(byTarget) = {byTarget[t] : t \in Mappable} \ {NoColumn}
           /\ \A c \in DOMAIN ByColumn(byTarget) :
                 /\ ByColumn(byTarget)[c] \in Mappable
                 /\ byTarget[ByColumn(byTarget)[c]] = c
<1>1. ByColumn(byTarget) =
          [c \in {byTarget[t] : t \in Mappable} \ {NoColumn} |->
              CHOOSE t \in Mappable : byTarget[t] = c]
  BY DEF ByColumn
<1>2. \A c \in {byTarget[t] : t \in Mappable} \ {NoColumn} :
          \E t \in Mappable : byTarget[t] = c
  OBVIOUS
<1> QED
  BY <1>1, <1>2

LEMMA ShownIs ==
    ASSUME MwTyped
    PROVE  Shown \in [DerivedKeys -> {Calc, NoColumn} \cup MwColumns]
<1>1. \A k \in DerivedKeys :
          ColumnOf(mwMapping, k) # {} =>
              (CHOOSE c \in ColumnOf(mwMapping, k) : TRUE) \in MwColumns
  BY DEF MwTyped, ColumnOf
<1>2. Shown = [k \in DerivedKeys |->
        CASE k = "cashDiff" -> Calc
          [] k # "cashDiff" /\ ColumnOf(mwMapping, k) # {} ->
                CHOOSE c \in ColumnOf(mwMapping, k) : TRUE
          [] OTHER -> mwDerived[k]]
  BY DEF Shown, ShownConfig
<1>3. mwDerived \in [DerivedKeys -> {Calc, NoColumn} \cup MwColumns]
  BY DEF MwTyped
<1> QED
  BY <1>1, <1>2, <1>3

LEMMA TargetsHaveColumns ==
    ASSUME MwTyped, NEW t \in Mappable
    PROVE  ByTarget(mwMapping)[t] \in {NoColumn} \cup MwColumns
BY ByTargetIs DEF MwTyped

\* An edit: the columns it leaves or adds are columns of the sheets.
LEMMA PushStateKeeps ==
    ASSUME MwTyped, NEW byTarget, NEW config, PushState(byTarget, config),
           \A t \in Mappable : byTarget[t] \in {NoColumn} \cup MwColumns,
           config \in [DerivedKeys -> {Calc, NoColumn} \cup MwColumns]
    PROVE  MwTyped'
<1>1. /\ mwMapping' = ByColumn(byTarget) /\ mwDerived' = config /\ mwHeaders' = mwHeaders
      /\ mwScript' = [mwScript EXCEPT !.left = @ - 1] /\ mwScript.left > 0
  BY DEF PushState
<1>2. /\ DOMAIN mwMapping' \subseteq MwColumns
      /\ \A c \in DOMAIN mwMapping' : mwMapping'[c] \in Mappable
  <2> DEFINE m == ByColumn(byTarget)
  <2>1. DOMAIN m = {byTarget[t] : t \in Mappable} \ {NoColumn}
        /\ \A c \in DOMAIN m : m[c] \in Mappable
    BY ByColumnIs
  <2>2. mwMapping' = m
    BY <1>1
  <2> HIDE DEF m
  <2> QED
    BY <2>1, <2>2
<1>3. mwScript' \in [targets : {mwScript.targets}, picks : {mwScript.picks},
                     tabs : {mwScript.tabs}, left : Nat]
  BY <1>1 DEF MwTyped
<1> QED
  BY <1>1, <1>2, <1>3 DEF MwTyped

LEMMA MwInitially == MwInit => MwTyped
<1> SUFFICES ASSUME MwInit PROVE MwTyped
  OBVIOUS
<1>1. PICK s \in MwScripts :
        /\ mwMapping = s.mapping
        /\ mwDerived = s.derived
        /\ mwHeaders = s.headers
        /\ mwScript = [targets |-> s.targets, picks |-> s.picks, tabs |-> s.tabs, left |-> s.left]
  BY DEF MwInit
<1>2. s.headers \subseteq MwColumns
  BY DEF MwColumns
<1> QED
  BY <1>1, <1>2, MwAssumption DEF MwTyped

LEMMA MwStepKeeps == MwTyped /\ [MwNext]_mwVars => MwTyped'
<1> SUFFICES ASSUME MwTyped, [MwNext]_mwVars PROVE MwTyped'
  OBVIOUS
<1> DEFINE B == ByTarget(mwMapping)
           K == {Calc, NoColumn} \cup MwColumns
<1>0. /\ \A t \in Mappable : B[t] \in {NoColumn} \cup MwColumns
      /\ Shown \in [DerivedKeys -> K]
      /\ Picks \subseteq MwColumns
  BY TargetsHaveColumns, ShownIs DEF Picks, MwTyped
<1> HIDE DEF B
<1>1. ASSUME NEW t, NEW c \in {NoColumn} \cup MwColumns
      PROVE  \A u \in Mappable : SetColumn(B, t, c)[u] \in {NoColumn} \cup MwColumns
  BY <1>0 DEF SetColumn
<1>2. CASE SelectColumn
  <2>1. PICK t \in mwScript.targets, c \in Picks \cup {NoColumn} : PushState(SetColumn(B, t, c), Shown)
    BY <1>2 DEF SelectColumn, B
  <2>2. c \in {NoColumn} \cup MwColumns
    BY <1>0
  <2> QED
    BY <1>0, <1>1, <2>1, <2>2, PushStateKeeps
<1>3. CASE ToggleMode
  <2>1. PICK k \in DerivedKeys \ {"cashDiff"} :
            PushState(B, [Shown EXCEPT ![k] = IF @ = Calc THEN NoColumn ELSE Calc])
    BY <1>3 DEF ToggleMode, B
  <2> DEFINE config == [Shown EXCEPT ![k] = IF @ = Calc THEN NoColumn ELSE Calc]
  <2>2. config \in [DerivedKeys -> K]
    BY <1>0
  <2>3. PushState(B, config)
    BY <2>1
  <2> HIDE DEF config
  <2> QED
    BY <1>0, <2>2, <2>3, PushStateKeeps
<1>4. CASE SelectOwnColumn
  <2>1. PICK k \in DerivedKeys \ {"cashDiff"}, c \in Picks \cup {NoColumn} :
            PushState([t \in Mappable |-> IF B[t] = c THEN NoColumn ELSE B[t]],
                      SetOwnColumn(Shown, k, c))
    BY <1>4 DEF SelectOwnColumn, B
  <2> DEFINE left == [t \in Mappable |-> IF B[t] = c THEN NoColumn ELSE B[t]]
             config == SetOwnColumn(Shown, k, c)
  <2>2. config \in [DerivedKeys -> K]
    BY <1>0 DEF SetOwnColumn
  <2>3. \A t \in Mappable : left[t] \in {NoColumn} \cup MwColumns
    BY <1>0
  <2>4. PushState(left, config)
    BY <2>1
  <2> HIDE DEF left, config
  <2> QED
    BY <2>2, <2>3, <2>4, PushStateKeeps
<1>5. CASE UseDateHeader
  <2>1. PushState(SetColumn(B, "date", "date"), Shown) /\ "date" \in mwHeaders
    BY <1>5 DEF UseDateHeader, B
  <2>2. "date" \in {NoColumn} \cup MwColumns
    BY <2>1 DEF MwTyped
  <2> QED
    BY <1>0, <1>1, <2>1, <2>2, PushStateKeeps
<1>6. CASE ClearTimestamps
  <2> DEFINE left == [t \in DOMAIN B |-> IF B[t] \in MwStamps THEN NoColumn ELSE B[t]]
             config == [k \in DOMAIN Shown |-> IF Shown[k] \in MwStamps THEN NoColumn ELSE Shown[k]]
  <2>1. PushState(left, config)
    BY <1>6 DEF ClearTimestamps, B
  <2>2. DOMAIN B = Mappable
    BY DEF B, ByTarget
  <2>3. \A t \in Mappable : left[t] \in {NoColumn} \cup MwColumns
    BY <1>0, <2>2
  <2>4. config \in [DerivedKeys -> K]
    BY <1>0
  <2> HIDE DEF left, config
  <2> QED
    BY <2>1, <2>3, <2>4, PushStateKeeps
<1>7. CASE AutoFix
  <2> DEFINE config == [k \in DerivedKeys |->
                   IF Shown[k] # Calc /\ (\/ Shown[k] \in {B[t] : t \in Mappable}
                                          \/ \E e \in Above[k] : Shown[e] = Shown[k])
                   THEN NoColumn ELSE Shown[k]]
  <2>1. PushState(B, config)
    BY <1>7 DEF AutoFix, B
  <2>2. config \in [DerivedKeys -> K]
    BY <1>0
  <2> HIDE DEF config
  <2> QED
    BY <1>0, <2>1, <2>2, PushStateKeeps
<1>8. CASE PreviewTab
  <2>1. PICK h \in mwScript.tabs :
          /\ mwHeaders' = h
          /\ mwMapping' = IF DOMAIN mwMapping # {} THEN mwMapping
                          ELSE [c \in h \cap RequiredTargets |-> c]
    BY <1>8 DEF PreviewTab
  <2>2. h \subseteq MwColumns
    BY DEF MwTyped
  <2>3. mwScript' \in [targets : {mwScript.targets}, picks : {mwScript.picks},
                       tabs : {mwScript.tabs}, left : Nat] /\ mwDerived' = mwDerived
    BY <1>8 DEF PreviewTab, MwTyped
  <2>4. /\ DOMAIN mwMapping' \subseteq MwColumns
        /\ \A c \in DOMAIN mwMapping' : mwMapping'[c] \in Mappable \cup DerivedKeys
    BY <2>1, <2>2 DEF MwTyped, Mappable
  <2> QED
    BY <2>1, <2>2, <2>3, <2>4 DEF MwTyped
<1>9. CASE UNCHANGED mwVars
  BY <1>9 DEF MwTyped, mwVars
<1> QED
  BY <1>2, <1>3, <1>4, <1>5, <1>6, <1>7, <1>8, <1>9 DEF MwNext
-----------------------------------------------------------------------------
LEMMA MappableIs ==
    /\ IsFiniteSet(Mappable) /\ IsFiniteSet(DerivedKeys)
    /\ Mappable \cap DerivedKeys = {} /\ RequiredTargets \subseteq Mappable
<1>1. IsFiniteSet({}) /\ \A S, x : IsFiniteSet(S) => IsFiniteSet(S \cup {x})
  BY FS_EmptySet, FS_AddElement
<1>2. DerivedKeys = ((({} \cup {"day"}) \cup {"totalSales"}) \cup {"creditPlusLottery"}) \cup {"cashDiff"}
  BY DEF DerivedKeys
<1>3. Mappable = ((((((((({} \cup {"highTax"}) \cup {"lowTax"}) \cup {"saleTax"}) \cup {"gas"})
                     \cup {"lottery"}) \cup {"creditCard"}) \cup {"lotteryPayout"})
                  \cup {"date"}) \cup {"cashExpenses"}) \cup {"notes"}
  BY DEF Mappable, RequiredTargets, Raw
<1>4. IsFiniteSet(DerivedKeys)
  BY ONLY <1>1, <1>2
<1>5. IsFiniteSet(Mappable)
  BY ONLY <1>1, <1>3
<1> QED
  BY <1>4, <1>5 DEF Mappable, DerivedKeys, RequiredTargets, Raw

\* A normalized mapping names for each of its columns a target of the form's, no two
\* columns the same one, and its two forms tell the same.
LEMMA NormalizedIs ==
    ASSUME NormalizeMapping(mwMapping) = mwMapping
    PROVE  /\ mwMapping = [c \in DOMAIN mwMapping |-> mwMapping[c]]
           /\ IsFiniteSet(DOMAIN mwMapping) /\ NoColumn \notin DOMAIN mwMapping
           /\ \A c \in DOMAIN mwMapping :
                 mwMapping[c] \in Mappable /\ ByTarget(mwMapping)[mwMapping[c]] = c
           /\ \A t \in Mappable :
                 ByTarget(mwMapping)[t] # NoColumn
                     => /\ ByTarget(mwMapping)[t] \in DOMAIN mwMapping
                        /\ mwMapping[ByTarget(mwMapping)[t]] = t
           /\ \A t \in Mappable : t \in Targets(mwMapping) <=> ByTarget(mwMapping)[t] # NoColumn
<1> DEFINE M == mwMapping
           B == ByTarget(M)
<1>1. M = ByColumn(B)
  BY DEF NormalizeMapping
<1>2. M = [c \in DOMAIN M |-> M[c]]
  BY <1>1 DEF ByColumn
<1>3. /\ DOMAIN M = {B[t] : t \in Mappable} \ {NoColumn}
      /\ \A c \in DOMAIN M : M[c] \in Mappable /\ B[M[c]] = c
  BY <1>1, ByColumnIs
<1>4. \A t \in Mappable : B[t] # NoColumn => B[t] \in DOMAIN M /\ M[B[t]] = t
  BY ByTargetIs
<1> HIDE DEF B
<1>5. IsFiniteSet(DOMAIN M)
  <2> DEFINE f == [t \in Mappable |-> B[t]]
             T == {B[t] : t \in Mappable}
  <2>1. f \in Surjection(Mappable, T)
    BY DEF Surjection
  <2> HIDE DEF f
  <2>2. IsFiniteSet(T)
    BY <2>1, MappableIs, FS_Surjection
  <2> HIDE DEF T
  <2>3. DOMAIN M \in SUBSET T
    BY <1>3 DEF T
  <2> QED
    BY <2>2, <2>3, FS_Subset
<1>6. \A t \in Mappable : t \in Targets(M) <=> B[t] # NoColumn
  BY <1>3, <1>4 DEF Targets
<1> QED
  BY <1>2, <1>3, <1>4, <1>5, <1>6 DEF B

LEMMA CountOfOne ==
    /\ \A S : IsFiniteSet(S) => Cardinality(S) \in Nat
    /\ Cardinality({}) = 0 /\ \A x : IsFiniteSet({x}) /\ Cardinality({x}) = 1
    /\ \A S : IsFiniteSet(S) => (Cardinality(S) = 0 <=> S = {})
BY FS_EmptySet, FS_Singleton, FS_CardinalityType

\* The form's verdict of a column in use and the server's.
LEMMA UsersAgree ==
    ASSUME MwTyped, NormalizeMapping(mwMapping) = mwMapping,
           NEW C \in [DerivedKeys -> {Calc, NoColumn} \cup MwColumns], NEW c
    PROVE  LET B == ByTarget(mwMapping)
               users == {k \in DerivedKeys : C[k] = c}
               count == Cardinality(users) + Cardinality({c} \cap DOMAIN mwMapping)
           IN  /\ c # NoColumn => Cardinality(UsedBy(c, B, C)) = count
               /\ count \in Nat
               /\ users = {} => count <= 1
<1> DEFINE B == ByTarget(mwMapping)
           users == {k \in DerivedKeys : C[k] = c}
           own == {t \in Mappable : B[t] = c}
<1>1. /\ \A d \in DOMAIN mwMapping : mwMapping[d] \in Mappable /\ B[mwMapping[d]] = d
      /\ \A t \in Mappable :
            B[t] # NoColumn => B[t] \in DOMAIN mwMapping /\ mwMapping[B[t]] = t
  BY NormalizedIs
<1> HIDE DEF B
<1>2. IsFiniteSet(users) /\ Cardinality(users) \in Nat
  <2>1. users \in SUBSET DerivedKeys
    OBVIOUS
  <2>2. IsFiniteSet(users)
    BY <2>1, MappableIs, FS_Subset
  <2> QED
    BY <2>2, CountOfOne
<1>3. Cardinality({c} \cap DOMAIN mwMapping) = IF c \in DOMAIN mwMapping THEN 1 ELSE 0
  <2>1. {c} \cap DOMAIN mwMapping = IF c \in DOMAIN mwMapping THEN {c} ELSE {}
    OBVIOUS
  <2> QED
    BY <2>1, CountOfOne
<1>4. users = {} => Cardinality(users) = 0
  BY CountOfOne
<1>5. ASSUME c # NoColumn
      PROVE  Cardinality(UsedBy(c, B, C)) = Cardinality(users) + Cardinality({c} \cap DOMAIN mwMapping)
  <2>0. UsedBy(c, B, C) = own \cup users
    BY DEF UsedBy
  <2>1. CASE c \in DOMAIN mwMapping
    <3>1. own = {mwMapping[c]}
      BY <1>1, <1>5, <2>1
    <3>2. mwMapping[c] \notin users
      BY <1>1, <2>1, MappableIs
    <3> HIDE DEF own, users
    <3>3. UsedBy(c, B, C) = users \cup {mwMapping[c]}
      BY <2>0, <3>1
    <3>4. Cardinality(users \cup {mwMapping[c]}) = Cardinality(users) + 1
      BY <1>2, <3>2, FS_AddElement
    <3>5. Cardinality({c} \cap DOMAIN mwMapping) = 1
      BY <1>3, <2>1
    <3> QED
      BY <3>3, <3>4, <3>5
  <2>2. CASE c \notin DOMAIN mwMapping
    <3>1. own = {}
      BY <1>1, <1>5, <2>2
    <3> HIDE DEF own, users
    <3>2. UsedBy(c, B, C) = users
      BY <2>0, <3>1
    <3> QED
      BY <1>2, <1>3, <2>2, <3>2
  <2> QED
    BY <2>1, <2>2
<1> HIDE DEF users
<1>6. Cardinality(users) + Cardinality({c} \cap DOMAIN mwMapping) \in Nat
      /\ (users = {} => Cardinality(users) + Cardinality({c} \cap DOMAIN mwMapping) <= 1)
  BY <1>2, <1>3, <1>4
<1> QED
  BY <1>5, <1>6 DEF users, B

\* What a calculated figure lacks and what it needs.
LEMMA LacksWhatItNeeds ==
    ASSUME NEW mapping, NEW B, NEW C, NEW k \in DerivedKeys,
           \A t \in Mappable : t \in Targets(mapping) <=> B[t] # NoColumn
    PROVE  MissingDependencies(k, B, C) = {} <=> Needs(k, C) \subseteq Targets(mapping)
<1> DEFINE Lacks(targets) == {t \in targets : B[t] = NoColumn}
<1>0. \A S \in SUBSET Mappable : Lacks(S) = {} <=> S \subseteq Targets(mapping)
  OBVIOUS
<1> DEFINE high == {"highTax", "lowTax"}
           rest == {"saleTax", "gas", "lottery", "creditCard", "lotteryPayout"}
           paid == {"creditCard", "lotteryPayout"}
<1>1. {"date"} \subseteq Mappable /\ high \subseteq Mappable /\ rest \subseteq Mappable
      /\ paid \subseteq Mappable
  BY DEF Mappable, RequiredTargets, Raw
<1>2. CASE k = "day"
  <2>1. MissingDependencies(k, B, C) = Lacks({"date"}) /\ Needs(k, C) = {"date"}
    BY <1>2 DEF MissingDependencies, Needs
  <2> QED
    BY <1>0, <1>1, <2>1
<1>3. CASE k = "totalSales"
  <2>1. MissingDependencies(k, B, C) = Lacks(high) /\ Needs(k, C) = high
    BY <1>3 DEF MissingDependencies, Needs
  <2> QED
    BY <1>0, <1>1, <2>1
<1>4. CASE k = "creditPlusLottery"
  <2>1. MissingDependencies(k, B, C) = Lacks(paid) /\ Needs(k, C) = paid
    BY <1>4 DEF MissingDependencies, Needs
  <2> QED
    BY <1>0, <1>1, <2>1
<1>5. CASE k = "cashDiff"
  <2>1. /\ MissingDependencies(k, B, C)
             = Lacks(rest) \cup (IF C["totalSales"] # NoColumn THEN {} ELSE Lacks(high))
        /\ Needs(k, C) = rest \cup (IF C["totalSales"] = NoColumn THEN high ELSE {})
    BY <1>5 DEF MissingDependencies, Needs
  <2>2. /\ Lacks(rest) = {} <=> rest \subseteq Targets(mapping)
        /\ Lacks(high) = {} <=> high \subseteq Targets(mapping)
    BY <1>0, <1>1
  <2> HIDE DEF Lacks, high, rest
  <2> QED
    BY <2>1, <2>2
<1> QED
  BY <1>2, <1>3, <1>4, <1>5 DEF DerivedKeys

LEMMA MwTypedAgrees == MwTyped => MwTypeOK /\ WizardAgrees
<1> SUFFICES ASSUME MwTyped PROVE MwTypeOK /\ WizardAgrees
  OBVIOUS
<1>1. MwTypeOK
  BY DEF MwTyped, MwTypeOK
<1>2. ASSUME NormalizeMapping(mwMapping) = mwMapping
      PROVE  FormIsHappy <=> /\ CompatibleMapping(mwMapping)
                             /\ DerivedIsValid(mwMapping, mwDerived, mwHeaders)
  <2> DEFINE M == mwMapping
             B == ByTarget(M)
             C == Shown
             H == mwHeaders
             Count(c) == Cardinality({k \in DerivedKeys : C[k] = c}) + Cardinality({c} \cap DOMAIN M)
             SourcesSound == \A k \in DerivedKeys :
                          IF C[k] = Calc THEN Needs(k, C) \subseteq Targets(M) ELSE C[k] \in H
             InUse == ({B[t] : t \in Mappable} \cup {C[k] : k \in DerivedKeys}) \ {NoColumn, Calc}
  <2>1. /\ M = [c \in DOMAIN M |-> M[c]]
        /\ IsFiniteSet(DOMAIN M) /\ NoColumn \notin DOMAIN M
        /\ \A c \in DOMAIN M : M[c] \in Mappable /\ B[M[c]] = c
        /\ \A t \in Mappable : B[t] # NoColumn => B[t] \in DOMAIN M /\ M[B[t]] = t
        /\ \A t \in Mappable : t \in Targets(M) <=> B[t] # NoColumn
    BY <1>2, NormalizedIs
  <2>2. C \in [DerivedKeys -> {Calc, NoColumn} \cup MwColumns]
    BY ShownIs
  <2>3. \A k \in DerivedKeys : ColumnOf(M, k) = {}
    BY <2>1, MappableIs DEF ColumnOf
  <2>4. DerivedConfig(M, mwDerived) = C /\ C["cashDiff"] = Calc
    <3>1. /\ C = [k \in DerivedKeys |-> IF k = "cashDiff" THEN Calc ELSE mwDerived[k]]
      BY <2>3 DEF Shown, ShownConfig
    <3>2. DerivedConfig(M, mwDerived)
              = [k \in DerivedKeys |-> IF k = "cashDiff" THEN Calc ELSE mwDerived[k]]
      BY <2>3 DEF DerivedConfig
    <3> QED
      BY <3>1, <3>2 DEF DerivedKeys
  <2>5. /\ H \subseteq MwColumns /\ DOMAIN M \subseteq MwColumns
        /\ Calc \notin MwColumns /\ NoColumn \notin MwColumns
    BY MwAssumption DEF MwTyped
  <2>6. CompatibleMapping(M) <=> \A t \in RequiredTargets : B[t] # NoColumn
    <3>1. \A c, d \in DOMAIN M : M[c] = M[d] => c = d
      BY <2>1
    <3>2. Cardinality(Targets(M)) = Cardinality(DOMAIN M)
      BY <2>1, <3>1, NoneTwice
    <3>3. RequiredTargets \subseteq Targets(M) <=> \A t \in RequiredTargets : B[t] # NoColumn
      BY <2>1, MappableIs
    <3> QED
      BY <3>2, <3>3 DEF CompatibleMapping
  <2>7. RequiredTargets \subseteq Targets(M) <=> \A t \in RequiredTargets : B[t] # NoColumn
    BY <2>1, MappableIs
  <2>8. "cashDiff" \notin Targets(M)
    BY <2>1, MappableIs DEF Targets, DerivedKeys
  <2>9. DerivedIsValid(M, mwDerived, H)
            <=> /\ \A c \in H \cup DOMAIN M : Count(c) <= 1
                /\ RequiredTargets \subseteq Targets(M) /\ SourcesSound
    BY <2>4, <2>8 DEF DerivedIsValid
  <2>10. \A k \in DerivedKeys :
            MissingDependencies(k, B, C) = {} <=> Needs(k, C) \subseteq Targets(M)
    BY <2>1, LacksWhatItNeeds
  <2>11. FormIsHappy
            <=> /\ \A t \in RequiredTargets : B[t] # NoColumn
                /\ \A c \in InUse : Cardinality(UsedBy(c, B, C)) = 1
                /\ SourcesSound
    BY <2>10 DEF FormIsHappy, IsCompatible
  <2>12. ASSUME NEW c
         PROVE  /\ c # NoColumn => Cardinality(UsedBy(c, B, C)) = Count(c)
                /\ Count(c) \in Nat
                /\ {k \in DerivedKeys : C[k] = c} = {} => Count(c) <= 1
    BY <1>2, <2>2, UsersAgree
  <2>13. \A c : c \in InUse => c # NoColumn /\ (c \in DOMAIN M \/ \E k \in DerivedKeys : C[k] = c /\ c # Calc)
    BY <2>1
  <2>14. ASSUME NEW c \in InUse PROVE Count(c) >= 1
    <3>1. CASE c \in DOMAIN M
      <4>1. {c} \cap DOMAIN M = {c}
        BY <3>1
      <4>2. Cardinality({c} \cap DOMAIN M) = 1
        BY <4>1, CountOfOne
      <4> DEFINE users == {k \in DerivedKeys : C[k] = c}
      <4>3. users \in SUBSET DerivedKeys
        OBVIOUS
      <4> HIDE DEF users
      <4>4. Cardinality(users) \in Nat
        BY <4>3, MappableIs, FS_Subset, CountOfOne
      <4> QED
        BY <4>2, <4>4 DEF users
    <3>2. CASE c \notin DOMAIN M
      <4> DEFINE users == {k \in DerivedKeys : C[k] = c}
      <4>1. users \in SUBSET DerivedKeys /\ users # {}
        BY <2>13, <3>2
      <4> HIDE DEF users
      <4>2. IsFiniteSet(users)
        BY <4>1, MappableIs, FS_Subset
      <4>3. Cardinality(users) \in Nat /\ Cardinality(users) # 0
        BY <4>1, <4>2, CountOfOne
      <4>4. Cardinality({c} \cap DOMAIN M) = 0
        BY <3>2, CountOfOne
      <4> QED
        BY <4>3, <4>4 DEF users
    <3> QED
      BY <3>1, <3>2
  <2>15. ASSUME SourcesSound
         PROVE  (\A c \in H \cup DOMAIN M : Count(c) <= 1)
                    <=> \A c \in InUse : Cardinality(UsedBy(c, B, C)) = 1
    <3>1. \A c \in InUse : c \in H \cup DOMAIN M
      BY <2>13, <2>15
    <3>2. \A c \in H \cup DOMAIN M : c \in InUse \/ {k \in DerivedKeys : C[k] = c} = {}
      BY <2>5
    <3>3. \A c \in H \cup DOMAIN M : c # NoColumn
      BY <2>5
    <3> HIDE DEF Count, InUse
    <3>4. \A c \in InUse : Cardinality(UsedBy(c, B, C)) = Count(c) /\ Count(c) \in Nat /\ Count(c) >= 1
      BY <2>12, <2>13, <2>14
    <3>5. \A c \in H \cup DOMAIN M : c \notin InUse => Count(c) <= 1
      BY <2>12, <3>2
    <3> QED
      BY <3>1, <3>4, <3>5
  <2> HIDE DEF Count, InUse, SourcesSound
  <2> QED
    BY <2>6, <2>7, <2>9, <2>11, <2>15
<1> QED
  BY <1>1, <1>2 DEF WizardAgrees
-----------------------------------------------------------------------------
(* The point-of-sale page.                                                 *)

PpViews ==
    [range : PpRanges, page : PpPages, limit : PpLimits, view : {"table", "dashboard"},
     daily : BOOLEAN, overview : BOOLEAN, syncing : BOOLEAN, error : BOOLEAN]
PpRequests ==
    [kind : {"daily"}, range : PpRanges, page : PpPages, limit : PpLimits,
     job : PpJobs \cup {NoJob}]
    \cup [kind : {"overview"}, range : PpRanges, page : {0}, limit : {0},
          job : PpJobs \cup {NoJob}]
PpTravels(flights) == IsABag(flights) /\ DOMAIN flights \subseteq PpRequests
PpModals == [open : BOOLEAN, phase : {"source", "confirm"}, busy : BOOLEAN]
PpTyped ==
    /\ ppView \in PpViews /\ PpTravels(ppFlights) /\ ppMissed \in BOOLEAN
    /\ ppJob \in [PpJobs -> {"idle", "commit", "reload"}] /\ ppModal \in PpModals

\* A job that reloads waits for one request, and no other job for any.
Awaits(j) ==
    /\ ppJob[j] = "reload" <=> \E f \in DOMAIN ppFlights : f.job = j
    /\ \A f, g \in DOMAIN ppFlights : f.job = j /\ g.job = j => f = g /\ ppFlights[f] = 1

PpInv == PpTyped /\ (\A j \in PpJobs : Awaits(j)) /\ RecordsMatchPage

LEMMA BagOfSome ==
    ASSUME NEW condition \in BOOLEAN, NEW r
    PROVE  /\ IsABag(Some(condition, r))
           /\ DOMAIN Some(condition, r) = IF condition THEN {r} ELSE {}
           /\ \A e \in DOMAIN Some(condition, r) : Some(condition, r)[e] = 1
BY DEF Some, SetToBag, EmptyBag, IsABag

LEMMA BagPlus ==
    ASSUME NEW A, NEW B, IsABag(A), IsABag(B)
    PROVE  /\ IsABag(A (+) B) /\ DOMAIN (A (+) B) = DOMAIN A \cup DOMAIN B
           /\ \A e \in DOMAIN A \ DOMAIN B : (A (+) B)[e] = A[e]
           /\ \A e \in DOMAIN B \ DOMAIN A : (A (+) B)[e] = B[e]
BY DEF IsABag, (+)

LEMMA BagWithout ==
    ASSUME NEW A, IsABag(A), NEW f \in DOMAIN A
    PROVE  /\ IsABag(A (-) SetToBag({f}))
           /\ DOMAIN (A (-) SetToBag({f})) = IF A[f] = 1 THEN DOMAIN A \ {f} ELSE DOMAIN A
           /\ \A e \in DOMAIN (A (-) SetToBag({f})) : e # f => (A (-) SetToBag({f}))[e] = A[e]
<1> DEFINE B == [e \in DOMAIN A |-> IF e \in {f} THEN A[e] - SetToBag({f})[e] ELSE A[e]]
<1>1. A (-) SetToBag({f}) = [e \in {d \in DOMAIN B : B[d] > 0} |-> B[e]]
  BY DEF (-), SetToBag
<1>2. \A e \in DOMAIN A : A[e] \in Nat /\ A[e] > 0
  BY DEF IsABag
<1>3. \A e \in DOMAIN A : B[e] = IF e = f THEN A[e] - 1 ELSE A[e]
  BY DEF SetToBag
<1>4. DOMAIN B = DOMAIN A
  OBVIOUS
<1> HIDE DEF B
<1>5. {d \in DOMAIN B : B[d] > 0} = IF A[f] = 1 THEN DOMAIN A \ {f} ELSE DOMAIN A
  BY <1>2, <1>3, <1>4
<1> DEFINE D == {d \in DOMAIN B : B[d] > 0}
           C == [e \in D |-> B[e]]
<1>6. \A e \in D : e \in DOMAIN A /\ C[e] \in {n \in Nat : n > 0} /\ (e # f => C[e] = A[e])
  BY <1>2, <1>3, <1>4
<1>7. DOMAIN C = D /\ C \in [D -> {n \in Nat : n > 0}]
  BY <1>6
<1> HIDE DEF C, D
<1>8. A (-) SetToBag({f}) = C
  BY <1>1 DEF C, D
<1>9. D = IF A[f] = 1 THEN DOMAIN A \ {f} ELSE DOMAIN A
  BY <1>5 DEF D
<1> QED
  BY <1>6, <1>7, <1>8, <1>9 DEF IsABag

LEMMA BagLess ==
    ASSUME NEW A, IsABag(A)
    PROVE  /\ IsABag(A (-) EmptyBag) /\ DOMAIN (A (-) EmptyBag) = DOMAIN A
           /\ \A e \in DOMAIN A : (A (-) EmptyBag)[e] = A[e]
<1>1. \A e \in DOMAIN A : A[e] \in Nat /\ A[e] > 0
  BY DEF IsABag
<1> DEFINE B == [e \in DOMAIN A |-> A[e]]
<1>2. A (-) EmptyBag = [e \in {d \in DOMAIN B : B[d] > 0} |-> B[e]]
  BY DEF (-), EmptyBag, SetToBag
<1>3. {d \in DOMAIN B : B[d] > 0} = DOMAIN A
  BY <1>1
<1>4. A (-) EmptyBag = [e \in DOMAIN A |-> A[e]]
  BY <1>2, <1>3
<1> QED
  BY <1>1, <1>4 DEF IsABag

LEMMA RequestsAre ==
    ASSUME NEW view \in PpViews, NEW job \in PpJobs \cup {NoJob}
    PROVE  /\ Daily(view, job) \in PpRequests /\ Overview(view, job) \in PpRequests
           /\ Daily(view, job).job = job /\ Overview(view, job).job = job
           /\ Daily(view, job).kind = "daily" /\ Overview(view, job).kind = "overview"
BY DEF PpViews, PpRequests, Daily, Overview

\* What the effects ask for has no job, and rows are among it when page or limit changed.
LEMMA EffectsAsk ==
    ASSUME NEW old \in PpViews, NEW new \in PpViews
    PROVE  /\ PpTravels(Effects(old, new))
           /\ \A r \in DOMAIN Effects(old, new) : r.job = NoJob
           /\ old.page # new.page \/ old.limit # new.limit
                 => \E r \in DOMAIN Effects(old, new) : r.kind = "daily"
<1> DEFINE o == Overview(new, NoJob)
           d == Daily(new, NoJob)
           p == new.range # old.range
           q == \E f \in {"range", "page", "limit"} : new[f] # old[f]
<1>1. o \in PpRequests /\ d \in PpRequests /\ o.job = NoJob /\ d.job = NoJob /\ d.kind = "daily"
  BY RequestsAre
<1>2. p \in BOOLEAN /\ q \in BOOLEAN
  OBVIOUS
<1>3. old.page # new.page \/ old.limit # new.limit => q
  OBVIOUS
<1>4. Effects(old, new) = Some(p, o) (+) Some(q, d)
  BY DEF Effects
<1> HIDE DEF o, d, p, q
<1>5. /\ IsABag(Some(p, o)) /\ DOMAIN Some(p, o) = IF p THEN {o} ELSE {}
      /\ IsABag(Some(q, d)) /\ DOMAIN Some(q, d) = IF q THEN {d} ELSE {}
  BY <1>2, BagOfSome
<1>6. IsABag(Effects(old, new)) /\ DOMAIN Effects(old, new)
          = (IF p THEN {o} ELSE {}) \cup (IF q THEN {d} ELSE {})
  BY <1>4, <1>5, BagPlus
<1> QED
  BY <1>1, <1>3, <1>6 DEF PpTravels

LEMMA PendingIs ==
    ASSUME NEW view \in PpViews, NEW sent
    PROVE  /\ Pending(view, sent) \in PpViews
           /\ Pending(view, sent).page = view.page /\ Pending(view, sent).limit = view.limit
<1> DEFINE d == view.daily \/ \E r \in BagToSet(sent) : r.kind = "daily"
           o == view.overview \/ \E r \in BagToSet(sent) : r.kind = "overview"
           e == view.error /\ sent = EmptyBag
<1>1. Pending(view, sent) = [view EXCEPT !.daily = d, !.overview = o, !.error = e]
  BY DEF Pending, PpViews
<1>2. d \in BOOLEAN /\ o \in BOOLEAN /\ e \in BOOLEAN
  BY DEF PpViews
<1> HIDE DEF d, o, e
<1> QED
  BY <1>1, <1>2 DEF PpViews

\* The store becomes view: what was on its way and not among gone still is.
PpMoves(view, asked, gone) ==
    /\ ppView' \in PpViews
    /\ ppView'.page = view.page /\ ppView'.limit = view.limit
    /\ PpTravels(ppFlights')
    /\ ppView.page # view.page \/ ppView.limit # view.limit
          => \E r \in DOMAIN ppFlights' : r.kind = "daily"
    /\ \A r \in DOMAIN asked : r \in DOMAIN ppFlights'
    /\ \A r \in DOMAIN ppFlights : r \in DOMAIN ppFlights' \/ (r \in gone /\ ppFlights[r] = 1)
    /\ \A r \in DOMAIN ppFlights' : r.job # NoJob =>
          \/ r \in DOMAIN asked
          \/ /\ r \in DOMAIN ppFlights
             /\ r \in gone => ppFlights[r] # 1
             /\ r \notin gone => ppFlights'[r] = ppFlights[r]
    /\ \A r \in DOMAIN asked : r.job # NoJob
          => (r \in DOMAIN ppFlights /\ ~(r \in gone /\ ppFlights[r] = 1))
             \/ ppFlights'[r] = asked[r]

LEMMA PpBecomes ==
    ASSUME PpTyped, NEW view \in PpViews, NEW asked, PpTravels(asked), NEW gone,
           gone = {} \/ \E f \in DOMAIN ppFlights : gone = {f},
           Become(view, asked, SetToBag(gone))
    PROVE  PpMoves(view, asked, gone)
<1> DEFINE effects == Effects(ppView, view)
           sent == effects (+) asked
           left == ppFlights (-) SetToBag(gone)
<1>1. /\ ppView \in PpViews /\ PpTravels(ppFlights)
  BY DEF PpTyped
<1>2. /\ PpTravels(effects) /\ \A r \in DOMAIN effects : r.job = NoJob
      /\ ppView.page # view.page \/ ppView.limit # view.limit
                 => \E r \in DOMAIN effects : r.kind = "daily"
  BY <1>1, EffectsAsk
<1>3. ppFlights' = left (+) sent /\ ppView' = Pending(view, sent)
  BY DEF Become
<1> HIDE DEF effects
<1>4. /\ IsABag(sent) /\ DOMAIN sent = DOMAIN effects \cup DOMAIN asked
      /\ \A r \in DOMAIN asked : r.job # NoJob => sent[r] = asked[r]
  <2>1. IsABag(effects) /\ IsABag(asked)
    BY <1>2 DEF PpTravels
  <2>2. /\ IsABag(sent) /\ DOMAIN sent = DOMAIN effects \cup DOMAIN asked
        /\ \A e \in DOMAIN asked \ DOMAIN effects : sent[e] = asked[e]
    BY <2>1, BagPlus
  <2> QED
    BY <1>2, <2>2
<1>5. /\ IsABag(left) /\ DOMAIN left \subseteq DOMAIN ppFlights
      /\ \A r \in DOMAIN ppFlights :
            r \notin DOMAIN left <=> r \in gone /\ ppFlights[r] = 1
      /\ \A r \in DOMAIN left : r \notin gone => left[r] = ppFlights[r]
  <2>1. CASE gone = {}
    <3>1. left = ppFlights (-) EmptyBag
      BY <2>1 DEF EmptyBag
    <3> HIDE DEF left
    <3> QED
      BY <1>1, <2>1, <3>1, BagLess DEF PpTravels
  <2>2. CASE \E f \in DOMAIN ppFlights : gone = {f}
    <3> PICK f \in DOMAIN ppFlights : gone = {f}
      BY <2>2
    <3>1. left = ppFlights (-) SetToBag({f})
      OBVIOUS
    <3> HIDE DEF left
    <3>2. /\ IsABag(left)
          /\ DOMAIN left = IF ppFlights[f] = 1 THEN DOMAIN ppFlights \ {f} ELSE DOMAIN ppFlights
          /\ \A e \in DOMAIN left : e # f => left[e] = ppFlights[e]
      BY <1>1, <3>1, BagWithout DEF PpTravels
    <3> QED
      BY <3>2
  <2> QED
    BY <2>1, <2>2
<1> HIDE DEF sent, left
<1>6. /\ IsABag(ppFlights') /\ DOMAIN ppFlights' = DOMAIN left \cup DOMAIN sent
      /\ \A r \in DOMAIN left \ DOMAIN sent : ppFlights'[r] = left[r]
      /\ \A r \in DOMAIN sent \ DOMAIN left : ppFlights'[r] = sent[r]
  <2>1. IsABag(left) /\ IsABag(sent)
    BY <1>4, <1>5
  <2> DEFINE both == left (+) sent
  <2>2. /\ IsABag(both) /\ DOMAIN both = DOMAIN left \cup DOMAIN sent
        /\ \A e \in DOMAIN left \ DOMAIN sent : both[e] = left[e]
        /\ \A e \in DOMAIN sent \ DOMAIN left : both[e] = sent[e]
    BY <2>1, BagPlus
  <2>3. ppFlights' = both
    BY <1>3
  <2> HIDE DEF both
  <2> QED
    BY <2>2, <2>3
<1>7. PpTravels(ppFlights')
  BY <1>1, <1>2, <1>4, <1>5, <1>6 DEF PpTravels
<1>8. /\ ppView' \in PpViews
      /\ ppView'.page = view.page /\ ppView'.limit = view.limit
  BY <1>3, PendingIs
<1>9. ppView.page # view.page \/ ppView.limit # view.limit
                 => \E r \in DOMAIN ppFlights' : r.kind = "daily"
  BY <1>2, <1>4, <1>6
<1>10. ASSUME NEW r \in DOMAIN ppFlights', r.job # NoJob, r \notin DOMAIN asked
       PROVE  /\ r \in DOMAIN ppFlights
              /\ r \in gone => ppFlights[r] # 1
              /\ r \notin gone => ppFlights'[r] = ppFlights[r]
  <2>1. r \in DOMAIN left /\ r \notin DOMAIN sent
    BY <1>2, <1>4, <1>6, <1>10
  <2> QED
    BY <1>5, <1>6, <2>1
<1>11. ASSUME NEW r \in DOMAIN asked, r.job # NoJob,
              r \notin DOMAIN ppFlights \/ (r \in gone /\ ppFlights[r] = 1)
       PROVE  ppFlights'[r] = asked[r]
  <2>1. r \in DOMAIN sent /\ r \notin DOMAIN left /\ sent[r] = asked[r]
    BY <1>4, <1>5, <1>11
  <2> QED
    BY <1>6, <2>1
<1>12. /\ \A r \in DOMAIN asked : r \in DOMAIN ppFlights'
       /\ \A r \in DOMAIN ppFlights : r \in DOMAIN ppFlights' \/ (r \in gone /\ ppFlights[r] = 1)
  BY <1>4, <1>5, <1>6
<1> QED
  BY <1>7, <1>8, <1>9, <1>10, <1>11, <1>12 DEF PpMoves

\* A step that neither asks nor answers.
LEMMA PpAside ==
    ASSUME PpInv, UNCHANGED <<ppFlights, ppShown, ppMissed>>,
           ppView' \in PpViews, ppView'.page = ppView.page, ppView'.limit = ppView.limit,
           ppJob' \in [PpJobs -> {"idle", "commit", "reload"}], ppModal' \in PpModals,
           \A j \in PpJobs : ppJob'[j] = "reload" <=> ppJob[j] = "reload"
    PROVE  PpInv'
<1>1. PpTyped'
  BY DEF PpInv, PpTyped, PpTravels
<1>2. \A j \in PpJobs : Awaits(j)'
  BY DEF PpInv, Awaits
<1>3. RecordsMatchPage'
  BY DEF PpInv, RecordsMatchPage, BagToSet
<1> QED
  BY <1>1, <1>2, <1>3 DEF PpInv

\* The rows keep their page while none are asked for, whatever else is answered.
LEMMA RecordsStay ==
    ASSUME PpInv, ppShown' = ppShown,
           ppView.page # ppView'.page \/ ppView.limit # ppView'.limit
               => \E r \in DOMAIN ppFlights' : r.kind = "daily",
           \/ ppMissed' = TRUE
           \/ /\ ppMissed' = ppMissed
              /\ \A r \in DOMAIN ppFlights : r.kind = "daily" => r \in DOMAIN ppFlights'
    PROVE  RecordsMatchPage'
BY DEF PpInv, RecordsMatchPage, BagToSet

\* A step of the user's that asks.
LEMMA PpAsks ==
    ASSUME PpInv, NEW view \in PpViews, NEW asked, PpTravels(asked),
           \A r \in DOMAIN asked : r.job = NoJob, Become(view, asked, EmptyBag),
           UNCHANGED <<ppShown, ppMissed, ppJob, ppModal>>
    PROVE  PpInv'
<1>0. PpTyped /\ NoJob \notin PpJobs
  BY PpAssumption DEF PpInv, PpJobs, NoJob, FileJob
<1>1. /\ ppView' \in PpViews
      /\ ppView'.page = view.page /\ ppView'.limit = view.limit
      /\ PpTravels(ppFlights')
      /\ ppView.page # view.page \/ ppView.limit # view.limit
            => \E r \in DOMAIN ppFlights' : r.kind = "daily"
      /\ \A r \in DOMAIN ppFlights : r \in DOMAIN ppFlights'
      /\ \A r \in DOMAIN ppFlights' : r.job # NoJob =>
            r \in DOMAIN ppFlights /\ ppFlights'[r] = ppFlights[r]
  <2>1. PpMoves(view, asked, {})
    BY <1>0, PpBecomes DEF EmptyBag
  <2> QED
    BY <2>1 DEF PpMoves
<1>2. PpTyped'
  BY <1>0, <1>1 DEF PpTyped
<1>3. \A j \in PpJobs : Awaits(j)'
  BY <1>0, <1>1 DEF PpInv, Awaits
<1>4. RecordsMatchPage'
  BY <1>1, RecordsStay
<1> QED
  BY <1>2, <1>3, <1>4 DEF PpInv

LEMMA NothingAsked == PpTravels(EmptyBag) /\ DOMAIN EmptyBag = {}
BY DEF PpTravels, EmptyBag, SetToBag, IsABag

LEMMA BothAsked ==
    ASSUME NEW view \in PpViews
    PROVE  LET both == Some(TRUE, Daily(view, NoJob)) (+) Some(TRUE, Overview(view, NoJob))
           IN  /\ PpTravels(both) /\ \A r \in DOMAIN both : r.job = NoJob
<1> DEFINE d == Daily(view, NoJob)
           o == Overview(view, NoJob)
<1>1. d \in PpRequests /\ o \in PpRequests /\ d.job = NoJob /\ o.job = NoJob
  BY RequestsAre
<1> HIDE DEF d, o
<1>2. /\ IsABag(Some(TRUE, d)) /\ DOMAIN Some(TRUE, d) = {d}
      /\ IsABag(Some(TRUE, o)) /\ DOMAIN Some(TRUE, o) = {o}
  BY BagOfSome
<1> DEFINE both == Some(TRUE, d) (+) Some(TRUE, o)
<1>3. IsABag(both) /\ DOMAIN both = {d} \cup {o}
  BY <1>2, BagPlus
<1> HIDE DEF both
<1>4. PpTravels(both) /\ \A r \in DOMAIN both : r.job = NoJob
  BY <1>1, <1>3 DEF PpTravels
<1> QED
  BY <1>4 DEF both, d, o

LEMMA PpInitially == PpInit => PpInv
<1> SUFFICES ASSUME PpInit PROVE PpInv
  OBVIOUS
<1>1. PICK s \in PpScripts, r \in PpRanges, l \in PpLimits :
        LET blank == [range |-> r, page |-> 1, limit |-> l, view |-> "table",
                      daily |-> FALSE, overview |-> FALSE, syncing |-> FALSE, error |-> FALSE]
            sent == Some(TRUE, Daily(blank, NoJob)) (+) Some(TRUE, Overview(blank, NoJob))
        IN  /\ ppView = IF s.ops = {} THEN blank ELSE Pending(blank, sent)
            /\ ppFlights = IF s.ops = {} THEN EmptyBag ELSE sent
            /\ ppShown = {} /\ ppMissed = FALSE
            /\ ppJob = [j \in PpJobs |-> "idle"]
            /\ ppModal = Closed
  BY DEF PpInit
<1> DEFINE blank == [range |-> r, page |-> 1, limit |-> l, view |-> "table",
                      daily |-> FALSE, overview |-> FALSE, syncing |-> FALSE, error |-> FALSE]
           sent == Some(TRUE, Daily(blank, NoJob)) (+) Some(TRUE, Overview(blank, NoJob))
<1>2. blank \in PpViews
  BY PpAssumption DEF PpViews
<1>3. PpTravels(sent) /\ \A q \in DOMAIN sent : q.job = NoJob
  BY <1>2, BothAsked
<1>4. Pending(blank, sent) \in PpViews
  BY <1>2, PendingIs
<1>5. /\ ppView = IF s.ops = {} THEN blank ELSE Pending(blank, sent)
      /\ ppFlights = IF s.ops = {} THEN EmptyBag ELSE sent
      /\ ppShown = {} /\ ppMissed = FALSE
      /\ ppJob = [j \in PpJobs |-> "idle"]
      /\ ppModal = Closed
  BY <1>1
<1> HIDE DEF blank, sent
<1>6. PpTyped /\ \A q \in DOMAIN ppFlights : q.job = NoJob
  BY <1>2, <1>3, <1>4, <1>5, NothingAsked DEF PpTyped, PpModals, Closed
<1>7. \A j \in PpJobs : Awaits(j)
  BY <1>5, <1>6, PpAssumption DEF Awaits, PpJobs, NoJob, FileJob
<1> QED
  BY <1>5, <1>6, <1>7 DEF PpInv, RecordsMatchPage

\* The import of j is made: its request is the only one j waits for.
LEMMA ImportedKeeps == PpInv /\ Imported => PpInv'
<1> SUFFICES ASSUME PpInv, Imported PROVE PpInv'
  OBVIOUS
<1>1. PICK j \in PpJobs :
        /\ ppJob[j] = "commit"
        /\ ppJob' = [ppJob EXCEPT ![j] = "reload"]
        /\ Become(ppView, Some(TRUE, Daily(ppView, j)), EmptyBag)
        /\ UNCHANGED <<ppShown, ppMissed, ppModal, ppScript>>
  BY DEF Imported
<1> DEFINE d == Daily(ppView, j)
           asked == Some(TRUE, d)
<1>0. PpTyped /\ NoJob \notin PpJobs
  BY PpAssumption DEF PpInv, PpJobs, NoJob, FileJob
<1>2. d \in PpRequests /\ d.job = j /\ ppView \in PpViews
  BY <1>0, RequestsAre DEF PpTyped
<1>3. Become(ppView, asked, EmptyBag)
  BY <1>1
<1> HIDE DEF d
<1>4. PpTravels(asked) /\ DOMAIN asked = {d} /\ asked[d] = 1
  BY <1>2, BagOfSome DEF PpTravels
<1> HIDE DEF asked
<1>5. /\ \A f \in DOMAIN ppFlights : f.job # j
      /\ d \notin DOMAIN ppFlights
  BY <1>1, <1>2 DEF PpInv, Awaits
<1>6. /\ ppView' \in PpViews
      /\ ppView'.page = ppView.page /\ ppView'.limit = ppView.limit
      /\ PpTravels(ppFlights')
      /\ \A r \in DOMAIN ppFlights : r \in DOMAIN ppFlights'
      /\ d \in DOMAIN ppFlights' /\ ppFlights'[d] = 1
      /\ \A r \in DOMAIN ppFlights' : r.job # NoJob =>
            r = d \/ (r \in DOMAIN ppFlights /\ ppFlights'[r] = ppFlights[r])
  <2>1. PpMoves(ppView, asked, {})
    BY <1>0, <1>2, <1>3, <1>4, PpBecomes DEF EmptyBag
  <2>2. d.job # NoJob
    BY <1>0, <1>2
  <2> QED
    BY <1>4, <1>5, <2>1, <2>2 DEF PpMoves
<1>7. PpTyped'
  BY <1>0, <1>1, <1>6 DEF PpTyped
<1>8. ASSUME NEW k \in PpJobs PROVE Awaits(k)'
  <2>1. CASE k = j
    BY <1>0, <1>1, <1>2, <1>5, <1>6, <2>1 DEF Awaits, PpTyped
  <2>2. CASE k # j
    <3>1. ppJob'[k] = ppJob[k] /\ Awaits(k)
      BY <1>0, <1>1, <2>2 DEF PpInv, PpTyped
    <3> QED
      BY <1>0, <1>2, <1>6, <2>2, <3>1 DEF Awaits
  <2> QED
    BY <2>1, <2>2
<1>9. RecordsMatchPage'
  BY <1>1, <1>6, RecordsStay
<1> QED
  BY <1>7, <1>8, <1>9 DEF PpInv

\* An answer to f, good or bad, and what it lets go on.
LEMMA ContinueKeeps ==
    ASSUME PpInv, NEW f \in DOMAIN ppFlights, NEW view \in PpViews, Continue(f, view),
           ppMissed' \in BOOLEAN
    PROVE  /\ PpTyped' /\ \A j \in PpJobs : Awaits(j)'
           /\ ppView'.page = view.page /\ ppView'.limit = view.limit
           /\ ppView.page # view.page \/ ppView.limit # view.limit
                 => \E r \in DOMAIN ppFlights' : r.kind = "daily"
           /\ \A r \in DOMAIN ppFlights : r # f => r \in DOMAIN ppFlights'
<1> DEFINE over == f.job # NoJob /\ f.kind = "overview"
           onward == f.job # NoJob /\ f.kind = "daily"
           o == Overview(view, f.job)
           asked == Some(onward, o)
           shows == [view EXCEPT !.syncing = @ /\ ~(over /\ f.job \in PpSyncs)]
<1>0. /\ PpTyped /\ NoJob \notin PpJobs /\ f \in PpRequests
      /\ f.job \in PpJobs \cup {NoJob} /\ f.kind \in {"daily", "overview"}
      /\ onward \in BOOLEAN /\ over \in BOOLEAN
  BY PpAssumption DEF PpInv, PpTyped, PpTravels, PpRequests, PpJobs, NoJob, FileJob
<1>1. o \in PpRequests /\ o.job = f.job /\ o.kind = "overview"
  BY <1>0, RequestsAre
<1>2. shows \in PpViews /\ shows.page = view.page /\ shows.limit = view.limit
  <2> DEFINE s == view.syncing /\ ~(over /\ f.job \in PpSyncs)
  <2>1. s \in BOOLEAN /\ shows = [view EXCEPT !.syncing = s]
    BY DEF PpViews
  <2> HIDE DEF s, shows
  <2> QED
    BY <2>1 DEF PpViews
<1>3. /\ ppJob' = [j \in PpJobs |-> IF over /\ j = f.job THEN "idle" ELSE ppJob[j]]
      /\ ppModal' = IF over /\ f.job = FileJob THEN Closed ELSE ppModal
      /\ Become(shows, asked, SetToBag({f}))
  BY DEF Continue
<1> HIDE DEF o, shows
<1>4. PpTravels(asked) /\ DOMAIN asked = (IF onward THEN {o} ELSE {})
      /\ \A e \in DOMAIN asked : asked[e] = 1
  <2> HIDE DEF onward
  <2>1. /\ IsABag(asked) /\ DOMAIN asked = IF onward THEN {o} ELSE {}
        /\ \A e \in DOMAIN asked : asked[e] = 1
    BY <1>0, BagOfSome
  <2> QED
    BY <1>1, <2>1 DEF PpTravels
<1> HIDE DEF asked
<1>6. /\ ppView' \in PpViews
      /\ ppView'.page = view.page /\ ppView'.limit = view.limit
      /\ PpTravels(ppFlights')
      /\ ppView.page # view.page \/ ppView.limit # view.limit
            => \E r \in DOMAIN ppFlights' : r.kind = "daily"
      /\ \A r \in DOMAIN asked : r \in DOMAIN ppFlights'
      /\ \A r \in DOMAIN ppFlights : r \in DOMAIN ppFlights' \/ (r = f /\ ppFlights[r] = 1)
      /\ \A r \in DOMAIN ppFlights' : r.job # NoJob =>
            \/ r \in DOMAIN asked
            \/ /\ r \in DOMAIN ppFlights
               /\ r = f => ppFlights[r] # 1
               /\ r # f => ppFlights'[r] = ppFlights[r]
      /\ \A r \in DOMAIN asked : r.job # NoJob
            => (r \in DOMAIN ppFlights /\ ~(r = f /\ ppFlights[r] = 1)) \/ ppFlights'[r] = asked[r]
  <2>1. PpMoves(shows, asked, {f})
    BY <1>0, <1>2, <1>3, <1>4, PpBecomes
  <2>2. \A r : r \in {f} <=> r = f
    OBVIOUS
  <2> QED
    BY <1>2, <2>1, <2>2 DEF PpMoves
<1>7. PpTyped'
  <2>1. ppJob' \in [PpJobs -> {"idle", "commit", "reload"}]
    BY <1>0, <1>3 DEF PpTyped
  <2>2. ppModal' \in PpModals
    BY <1>0, <1>3 DEF PpTyped, PpModals, Closed
  <2> QED
    BY <1>6, <2>1, <2>2 DEF PpTyped
<1>8. ASSUME NEW k \in PpJobs PROVE Awaits(k)'
  <2>0. Awaits(k)
    BY DEF PpInv
  <2>1. CASE k # f.job
    <3>1. ppJob'[k] = ppJob[k]
      BY <1>3, <2>1
    <3>2. \A r : r.job = k => r # f /\ r \notin DOMAIN asked
      BY <1>1, <1>4, <2>1
    <3> QED
      BY <1>0, <1>6, <2>0, <3>1, <3>2 DEF Awaits
  <2>2. CASE k = f.job
    <3>1. /\ ppJob[k] = "reload" /\ ppFlights[f] = 1 /\ k # NoJob
          /\ \A g \in DOMAIN ppFlights : g.job = k => g = f
      BY <1>0, <2>0, <2>2 DEF Awaits
    <3>2. CASE over
      <4>1. ppJob'[k] = "idle" /\ DOMAIN asked = {}
        BY <1>3, <1>4, <2>2, <3>2
      <4>2. \A r \in DOMAIN ppFlights' : r.job # k
        BY <1>6, <3>1, <4>1
      <4> QED
        BY <4>1, <4>2 DEF Awaits
    <3>3. CASE ~over
      <4>1. ppJob'[k] = "reload" /\ DOMAIN asked = {o} /\ asked[o] = 1 /\ f.kind = "daily"
        BY <1>0, <1>3, <1>4, <2>2, <3>1, <3>3
      <4>2. \A r \in DOMAIN ppFlights' : r.job = k => r = o
        BY <1>6, <3>1, <4>1
      <4>3. o \in DOMAIN ppFlights' /\ ppFlights'[o] = 1
        BY <1>1, <1>6, <2>2, <3>1, <4>1
      <4> QED
        BY <1>1, <2>2, <4>1, <4>2, <4>3 DEF Awaits
    <3> QED
      BY <3>2, <3>3
  <2> QED
    BY <2>1, <2>2
<1> QED
  BY <1>6, <1>7, <1>8

LEMMA PpStepKeeps == PpInv /\ [PpNext]_ppVars => PpInv'
<1> SUFFICES ASSUME PpInv, [PpNext]_ppVars PROVE PpInv'
  OBVIOUS
<1>0. PpTyped /\ ppView \in PpViews /\ ppJob \in [PpJobs -> {"idle", "commit", "reload"}]
      /\ ppModal \in PpModals /\ ppMissed \in BOOLEAN
  BY DEF PpInv, PpTyped
<1>1. ASSUME NEW view \in PpViews, Become(view, EmptyBag, EmptyBag),
             UNCHANGED <<ppShown, ppMissed, ppJob, ppModal>>
      PROVE  PpInv'
  BY <1>1, PpAsks, NothingAsked
<1>2. CASE SetDateRange
  <2>1. PICK r \in PpRanges : Become([ppView EXCEPT !.range = r, !.page = 1], EmptyBag, EmptyBag)
    BY <1>2 DEF SetDateRange
  <2>2. [ppView EXCEPT !.range = r, !.page = 1] \in PpViews
    BY <1>0, PpAssumption DEF PpViews
  <2> QED
    BY <1>1, <1>2, <2>1, <2>2 DEF SetDateRange
<1>3. CASE SetPage
  <2>1. PICK p \in PpPages : Become([ppView EXCEPT !.page = p], EmptyBag, EmptyBag)
    BY <1>3 DEF SetPage
  <2>2. [ppView EXCEPT !.page = p] \in PpViews
    BY <1>0 DEF PpViews
  <2> QED
    BY <1>1, <1>3, <2>1, <2>2 DEF SetPage
<1>4. CASE SetLimit
  <2>1. PICK l \in PpLimits : Become([ppView EXCEPT !.limit = l, !.page = 1], EmptyBag, EmptyBag)
    BY <1>4 DEF SetLimit
  <2>2. [ppView EXCEPT !.limit = l, !.page = 1] \in PpViews
    BY <1>0, PpAssumption DEF PpViews
  <2> QED
    BY <1>1, <1>4, <2>1, <2>2 DEF SetLimit
<1>5. CASE SetView
  <2> DEFINE v == [ppView EXCEPT !.view = IF @ = "table" THEN "dashboard" ELSE "table"]
  <2>1. v \in PpViews
    BY <1>0 DEF PpViews
  <2>2. Become(v, EmptyBag, EmptyBag)
    BY <1>5 DEF SetView
  <2> HIDE DEF v
  <2> QED
    BY <1>1, <1>5, <2>1, <2>2 DEF SetView
<1>6. CASE Refresh
  BY <1>0, <1>6, BothAsked, PpAsks DEF Refresh
<1>7. CASE SyncNow
  <2>1. PICK j \in PpSyncs : /\ ppJob[j] = "idle"
                             /\ ppJob' = [ppJob EXCEPT ![j] = "commit"]
    BY <1>7 DEF SyncNow
  <2>2. j \in PpJobs
    BY DEF PpJobs
  <2>3. /\ ppJob' \in [PpJobs -> {"idle", "commit", "reload"}]
        /\ \A k \in PpJobs : ppJob'[k] = "reload" <=> ppJob[k] = "reload"
    BY <1>0, <2>1, <2>2
  <2>4. /\ ppView' \in PpViews /\ ppView'.page = ppView.page /\ ppView'.limit = ppView.limit
        /\ UNCHANGED <<ppShown, ppMissed, ppFlights, ppModal>>
    BY <1>0, <1>7 DEF SyncNow, PpViews
  <2> QED
    BY <1>0, <2>3, <2>4, PpAside
<1>8. CASE OpenModal \/ ChooseFile \/ CloseModal
  <2>1. ppModal' \in PpModals /\ UNCHANGED <<ppView, ppShown, ppMissed, ppFlights, ppJob>>
    <3>1. CASE OpenModal
      BY <1>0, <3>1 DEF OpenModal, PpModals
    <3>2. CASE ChooseFile
      BY <1>0, <3>2 DEF ChooseFile, PpModals
    <3>3. CASE CloseModal
      BY <3>3 DEF CloseModal, PpModals, Closed
    <3> QED
      BY <1>8, <3>1, <3>2, <3>3
  <2> QED
    BY <1>0, <2>1, PpAside
<1>9. CASE CommitFile
  <2>1. ppModal' \in PpModals /\ UNCHANGED <<ppView, ppShown, ppMissed, ppFlights>>
    BY <1>0, <1>9 DEF CommitFile, PpModals
  <2>2. /\ ppJob' \in [PpJobs -> {"idle", "commit", "reload"}]
        /\ \A k \in PpJobs : ppJob'[k] = "reload" <=> ppJob[k] = "reload"
    BY <1>0, <1>9 DEF CommitFile, PpJobs
  <2> QED
    BY <1>0, <2>1, <2>2, PpAside
<1>10. CASE Imported
  BY <1>10, ImportedKeeps
<1>11. CASE ImportRefused
  <2>1. PICK j \in PpJobs :
          /\ ppJob[j] = "commit"
          /\ ppJob' = [ppJob EXCEPT ![j] = "idle"]
          /\ ppView' = IF j = FileJob THEN ppView
                       ELSE [ppView EXCEPT !.syncing = FALSE, !.error = TRUE]
          /\ ppModal' = IF j = FileJob THEN [ppModal EXCEPT !.busy = FALSE] ELSE ppModal
    BY <1>11 DEF ImportRefused
  <2>2. /\ ppJob' \in [PpJobs -> {"idle", "commit", "reload"}]
        /\ \A k \in PpJobs : ppJob'[k] = "reload" <=> ppJob[k] = "reload"
    BY <1>0, <2>1
  <2>3. ppView' \in PpViews /\ ppView'.page = ppView.page /\ ppView'.limit = ppView.limit
    BY <1>0, <2>1 DEF PpViews
  <2>4. ppModal' \in PpModals /\ UNCHANGED <<ppShown, ppMissed, ppFlights>>
    BY <1>0, <1>11, <2>1 DEF ImportRefused, PpModals
  <2> QED
    BY <2>2, <2>3, <2>4, PpAside
<1>12. CASE DailyAnswered
  <2>1. PICK f \in BagToSet(ppFlights) :
        /\ f.kind = "daily"
        /\ ppShown' = {[f EXCEPT !.job = NoJob]}
        /\ ppMissed' = FALSE
        /\ Continue(f, Fulfilled(f))
    BY <1>12 DEF DailyAnswered
  <2>2. f \in DOMAIN ppFlights /\ f \in PpRequests
    BY <1>0 DEF BagToSet, PpTyped, PpTravels
  <2>3. Fulfilled(f) \in PpViews /\ Fulfilled(f).page = f.page /\ Fulfilled(f).limit = f.limit
    BY <1>0, <2>1, <2>2 DEF Fulfilled, PpViews, PpRequests
  <2>4. /\ PpTyped' /\ \A j \in PpJobs : Awaits(j)'
        /\ ppView'.page = f.page /\ ppView'.limit = f.limit
    BY <2>1, <2>2, <2>3, ContinueKeeps
  <2>5. \A s \in ppShown' : s.page = f.page /\ s.limit = f.limit
    BY <2>1, <2>2 DEF PpRequests
  <2>6. RecordsMatchPage'
    BY <2>4, <2>5 DEF RecordsMatchPage
  <2> QED
    BY <2>4, <2>6 DEF PpInv
<1>13. CASE OverviewAnswered
  <2>1. PICK f \in BagToSet(ppFlights) :
        /\ f.kind = "overview"
        /\ Continue(f, [ppView EXCEPT !.overview = FALSE])
        /\ UNCHANGED <<ppShown, ppMissed, ppScript>>
    BY <1>13 DEF OverviewAnswered
  <2> DEFINE v == [ppView EXCEPT !.overview = FALSE]
  <2>2. f \in DOMAIN ppFlights /\ v \in PpViews
    BY <1>0 DEF BagToSet, PpViews
  <2>3. Continue(f, v)
    BY <2>1
  <2> HIDE DEF v
  <2>4. /\ PpTyped' /\ \A j \in PpJobs : Awaits(j)'
        /\ ppView'.page = v.page /\ ppView'.limit = v.limit
        /\ ppView.page # v.page \/ ppView.limit # v.limit
              => \E r \in DOMAIN ppFlights' : r.kind = "daily"
        /\ \A r \in DOMAIN ppFlights : r # f => r \in DOMAIN ppFlights'
    BY <1>0, <2>1, <2>2, <2>3, ContinueKeeps
  <2>5. RecordsMatchPage'
    BY <2>1, <2>4, RecordsStay
  <2> QED
    BY <2>4, <2>5 DEF PpInv
<1>14. CASE RequestFailed
  <2>1. PICK f \in BagToSet(ppFlights) :
          /\ ppMissed' = (ppMissed \/ f.kind = "daily")
          /\ Continue(f, [ppView EXCEPT ![f.kind] = FALSE, !.error = TRUE])
    BY <1>14 DEF RequestFailed
  <2> DEFINE v == [ppView EXCEPT ![f.kind] = FALSE, !.error = TRUE]
  <2>2. f \in DOMAIN ppFlights /\ f.kind \in {"daily", "overview"}
    BY <1>0 DEF BagToSet, PpTyped, PpTravels, PpRequests
  <2>3. v \in PpViews
    <3>1. CASE f.kind = "daily"
      <4>1. v = [ppView EXCEPT !.daily = FALSE, !.error = TRUE]
        BY <3>1
      <4> QED
        BY <1>0, <4>1 DEF PpViews
    <3>2. CASE f.kind = "overview"
      <4>1. v = [ppView EXCEPT !.overview = FALSE, !.error = TRUE]
        BY <3>2
      <4> QED
        BY <1>0, <4>1 DEF PpViews
    <3> QED
      BY <2>2, <3>1, <3>2
  <2>4. Continue(f, v) /\ ppMissed' \in BOOLEAN
    BY <1>0, <2>1
  <2> HIDE DEF v
  <2>5. /\ PpTyped' /\ \A j \in PpJobs : Awaits(j)'
        /\ ppView'.page = v.page /\ ppView'.limit = v.limit
        /\ ppView.page # v.page \/ ppView.limit # v.limit
              => \E r \in DOMAIN ppFlights' : r.kind = "daily"
        /\ \A r \in DOMAIN ppFlights : r # f => r \in DOMAIN ppFlights'
    BY <2>2, <2>3, <2>4, ContinueKeeps
  <2>6. \/ ppMissed' = TRUE
        \/ /\ ppMissed' = ppMissed
           /\ \A r \in DOMAIN ppFlights : r.kind = "daily" => r \in DOMAIN ppFlights'
    BY <1>0, <2>1, <2>2, <2>5
  <2>7. ppShown' = ppShown
    BY <1>14 DEF RequestFailed
  <2>8. RecordsMatchPage'
    BY <2>5, <2>6, <2>7, RecordsStay
  <2> QED
    BY <2>5, <2>8 DEF PpInv
<1>15. CASE UNCHANGED ppVars
  BY <1>0, <1>15, PpAside DEF ppVars
<1> QED
  BY <1>2, <1>3, <1>4, <1>5, <1>6, <1>7, <1>8, <1>9, <1>10, <1>11, <1>12, <1>13, <1>14, <1>15
     DEF PpNext

LEMMA PpInvAgrees == PpInv => PpTypeOK /\ RecordsMatchPage
<1> SUFFICES ASSUME PpInv PROVE PpTypeOK
  BY DEF PpInv
<1>1. /\ ppView.range \in PpRanges /\ ppView.page \in PpPages /\ ppView.limit \in PpLimits
      /\ ppView.view \in {"table", "dashboard"}
      /\ \A f \in {"daily", "overview", "syncing", "error"} : ppView[f] \in BOOLEAN
  BY DEF PpInv, PpTyped, PpViews
<1>2. \A j \in PpJobs : ppJob[j] = "reload" <=> \E f \in BagToSet(ppFlights) : f.job = j
  BY DEF PpInv, Awaits, BagToSet
<1> QED
  BY <1>1, <1>2 DEF PpInv, PpTyped, PpTypeOK, PpModals
-----------------------------------------------------------------------------
(* The setup wizard.                                                       *)

IsForm(f) ==
    f \in [open : BOOLEAN, source : {"oauth", "shared"}, step : 0..2, files : Seq(SuSheets),
           sheet : SuSheets \cup {NoSheet}, tab : {f.tab}, map : SuMappings \cup {NoMapping},
           tabs : SUBSET UNION {TabTitles(s) : s \in SuSheets}, head : {f.head}, key : {f.key},
           verified : BOOLEAN, busy : BOOLEAN]
IsFlight(f) ==
    /\ f \in [kind : {"tabs", "files", "preview"}, sheet : SuSheets \cup {NoSheet},
              tab : {f.tab}, empty : BOOLEAN]
    /\ f.kind # "files" => f.sheet \in SuSheets
IsSuScript(s) ==
    /\ s \in [source : {"oauth", "shared"}, config : {s.config}, shared : Seq(SuSheets),
              ops : {s.ops}, left : Nat]
    /\ \A source \in {"oauth", "shared"} :
          /\ s.config[source].sheet \in SuSheets \cup {NoSheet}
          /\ s.config[source].map \in SuMappings \cup {NoMapping}
IsWholeSave(save) ==
    save \in [pc : {"validate", "stage", "commit", "sync"}, sheet : SuSheets, tab : {save.tab},
              map : SuMappings]
SuTyped ==
    /\ IsForm(suForm) /\ IsSuScript(suScript)
    /\ \A f \in suFlights : IsFlight(f)
    /\ \A save \in suSaves : IsWholeSave(save)

LEMMA WithSheetIs ==
    ASSUME NEW form, IsForm(form), NEW sheet \in SuSheets \cup {NoSheet}
    PROVE  IsForm(WithSheet(form, sheet))
BY DEF IsForm, WithSheet

LEMMA AutoSelectedIs ==
    ASSUME NEW form, IsForm(form)
    PROVE  IsForm(AutoSelected(form)) /\ AutoSelected(form).source = form.source
<1>1. CASE /\ form.step >= 1 /\ form.files # <<>>
           /\ \A i \in 1..Len(form.files) : form.files[i] # form.sheet
  <2>1. AutoSelected(form) = WithSheet(form, form.files[1])
    BY <1>1 DEF AutoSelected
  <2>2. form.files \in Seq(SuSheets)
    BY DEF IsForm
  <2>3. form.files[1] \in SuSheets
    BY <1>1, <2>2
  <2>4. WithSheet(form, form.files[1]).source = form.source
    BY DEF WithSheet, IsForm
  <2> QED
    BY <2>1, <2>3, <2>4, WithSheetIs
<1>2. CASE AutoSelected(form) = form
  BY <1>2
<1> QED
  BY <1>1, <1>2 DEF AutoSelected

\* The effects ask for spreadsheets that exist.
LEMMA RenderKeeps ==
    ASSUME NEW form, IsForm(form), NEW asked, NEW answered, Render(form, asked, answered),
           \A f \in suFlights : IsFlight(f), \A f \in asked : IsFlight(f)
    PROVE  IsForm(suForm') /\ \A f \in suFlights' : IsFlight(f)
<1> DEFINE final == AutoSelected(form)
           changed == form.step # suForm.step \/ form.sheet # suForm.sheet
           sheets == ({s \in {form.sheet} : form.step >= 1 /\ changed}
                     \cup {s \in {final.sheet} : final.sheet # form.sheet}) \ {NoSheet}
           tabs == {AskTabs(s) : s \in sheets}
           preview == {AskPreview(f) : f \in {g \in {final} : PreviewDue(g)}}
           busy == final.busy \/ tabs # {} \/ preview # {}
           key == IF preview = {} THEN final.key ELSE Chosen(final.sheet, final.tab)
<1>1. /\ suFlights' = (suFlights \ answered) \cup asked \cup tabs \cup preview
      /\ suForm' = [final EXCEPT !.busy = busy, !.key = key]
  BY DEF Render
<1>2. IsForm(final)
  BY AutoSelectedIs
<1> HIDE DEF final
<1>3. sheets \subseteq SuSheets
  BY <1>2 DEF IsForm
<1>4. \A f \in tabs : IsFlight(f)
  <2> HIDE DEF sheets
  <2>1. \A s \in SuSheets : IsFlight(AskTabs(s))
    BY DEF IsFlight, AskTabs
  <2> QED
    BY <1>3, <2>1
<1>5. \A f \in preview : IsFlight(f)
  <2>1. PreviewDue(final) => IsFlight(AskPreview(final))
    BY <1>2 DEF PreviewDue, IsFlight, AskPreview, IsForm
  <2> QED
    BY <2>1
<1>6. busy \in BOOLEAN
  BY <1>2 DEF IsForm
<1> HIDE DEF busy, key, preview, tabs
<1>7. IsForm(suForm')
  BY <1>1, <1>2, <1>6 DEF IsForm
<1> QED
  BY <1>1, <1>4, <1>5, <1>7

\* A step that shows another form and leaves the saves.
LEMMA SuRenders ==
    ASSUME SuTyped, NEW form, IsForm(form), NEW asked, NEW answered,
           Render(form, asked, answered), \A f \in asked : IsFlight(f),
           IsSuScript(suScript'), suSaves' \subseteq suSaves
    PROVE  SuTyped'
<1>1. IsForm(suForm') /\ \A f \in suFlights' : IsFlight(f)
  BY RenderKeeps DEF SuTyped
<1> QED
  BY <1>1 DEF SuTyped

LEMMA SuActs ==
    ASSUME SuTyped, NEW op, SuAct(op)
    PROVE  IsSuScript(suScript')
<1>1. suScript' = [suScript EXCEPT !.left = @ - 1] /\ suScript.left > 0
  BY DEF SuAct
<1> QED
  BY <1>1 DEF SuTyped, IsSuScript

LEMMA DraftedIs ==
    ASSUME SuTyped, NEW source \in {"oauth", "shared"}
    PROVE  IsForm(Drafted(suForm, source))
<1> DEFINE config == suScript.config[source]
           blank == WithSheet(suForm, config.sheet)
           verified == (source = "shared" /\ config.sheet # NoSheet)
<1>1. config.sheet \in SuSheets \cup {NoSheet} /\ config.map \in SuMappings \cup {NoMapping}
  BY DEF SuTyped, IsSuScript
<1>2. IsForm(blank)
  BY <1>1, WithSheetIs DEF SuTyped
<1>3. Drafted(suForm, source) = [blank EXCEPT !.source = source, !.tab = config.tab,
                                              !.map = config.map, !.verified = verified]
  BY DEF Drafted
<1>4. verified \in BOOLEAN
  OBVIOUS
<1> HIDE DEF blank, verified
<1> QED
  BY <1>1, <1>2, <1>3, <1>4 DEF IsForm

LEMMA AskFilesIs == \A f \in {AskFiles} : IsFlight(f)
<1>1. IsFlight(AskFiles)
  BY DEF AskFiles, IsFlight
<1> QED
  BY <1>1

LEMMA FormAtStep ==
    ASSUME NEW form, IsForm(form), NEW step \in 0..2
    PROVE  IsForm([form EXCEPT !.step = step])
BY DEF IsForm

LEMMA SuInitially == SuInit => SuTyped
<1> SUFFICES ASSUME SuInit PROVE SuTyped
  OBVIOUS
<1>1. PICK s \in SuScripts :
        /\ suScript = s
        /\ suForm = [open |-> FALSE, source |-> s.source, step |-> 0, files |-> <<>>,
                     sheet |-> s.config[s.source].sheet, tab |-> s.config[s.source].tab,
                     map |-> s.config[s.source].map, tabs |-> {}, head |-> NoHead,
                     key |-> NoHead, verified |-> FALSE, busy |-> FALSE]
        /\ suFlights = IF s.left > 0 /\ s.source = "oauth" THEN {AskFiles} ELSE {}
        /\ suSaves = {}
  BY DEF SuInit
<1>2. IsSuScript(s)
  BY SuAssumption DEF IsSuScript
<1>3. IsForm(suForm)
  BY <1>1, <1>2 DEF IsForm, IsSuScript
<1> QED
  BY <1>1, <1>2, <1>3, AskFilesIs DEF SuTyped

LEMMA SuKeepsType == SuTyped /\ [SuNext]_suVars => SuTyped'
<1> SUFFICES ASSUME SuTyped, [SuNext]_suVars PROVE SuTyped'
  OBVIOUS
<1>0. /\ IsForm(suForm) /\ IsSuScript(suScript) /\ suScript.shared \in Seq(SuSheets)
      /\ \A f \in {} : IsFlight(f)
  BY DEF SuTyped, IsSuScript
<1>1. CASE OpenWizard
  <2>1. PICK source \in {"oauth", "shared"}, step \in 0..1 :
          Render([Drafted(suForm, source) EXCEPT !.open = TRUE, !.step = step,
                     !.files = IF source = suForm.source THEN @
                               ELSE IF source = "oauth" THEN <<>> ELSE suScript.shared],
                 IF source = "oauth" /\ source # suForm.source THEN {AskFiles} ELSE {}, {})
    BY <1>1 DEF OpenWizard
  <2> DEFINE draft == Drafted(suForm, source)
             files == IF source = suForm.source THEN draft.files
                      ELSE IF source = "oauth" THEN <<>> ELSE suScript.shared
             form == [draft EXCEPT !.open = TRUE, !.step = step, !.files = files]
             asked == IF source = "oauth" /\ source # suForm.source THEN {AskFiles} ELSE {}
  <2>2. IsForm(draft)
    BY DraftedIs
  <2>3. Render(form, asked, {})
    BY <2>1
  <2>4. files \in Seq(SuSheets)
    BY <1>0, <2>2 DEF IsForm
  <2> HIDE DEF draft, files
  <2> DEFINE opened == [draft EXCEPT !.open = TRUE]
             next == [opened EXCEPT !.step = step]
  <2>5. IsForm(form)
    <3>1. IsForm(opened)
      BY <2>2 DEF IsForm
    <3>2. form = [next EXCEPT !.files = files]
      OBVIOUS
    <3> HIDE DEF opened
    <3>3. step \in 0..2
      OBVIOUS
    <3>4. IsForm(next)
      BY <3>1, <3>3, FormAtStep
    <3> HIDE DEF next, form
    <3> QED
      BY <2>4, <3>2, <3>4 DEF IsForm
  <2> HIDE DEF form
  <2>6. \A f \in asked : IsFlight(f)
    BY AskFilesIs
  <2> HIDE DEF asked
  <2>7. IsSuScript(suScript') /\ suSaves' = suSaves
    BY <1>1, SuActs DEF OpenWizard
  <2> QED
    BY <2>3, <2>5, <2>6, <2>7, SuRenders
<1>2. CASE SwitchSource
  <2> DEFINE source == IF suForm.source = "oauth" THEN "shared" ELSE "oauth"
             draft == Drafted(suForm, source)
             files == IF source = "oauth" THEN <<>> ELSE suScript.shared
             form == [draft EXCEPT !.files = files]
             asked == IF source = "oauth" THEN {AskFiles} ELSE {}
  <2>1. Render(form, asked, {})
    BY <1>2 DEF SwitchSource
  <2>2. IsForm(draft)
    BY DraftedIs
  <2>3. files \in Seq(SuSheets) /\ \A f \in asked : IsFlight(f)
    BY <1>0, AskFilesIs
  <2> HIDE DEF draft, files, asked
  <2>4. IsForm(form)
    BY <2>2, <2>3 DEF IsForm
  <2> HIDE DEF form
  <2>5. IsSuScript(suScript') /\ suSaves' = suSaves
    BY <1>2, SuActs DEF SwitchSource
  <2> QED
    BY <2>1, <2>3, <2>4, <2>5, SuRenders
<1>3. CASE Proceed
  <2> DEFINE form == [suForm EXCEPT !.step = @ + 1]
  <2>1. IsForm(form)
    BY <1>0, <1>3 DEF Proceed, IsForm
  <2>2. Render(form, {}, {}) /\ suSaves' = suSaves /\ suScript' = suScript
    BY <1>3 DEF Proceed
  <2> HIDE DEF form
  <2> QED
    BY <1>0, <2>1, <2>2, SuRenders
<1>4. CASE GoBack
  <2> DEFINE form == [suForm EXCEPT !.step = @ - 1]
  <2>1. IsForm(form)
    BY <1>0, <1>4 DEF GoBack, IsForm
  <2>2. Render(form, {}, {}) /\ suSaves' = suSaves /\ IsSuScript(suScript')
    BY <1>4, SuActs DEF GoBack
  <2> HIDE DEF form
  <2> QED
    BY <1>0, <2>1, <2>2, SuRenders
<1>5. CASE SelectSheet
  <2>1. PICK i \in 1..Len(suForm.files) : Render(WithSheet(suForm, suForm.files[i]), {}, {})
    BY <1>5 DEF SelectSheet
  <2>2. suForm.files[i] \in SuSheets
    BY <1>0 DEF IsForm
  <2>3. IsForm(WithSheet(suForm, suForm.files[i]))
    BY <1>0, <2>2, WithSheetIs
  <2>4. suSaves' = suSaves /\ IsSuScript(suScript')
    BY <1>5, SuActs DEF SelectSheet
  <2> QED
    BY <1>0, <2>1, <2>3, <2>4, SuRenders
<1>6. CASE SelectTab
  <2>1. PICK t : Render([suForm EXCEPT !.tab = t], {}, {})
    BY <1>6 DEF SelectTab
  <2>2. IsForm([suForm EXCEPT !.tab = t])
    BY <1>0 DEF IsForm
  <2>3. suSaves' = suSaves /\ IsSuScript(suScript')
    BY <1>6, SuActs DEF SelectTab
  <2> QED
    BY <1>0, <2>1, <2>2, <2>3, SuRenders
<1>7. CASE EditMapping
  <2>1. PICK mapping \in SuMappings : Render([suForm EXCEPT !.map = mapping], {}, {})
    BY <1>7 DEF EditMapping
  <2>2. IsForm([suForm EXCEPT !.map = mapping])
    BY <1>0 DEF IsForm
  <2>3. suSaves' = suSaves /\ IsSuScript(suScript')
    BY <1>7, SuActs DEF EditMapping
  <2> QED
    BY <1>0, <2>1, <2>2, <2>3, SuRenders
<1>8. CASE VerifyShared
  <2>1. PICK sheet \in SuSheets :
          Render([suForm EXCEPT !.verified = TRUE, !.sheet = sheet, !.step = 1,
                     !.files = IF \E i \in 1..Len(@) : @[i] = sheet THEN @ ELSE Append(@, sheet)],
                 {}, {})
    BY <1>8 DEF VerifyShared
  <2> DEFINE files == IF \E i \in 1..Len(suForm.files) : suForm.files[i] = sheet
                      THEN suForm.files ELSE Append(suForm.files, sheet)
             form == [suForm EXCEPT !.verified = TRUE, !.sheet = sheet, !.step = 1, !.files = files]
  <2>2. Render(form, {}, {})
    BY <2>1
  <2>3. files \in Seq(SuSheets)
    BY <1>0 DEF IsForm
  <2> HIDE DEF files
  <2> DEFINE found == [suForm EXCEPT !.verified = TRUE, !.sheet = sheet]
             next == [found EXCEPT !.step = 1]
  <2>4. IsForm(form)
    <3>1. IsForm(found)
      BY <1>0 DEF IsForm
    <3>2. form = [next EXCEPT !.files = files]
      OBVIOUS
    <3> HIDE DEF found
    <3>3. IsForm(next)
      <4>1. 1 \in 0..2
        OBVIOUS
      <4> QED
        BY <3>1, <4>1, FormAtStep
    <3> HIDE DEF next, form
    <3>4. IsForm([next EXCEPT !.files = files])
      BY <2>3, <3>3 DEF IsForm
    <3> QED
      BY <3>2, <3>4
  <2> HIDE DEF form
  <2>5. suSaves' = suSaves /\ IsSuScript(suScript')
    BY <1>8, SuActs DEF VerifyShared
  <2> QED
    BY <1>0, <2>2, <2>4, <2>5, SuRenders
<1>9. CASE CloseWizard
  <2>1. IsForm(suForm') /\ UNCHANGED <<suFlights, suSaves>>
    BY <1>0, <1>9 DEF CloseWizard, IsForm
  <2>2. IsSuScript(suScript')
    BY <1>9, SuActs DEF CloseWizard
  <2> QED
    BY <2>1, <2>2 DEF SuTyped
<1>10. CASE FilesListed
  <2> DEFINE form == IF suForm.source = "oauth" THEN [suForm EXCEPT !.files = SuFiles] ELSE suForm
  <2>1. Render(form, {}, {AskFiles}) /\ suSaves' = suSaves /\ suScript' = suScript
    BY <1>10 DEF FilesListed
  <2>2. IsForm(form)
    BY <1>0, SuAssumption DEF IsForm
  <2> HIDE DEF form
  <2> QED
    BY <1>0, <2>1, <2>2, SuRenders
<1>11. CASE TabsLoaded
  <2>1. PICK f \in suFlights :
        /\ f.kind = "tabs"
        /\ Render([suForm EXCEPT !.tabs = TabTitles(f.sheet), !.tab = SuTabs[f.sheet][1],
                                 !.key = NoHead, !.busy = FALSE], {}, {f})
        /\ UNCHANGED <<suSaves, suScript>>
    BY <1>11 DEF TabsLoaded
  <2>2. f.sheet \in SuSheets
    BY <2>1 DEF SuTyped, IsFlight
  <2> DEFINE form == [suForm EXCEPT !.tabs = TabTitles(f.sheet), !.tab = SuTabs[f.sheet][1],
                                    !.key = NoHead, !.busy = FALSE]
  <2>3. TabTitles(f.sheet) \in SUBSET UNION {TabTitles(s) : s \in SuSheets}
    BY <2>2
  <2>4. IsForm(form)
    BY <1>0, <2>3 DEF IsForm
  <2>5. Render(form, {}, {f})
    BY <2>1
  <2> HIDE DEF form
  <2> QED
    BY <1>0, <2>1, <2>4, <2>5, SuRenders
<1>12. CASE PreviewLoaded
  <2>1. PICK f \in suFlights :
        /\ f.kind = "preview"
        /\ Render([suForm EXCEPT !.head = Chosen(f.sheet, f.tab), !.busy = FALSE,
                                 !.map = IF f.empty THEN SuSuggested[f.sheet] ELSE @], {}, {f})
        /\ UNCHANGED <<suSaves, suScript>>
    BY <1>12 DEF PreviewLoaded
  <2>2. f.sheet \in SuSheets
    BY <2>1 DEF SuTyped, IsFlight
  <2> DEFINE map == IF f.empty THEN SuSuggested[f.sheet] ELSE suForm.map
             form == [suForm EXCEPT !.head = Chosen(f.sheet, f.tab), !.busy = FALSE, !.map = map]
  <2>3. map \in SuMappings \cup {NoMapping}
    BY <1>0, <2>2, SuAssumption DEF IsForm
  <2>4. Render(form, {}, {f})
    BY <2>1
  <2> HIDE DEF map
  <2>5. IsForm(form)
    BY <1>0, <2>3 DEF IsForm
  <2> HIDE DEF form
  <2> QED
    BY <1>0, <2>1, <2>4, <2>5, SuRenders
<1>13. CASE LoadFailed
  <2>1. PICK f \in suFlights :
        /\ UNCHANGED suScript \/ SuAct("fail")
        /\ Render([suForm EXCEPT !.busy = FALSE], {}, {f})
        /\ UNCHANGED suSaves
    BY <1>13 DEF LoadFailed
  <2>2. IsForm([suForm EXCEPT !.busy = FALSE])
    BY <1>0 DEF IsForm
  <2>3. IsSuScript(suScript')
    BY <1>0, <2>1, SuActs
  <2> QED
    BY <1>0, <2>1, <2>2, <2>3, SuRenders
<1>14. CASE HandleCommit
  <2> DEFINE save == [pc |-> "validate", sheet |-> suForm.sheet, tab |-> suForm.tab,
                      map |-> suForm.map]
  <2>1. IsWholeSave(save)
    BY <1>0, <1>14, SuAssumption DEF HandleCommit, Savable, IsForm, IsWholeSave
  <2>2. suSaves' = suSaves \cup {save} /\ UNCHANGED <<suFlights, suScript>>
    BY <1>14 DEF HandleCommit
  <2>3. IsForm(suForm')
    BY <1>0, <1>14 DEF HandleCommit, IsForm
  <2> HIDE DEF save
  <2> QED
    BY <2>1, <2>2, <2>3 DEF SuTyped
<1>15. ASSUME NEW save \in suSaves, NEW pc \in {"stage", "commit", "sync"}, SaveGoes(save, pc),
              UNCHANGED <<suForm, suFlights, suScript>>
       PROVE  SuTyped'
  <2> DEFINE new == [save EXCEPT !.pc = pc]
  <2>1. IsWholeSave(new)
    BY DEF SuTyped, IsWholeSave
  <2>2. suSaves' = (suSaves \ {save}) \cup {new}
    BY <1>15 DEF SaveGoes
  <2> HIDE DEF new
  <2> QED
    BY <1>15, <2>1, <2>2 DEF SuTyped
<1>16. ASSUME NEW save \in suSaves, SaveStops(save), suFlights' = suFlights, IsSuScript(suScript')
       PROVE  SuTyped'
  <2>1. IsForm(suForm') /\ suSaves' \subseteq suSaves
    BY <1>0, <1>16 DEF SaveStops, IsForm
  <2> QED
    BY <1>16, <2>1 DEF SuTyped
<1>17. CASE Validate
  <2>1. PICK save \in suSaves :
          /\ (SaveGoes(save, "stage") /\ UNCHANGED suForm) \/ SaveStops(save)
          /\ UNCHANGED <<suFlights, suScript>>
    BY <1>17 DEF Validate, SavePasses
  <2> QED
    BY <1>0, <1>15, <1>16, <2>1
<1>18. CASE Stage \/ CommitChange
  <2>1. PICK save \in suSaves, pc \in {"commit", "sync"} :
          /\ (SaveGoes(save, pc) /\ UNCHANGED suForm) \/ SaveStops(save)
          /\ UNCHANGED <<suFlights, suScript>>
    BY <1>18 DEF Stage, CommitChange, SavePasses
  <2> QED
    BY <1>0, <1>15, <1>16, <2>1
<1>19. CASE InstantSync
  <2>1. PICK save \in suSaves :
        /\ suSaves' = suSaves \ {save}
        /\ Render([suForm EXCEPT !.busy = FALSE, !.step = 0, !.open = FALSE], {}, {})
        /\ UNCHANGED suScript
    BY <1>19 DEF InstantSync
  <2> DEFINE idle == [suForm EXCEPT !.busy = FALSE]
             start == [idle EXCEPT !.step = 0]
             form == [start EXCEPT !.open = FALSE]
  <2>2. IsForm(form)
    <3>1. IsForm(idle)
      BY <1>0 DEF IsForm
    <3> HIDE DEF idle
    <3>2. IsForm(start)
      <4>1. 0 \in 0..2
        OBVIOUS
      <4> QED
        BY <3>1, <4>1, FormAtStep
    <3> HIDE DEF start
    <3>3. IsForm([start EXCEPT !.open = FALSE])
      BY <3>2 DEF IsForm
    <3> QED
      BY <3>3
  <2>3. Render(form, {}, {})
    BY <2>1
  <2> HIDE DEF form
  <2> QED
    BY <1>0, <2>1, <2>2, <2>3, SuRenders
<1>20. CASE SaveFailed
  <2>1. IsSuScript(suScript')
    BY <1>20, SuActs DEF SaveFailed
  <2> QED
    BY <1>16, <1>20, <2>1 DEF SaveFailed
<1>21. CASE UNCHANGED suVars
  BY <1>21 DEF SuTyped, suVars
<1> QED
  BY <1>1, <1>2, <1>3, <1>4, <1>5, <1>6, <1>7, <1>8, <1>9, <1>10, <1>11, <1>12, <1>13, <1>14,
     <1>17, <1>18, <1>19, <1>20, <1>21 DEF SuNext

LEMMA SuTypedAgrees == SuTyped => SuTypeOK
BY DEF SuTyped, SuTypeOK, IsForm, IsWholeSave
-----------------------------------------------------------------------------
(* The tax desk.                                                           *)

TxScripts ==
    [ops : SUBSET {"select", "refresh", "post", "fail"}, left : Nat, sel : TxSelections]

\* The shapes of a request, a section and a post.
IsTxCall(c) ==
    c \in [section : TxSections, for : {c.for}, order : Nat \ {0}, posted : {c.posted},
           booked : {c.booked}, pc : {"sent", "served"}]
IsTxSection(x) == x \in [loading : BOOLEAN, error : BOOLEAN, data : {x.data}]
IsTxPost(post) ==
    /\ post \in [pc : {"idle", "sent", "reload"}, id : {post.id}, sel : {post.sel},
                 section : {post.section}]
    /\ post.pc # "idle" => post.id \in TxIds /\ post.section \in TxSections

TxShaped ==
    /\ txPlan \in TxScripts /\ txOrder \in Nat /\ txLast \in [TxSections -> Nat]
    /\ txShown = [s \in TxSections |-> txShown[s]]
    /\ \A s \in TxSections : IsTxSection(txShown[s])
    /\ \A c \in txCalls : IsTxCall(c) /\ c.order <= txOrder
    /\ txStale \subseteq TxSections /\ txBooks \subseteq TxIds
    /\ IsTxPost(txPost)

\* A section that loads waits for a request, and one that has been answered, was not
\* overtaken and has not failed shows what is selected.
TxAnswered(s) ==
    /\ txShown[s].loading => \E c \in txCalls : c.section = s
    /\ txOrder > 0 => txLast[s] > 0 \/ \E c \in txCalls : c.section = s
    /\ ~txShown[s].loading /\ ~txShown[s].error /\ s \notin txStale /\ txLast[s] > 0
          => txShown[s].data.known /\ txShown[s].data.for = ParamsOf(s, txSel)

\* From request t on the section's answers have the document of id, and one of
\* them has been shown or is still to come.
TellsFrom(id, s, t) ==
    /\ \A c \in txCalls : c.section = s /\ t <= c.order => c.pc = "sent" \/ id \in c.booked
    /\ t <= txLast[s] \/ \E c \in txCalls : c.section = s /\ t <= c.order
    /\ t <= txLast[s] /\ ~txShown[s].loading /\ ~txShown[s].error /\ s \notin txStale
          => id \in txShown[s].data.booked
TxTells(told) ==
    /\ told[1] \in txBooks
    /\ told[2] \in TxSections => \E t \in 1 .. txOrder : TellsFrom(told[1], told[2], t)

TxInv ==
    /\ TxShaped
    /\ \A s \in TxSections : TxAnswered(s)
    /\ \A told \in txTold : TxTells(told)

\* A step that neither asks nor answers.
LEMMA TxAside ==
    ASSUME TxInv, UNCHANGED <<txSel, txShown, txCalls, txOrder, txLast, txStale, txTold>>,
           txPlan' \in TxScripts, txBooks \subseteq txBooks', txBooks' \subseteq TxIds,
           IsTxPost(txPost')
    PROVE  TxInv'
<1>1. TxShaped'
  BY DEF TxInv, TxShaped
<1>2. ASSUME NEW s \in TxSections PROVE TxAnswered(s)'
  BY DEF TxInv, TxAnswered
<1>3. ASSUME NEW told \in txTold PROVE TxTells(told)'
  <2>1. TxTells(told)
    BY DEF TxInv
  <2>2. ASSUME NEW t, TellsFrom(told[1], told[2], t)
        PROVE  TellsFrom(told[1], told[2], t)'
    BY <2>2 DEF TellsFrom
  <2> QED
    BY <2>1, <2>2 DEF TxTells
<1> QED
  BY <1>1, <1>2, <1>3 DEF TxInv

\* New requests for some sections: for all of them when another selection is made or
\* none had been asked before.
LEMMA TxAsks ==
    ASSUME TxInv, NEW sections \in SUBSET TxSections, NEW new,
           \A c \in new : /\ IsTxCall(c) /\ c.order = txOrder + 1 /\ c.pc = "sent",
           \A s \in sections : \E c \in new : c.section = s,
           txCalls' = txCalls \cup new, txOrder' = txOrder + 1,
           txShown' = Loading(txShown, sections), UNCHANGED <<txLast, txStale>>,
           (txSel' = txSel /\ txOrder > 0) \/ sections = TxSections,
           txPlan' \in TxScripts, txBooks \subseteq txBooks', txBooks' \subseteq TxIds,
           IsTxPost(txPost'),
           \A told \in txTold' : told \in txTold \/ (told[1] \in txBooks' /\ told[2] \in sections)
    PROVE  TxInv'
<1>0. TxShaped /\ txOrder \in Nat
  BY DEF TxInv, TxShaped
<1>1. /\ txShown' = [s \in TxSections |-> txShown'[s]]
      /\ \A s \in TxSections :
            /\ IsTxSection(txShown'[s])
            /\ s \in sections => txShown'[s].loading
            /\ s \notin sections => txShown'[s] = txShown[s]
  <2>1. txShown' = [s \in TxSections |-> IF s \in sections
                       THEN [txShown[s] EXCEPT !.loading = TRUE, !.error = FALSE]
                       ELSE txShown[s]]
    BY DEF Loading
  <2>2. ASSUME NEW s \in TxSections, s \in sections
        PROVE  IsTxSection(txShown'[s]) /\ txShown'[s].loading
    <3>1. txShown'[s] = [txShown[s] EXCEPT !.loading = TRUE, !.error = FALSE]
      BY <2>1, <2>2
    <3>2. IsTxSection(txShown[s])
      BY <1>0 DEF TxShaped
    <3> QED
      BY <3>1, <3>2 DEF IsTxSection
  <2>3. ASSUME NEW s \in TxSections, s \notin sections
        PROVE  IsTxSection(txShown'[s]) /\ txShown'[s] = txShown[s]
    BY <1>0, <2>1, <2>3 DEF TxShaped
  <2> QED
    BY <2>1, <2>2, <2>3
<1>2. TxShaped'
  <2>1. \A c \in txCalls' : IsTxCall(c) /\ c.order <= txOrder'
    <3> TAKE c \in txCalls'
    <3>1. CASE c \in new
      BY <1>0, <3>1
    <3>2. CASE c \in txCalls
      BY <1>0, <3>2 DEF TxShaped, IsTxCall
    <3> QED
      BY <3>1, <3>2
  <2>2. txOrder' \in Nat /\ txLast' \in [TxSections -> Nat] /\ txStale' \subseteq TxSections
    BY <1>0 DEF TxShaped
  <2> QED
    BY <1>1, <2>1, <2>2 DEF TxShaped
<1>3. ASSUME NEW s \in TxSections PROVE TxAnswered(s)'
  <2>1. TxAnswered(s)
    BY DEF TxInv
  <2>2. CASE s \in sections
    BY <1>1, <2>2 DEF TxAnswered
  <2>3. CASE s \notin sections
    <3>1. txSel' = txSel /\ txOrder > 0 /\ txShown'[s] = txShown[s]
      BY <1>1, <2>3
    <3> QED
      BY <2>1, <3>1 DEF TxAnswered
  <2> QED
    BY <2>2, <2>3
<1>4. ASSUME NEW told \in txTold' PROVE TxTells(told)'
  <2>1. CASE told \in txTold
    <3>1. TxTells(told)
      BY <2>1 DEF TxInv
    <3>2. ASSUME told[2] \in TxSections
          PROVE  \E t \in 1 .. txOrder' : TellsFrom(told[1], told[2], t)'
      <4>1. PICK t \in 1 .. txOrder : TellsFrom(told[1], told[2], t)
        BY <3>1, <3>2 DEF TxTells
      <4>2. txShown'[told[2]].loading \/ txShown'[told[2]] = txShown[told[2]]
        BY <1>1, <3>2
      <4>3. TellsFrom(told[1], told[2], t)'
        BY <4>1, <4>2 DEF TellsFrom
      <4> QED
        BY <1>0, <4>1, <4>3
    <3> QED
      BY <3>1, <3>2 DEF TxTells
  <2>2. CASE told[1] \in txBooks' /\ told[2] \in sections
    <3>0. PICK t \in Nat : t = txOrder + 1
      BY <1>0
    <3>1. PICK c \in new : c.section = told[2]
      BY <2>2
    <3>2. c \in txCalls' /\ t <= c.order
      BY <3>0, <3>1
    <3>3. \A d \in txCalls' : t <= d.order => d.pc = "sent"
      BY <1>0, <3>0 DEF TxShaped, IsTxCall
    <3>4. TellsFrom(told[1], told[2], t)'
      BY <1>1, <2>2, <3>1, <3>2, <3>3 DEF TellsFrom
    <3>5. t \in 1 .. txOrder'
      BY <1>0, <3>0
    <3> QED
      BY <2>2, <3>4, <3>5 DEF TxTells
  <2> QED
    BY <2>1, <2>2
<1> QED
  BY <1>2, <1>3, <1>4 DEF TxInv

\* A request is served: QuickBooks has every document told of so far.
LEMMA TxServes == ASSUME TxInv, NEW call \in txCalls, Serve(call) PROVE TxInv'
<1> DEFINE new == [call EXCEPT !.pc = "served", !.booked = txBooks]
<1>1. /\ txCalls' = (txCalls \ {call}) \cup {new} /\ call.pc = "sent"
      /\ UNCHANGED <<txBooks, txSel, txShown, txOrder, txLast, txStale, txPost, txTold, txPlan>>
  BY DEF Serve
<1>2. IsTxCall(call) /\ call.order <= txOrder
  BY DEF TxInv, TxShaped
<1>4. IsTxCall(new) /\ new.section = call.section /\ new.order = call.order
      /\ new.booked = txBooks
  BY <1>2 DEF IsTxCall
<1> HIDE DEF new
<1>5. TxShaped'
  BY <1>1, <1>2, <1>4 DEF TxInv, TxShaped
<1>6. ASSUME NEW s, \E c \in txCalls : c.section = s
      PROVE  \E c \in txCalls' : c.section = s
  BY <1>1, <1>4, <1>6
<1>7. ASSUME NEW s \in TxSections PROVE TxAnswered(s)'
  BY <1>1, <1>6 DEF TxInv, TxAnswered
<1>8. ASSUME NEW told \in txTold PROVE TxTells(told)'
  <2>1. TxTells(told)
    BY DEF TxInv
  <2>2. ASSUME NEW t, TellsFrom(told[1], told[2], t)
        PROVE  TellsFrom(told[1], told[2], t)'
    <3>1. \A c \in txCalls' : c.section = told[2] /\ t <= c.order
             => c.pc = "sent" \/ told[1] \in c.booked
      BY <1>1, <1>4, <2>1, <2>2 DEF TellsFrom, TxTells
    <3>2. t <= txLast[told[2]] \/ \E c \in txCalls' : c.section = told[2] /\ t <= c.order
      BY <1>1, <1>4, <2>2 DEF TellsFrom
    <3> QED
      BY <1>1, <2>2, <3>1, <3>2 DEF TellsFrom
  <2> QED
    BY <1>1, <2>1, <2>2 DEF TxTells
<1> QED
  BY <1>1, <1>5, <1>7, <1>8 DEF TxInv

\* An answer arrives: with the data of a request that was served, or an error.
LEMMA TxArrives ==
    ASSUME TxInv, NEW call \in txCalls, NEW data, NEW error \in BOOLEAN,
           Arrive(call, data, error), txPlan' \in TxScripts,
           ~error => /\ call.pc = "served" /\ data.for = call.for /\ data.known
                     /\ data.booked = call.booked
    PROVE  TxInv'
<1> DEFINE s == call.section
           shown == [loading |-> FALSE, error |-> error, data |-> data]
<1>1. IsTxCall(call) /\ s \in TxSections /\ call.order \in Nat /\ call.order > 0
  BY DEF TxInv, TxShaped, IsTxCall
<1>2. /\ txCalls' = txCalls \ {call} /\ txShown' = [txShown EXCEPT ![s] = shown]
      /\ txLast' = [txLast EXCEPT ![s] = IF @ < call.order THEN call.order ELSE @]
      /\ txStale' = IF call.order < txLast[s] \/ call.for # ParamsOf(s, txSel)
                    THEN txStale \cup {s} ELSE txStale \ {s}
      /\ txPost' \in {NoPost, txPost}
      /\ UNCHANGED <<txBooks, txSel, txOrder, txTold>>
  BY DEF Arrive
<1>3. TxShaped
  BY DEF TxInv
<1>4. /\ txLast' \in [TxSections -> Nat] /\ txLast'[s] >= call.order /\ txLast'[s] >= txLast[s]
      /\ s \notin txStale' => txLast'[s] = call.order
      /\ \A r \in TxSections : r # s => txLast'[r] = txLast[r]
  BY <1>1, <1>2, <1>3 DEF TxShaped
<1>5. /\ txShown' = [r \in TxSections |-> txShown'[r]] /\ txShown'[s] = shown
      /\ \A r \in TxSections : r # s => txShown'[r] = txShown[r]
  BY <1>1, <1>2, <1>3 DEF TxShaped
<1>6. shown.loading = FALSE /\ shown.error = error /\ shown.data = data /\ IsTxSection(shown)
  BY DEF IsTxSection
<1> HIDE DEF shown
<1>7. IsTxPost(txPost')
  <2>1. IsTxPost(NoPost)
    BY DEF IsTxPost, NoPost
  <2> QED
    BY <1>2, <1>3, <2>1 DEF TxShaped
<1>8. TxShaped'
  BY <1>1, <1>2, <1>3, <1>4, <1>5, <1>6, <1>7 DEF TxShaped
<1>9. ASSUME NEW r \in TxSections PROVE TxAnswered(r)'
  <2>1. TxAnswered(r)
    BY DEF TxInv
  <2>2. CASE r = s
    <3>1. txLast'[s] > 0
      BY <1>1, <1>4
    <3>2. s \notin txStale' => call.for = ParamsOf(s, txSel)
      BY <1>2
    <3> QED
      BY <1>2, <1>5, <1>6, <2>2, <3>1, <3>2 DEF TxAnswered
  <2>3. CASE r # s
    <3>1. \A c \in txCalls : c.section = r => c \in txCalls'
      BY <1>2, <2>3
    <3>2. r \in txStale' <=> r \in txStale
      BY <1>2, <2>3
    <3> QED
      BY <1>2, <1>4, <1>5, <2>1, <2>3, <3>1, <3>2 DEF TxAnswered
  <2> QED
    BY <2>2, <2>3
<1>10. ASSUME NEW told \in txTold PROVE TxTells(told)'
  <2>1. TxTells(told)
    BY DEF TxInv
  <2>2. ASSUME NEW t \in Nat, told[2] \in TxSections, TellsFrom(told[1], told[2], t)
        PROVE  TellsFrom(told[1], told[2], t)'
    <3>1. CASE told[2] = s
      <4>1. t <= txLast'[s] \/ \E c \in txCalls' : c.section = s /\ t <= c.order
        <5>1. CASE t <= txLast[s]
          BY <1>1, <1>3, <1>4, <5>1 DEF TxShaped
        <5>2. CASE ~(t <= txLast[s])
          <6>1. PICK c \in txCalls : c.section = s /\ t <= c.order
            BY <2>2, <3>1, <5>2 DEF TellsFrom
          <6>2. CASE c = call
            BY <1>1, <1>4, <6>1, <6>2
          <6>3. CASE c # call
            BY <1>2, <6>1, <6>3
          <6> QED
            BY <6>2, <6>3
        <5> QED
          BY <5>1, <5>2
      <4>2. t <= txLast'[s] /\ ~error /\ s \notin txStale' => told[1] \in data.booked
        BY <1>4, <2>2, <3>1 DEF TellsFrom
      <4> QED
        BY <1>2, <1>5, <1>6, <2>2, <3>1, <4>1, <4>2 DEF TellsFrom
    <3>2. CASE told[2] # s
      <4>1. \A c \in txCalls : c.section = told[2] => c \in txCalls'
        BY <1>2, <3>2
      <4>2. told[2] \in txStale' <=> told[2] \in txStale
        BY <1>2, <3>2
      <4> QED
        BY <1>2, <1>4, <1>5, <2>2, <3>2, <4>1, <4>2 DEF TellsFrom
    <3> QED
      BY <3>1, <3>2
  <2> QED
    BY <1>2, <1>3, <2>1, <2>2 DEF TxTells
<1> QED
  BY <1>2, <1>8, <1>9, <1>10 DEF TxInv

\* A load asks with requests of its own, and so does one that a post waits for.
LEMMA TxLoads ==
    ASSUME TxInv, NEW sections \in SUBSET TxSections, NEW sel
    PROVE  /\ \A c \in Asked(sections, sel) :
                 IsTxCall(c) /\ c.order = txOrder + 1 /\ c.pc = "sent"
           /\ \A s \in sections : \E c \in Asked(sections, sel) : c.section = s
<1>1. txOrder \in Nat /\ txOrder + 1 \in Nat \ {0}
  BY DEF TxInv, TxShaped
<1> DEFINE Request(s) ==
               [section |-> s, for |-> ParamsOf(s, sel), order |-> txOrder + 1,
                posted |-> FALSE, booked |-> {}, pc |-> "sent"]
<1>2. ASSUME NEW s \in sections
      PROVE  /\ IsTxCall(Request(s)) /\ Request(s).order = txOrder + 1
             /\ Request(s).pc = "sent" /\ Request(s).section = s
  BY <1>1 DEF IsTxCall
<1>3. Asked(sections, sel) = {Request(s) : s \in sections}
  BY DEF Asked
<1> HIDE DEF Request
<1> QED
  BY <1>2, <1>3

LEMMA TxWaitedFor ==
    ASSUME NEW c, IsTxCall(c), NEW posted, posted = [c EXCEPT !.posted = TRUE]
    PROVE  IsTxCall(posted) /\ posted.order = c.order /\ posted.pc = c.pc
           /\ posted.section = c.section
BY DEF IsTxCall

LEMMA TxMay == ASSUME TxInv, NEW op, May(op) PROVE txPlan' \in TxScripts
<1>1. txPlan \in TxScripts /\ txPlan.left > 0 /\ txPlan' = [txPlan EXCEPT !.left = @ - 1]
  BY DEF May, TxInv, TxShaped
<1> QED
  BY <1>1 DEF TxScripts

LEMMA TxInitially == TxInit => TxInv
<1> SUFFICES ASSUME TxInit PROVE TxInv
  OBVIOUS
<1>1. txPlan \in TxScripts
  BY TxAssumption DEF TxInit, TxScripts
<1>2. \A s \in TxSections : IsTxSection(txShown[s]) /\ ~txShown[s].loading
  <2> TAKE s \in TxSections
  <2>1. txShown[s] = [loading |-> FALSE, error |-> FALSE, data |-> NoData]
    BY DEF TxInit
  <2> QED
    BY <2>1 DEF IsTxSection
<1>3. IsTxPost(txPost)
  BY DEF TxInit, IsTxPost, NoPost
<1>4. TxShaped
  BY <1>1, <1>2, <1>3 DEF TxInit, TxShaped
<1>5. \A s \in TxSections : TxAnswered(s)
  BY <1>2 DEF TxInit, TxAnswered
<1> QED
  BY <1>4, <1>5 DEF TxInit, TxInv

LEMMA TxStepKeeps == TxInv /\ [TxNext]_txVars => TxInv'
<1> SUFFICES ASSUME TxInv, [TxNext]_txVars PROVE TxInv'
  OBVIOUS
<1>0. TxShaped
  BY DEF TxInv
\* A load of some sections.
<1>1. ASSUME NEW sections \in SUBSET TxSections, NEW sel, Load(sections, sel),
             UNCHANGED <<txBooks, txLast, txStale, txPost, txTold>>, txPlan' \in TxScripts,
             (txSel' = txSel /\ txOrder > 0) \/ sections = TxSections
      PROVE  TxInv'
  <2> DEFINE new == Asked(sections, sel)
  <2>1. /\ \A c \in new : IsTxCall(c) /\ c.order = txOrder + 1 /\ c.pc = "sent"
        /\ \A s \in sections : \E c \in new : c.section = s
    BY TxLoads
  <2>2. txCalls' = txCalls \cup new /\ txOrder' = txOrder + 1
        /\ txShown' = Loading(txShown, sections)
    BY <1>1 DEF Load
  <2>3. txBooks \subseteq txBooks' /\ txBooks' \subseteq TxIds /\ IsTxPost(txPost')
    BY <1>0, <1>1 DEF TxShaped
  <2> HIDE DEF new
  <2> QED
    BY <1>1, <2>1, <2>2, <2>3, TxAsks
<1>2. CASE Mount
  <2>1. Load(TxSections, txSel) /\ UNCHANGED <<txBooks, txLast, txStale, txPost, txTold, txPlan>>
    BY <1>2 DEF Mount
  <2> QED
    BY <1>0, <1>1, <2>1 DEF TxShaped
<1>3. CASE Select
  <2>1. PICK sel : Load(TxSections, sel)
    <3>1. PICK sel \in TxSelections :
             /\ sel # txSel /\ Cardinality({f \in DOMAIN sel : sel[f] # txSel[f]}) = 1
             /\ txSel' = sel /\ Load(TxSections, sel)
      BY <1>3, Zenon DEF Select
    <3> QED
      BY <3>1
  <2>2. May("select") /\ UNCHANGED <<txBooks, txLast, txStale, txPost, txTold>>
    BY <1>3 DEF Select
  <2> QED
    BY <1>1, <2>1, <2>2, TxMay
<1>4. CASE RefreshAll
  <2>1. Load(TxSections, txSel) /\ May("refresh")
        /\ UNCHANGED <<txBooks, txLast, txStale, txPost, txTold>>
    BY <1>4 DEF RefreshAll
  <2> QED
    BY <1>1, <2>1, TxMay
<1>5. CASE Submit
  <2>1. PICK id \in TxIds, section \in TxSections :
           txPost' = [pc |-> "sent", id |-> id, sel |-> txSel, section |-> section]
    BY <1>5 DEF Submit
  <2>2. IsTxPost(txPost')
    BY <2>1 DEF IsTxPost
  <2>3. May("post") /\ UNCHANGED <<txBooks, txSel, txShown, txCalls, txOrder, txLast, txStale, txTold>>
    BY <1>5 DEF Submit
  <2> QED
    BY <1>0, <2>2, <2>3, TxMay, TxAside DEF TxShaped
<1>6. CASE PostDone /\ txOrder > 0
  <2> DEFINE asked == Asked({txPost.section}, txPost.sel)
             new == {[c EXCEPT !.posted = TRUE] : c \in asked}
  <2>1. txPost.id \in TxIds /\ txPost.section \in TxSections /\ IsTxPost(txPost)
    BY <1>0, <1>6 DEF PostDone, TxShaped, IsTxPost
  <2>2. IsTxPost([txPost EXCEPT !.pc = "reload"])
    BY <2>1 DEF IsTxPost
  <2>3. /\ \A c \in new : IsTxCall(c) /\ c.order = txOrder + 1 /\ c.pc = "sent"
        /\ \A s \in {txPost.section} : \E c \in new : c.section = s
    <3>1. {txPost.section} \in SUBSET TxSections
      BY <2>1
    <3>2. /\ \A c \in asked : IsTxCall(c) /\ c.order = txOrder + 1 /\ c.pc = "sent"
          /\ \A s \in {txPost.section} : \E c \in asked : c.section = s
      BY <3>1, TxLoads
    <3> HIDE DEF asked
    <3>3. ASSUME NEW c \in asked, NEW posted, posted = [c EXCEPT !.posted = TRUE]
          PROVE  IsTxCall(posted) /\ posted.order = txOrder + 1 /\ posted.pc = "sent"
                 /\ posted.section = c.section
      BY <3>2, <3>3, TxWaitedFor
    <3> QED
      BY <3>2, <3>3, Zenon
  <2>4. /\ txCalls' = txCalls \cup new /\ txOrder' = txOrder + 1
        /\ txShown' = Loading(txShown, {txPost.section})
        /\ txPost' = [txPost EXCEPT !.pc = "reload"]
        /\ txBooks' = txBooks \cup {txPost.id}
        /\ txTold' = txTold \cup {<<txPost.id, txPost.section>>}
        /\ UNCHANGED <<txSel, txLast, txStale, txPlan>>
    BY <1>6 DEF PostDone, AskAgain
  <2> HIDE DEF new, asked
  <2>5. \A told \in txTold' : told \in txTold
           \/ (told[1] \in txBooks' /\ told[2] \in {txPost.section})
    BY <2>4
  <2>6. txBooks \subseteq txBooks' /\ txBooks' \subseteq TxIds /\ txPlan' \in TxScripts
    BY <1>0, <2>1, <2>4 DEF TxShaped
  <2>7. {txPost.section} \in SUBSET TxSections /\ IsTxPost(txPost')
    BY <2>1, <2>2, <2>4
  <2> QED
    BY <1>6, <2>3, <2>4, <2>5, <2>6, <2>7, TxAsks
<1>7. CASE PostRefused
  <2>1. /\ txBooks' \in {txBooks, txBooks \cup {txPost.id}} /\ txPost' = NoPost /\ May("fail")
        /\ txPost.pc = "sent"
        /\ UNCHANGED <<txSel, txShown, txCalls, txOrder, txLast, txStale, txTold>>
    BY <1>7 DEF PostRefused
  <2>2. txPost.id \in TxIds
    BY <1>0, <2>1 DEF TxShaped, IsTxPost
  <2>3. IsTxPost(txPost')
    BY <2>1 DEF IsTxPost, NoPost
  <2> QED
    BY <1>0, <2>1, <2>2, <2>3, TxMay, TxAside DEF TxShaped
<1>8. ASSUME NEW call \in txCalls, Serve(call) \/ Deliver(call) \/ FailLoad(call)
      PROVE  TxInv'
  <2>1. CASE Serve(call)
    BY <2>1, TxServes
  <2>2. CASE Deliver(call)
    <3> DEFINE data == [for |-> call.for, booked |-> call.booked, known |-> TRUE]
    <3>1. Arrive(call, data, FALSE) /\ call.pc = "served" /\ txPlan' \in TxScripts
      BY <1>0, <2>2 DEF Deliver, TxShaped
    <3>2. data.for = call.for /\ data.known /\ data.booked = call.booked
      OBVIOUS
    <3> HIDE DEF data
    <3> QED
      BY <3>1, <3>2, TxArrives
  <2>3. CASE FailLoad(call)
    <3>1. May("fail") /\ Arrive(call, NoData, TRUE)
      BY <2>3 DEF FailLoad
    <3> QED
      BY <3>1, TxMay, TxArrives
  <2> QED
    BY <1>8, <2>1, <2>2, <2>3
<1>9. CASE UNCHANGED txVars
  BY <1>0, <1>9, TxAside DEF txVars, TxShaped
<1> QED
  BY <1>2, <1>3, <1>4, <1>5, <1>6, <1>7, <1>8, <1>9 DEF TxNext

LEMMA TxInvAgrees == TxInv => TxTypeOK /\ TaxDeskAgrees
<1> SUFFICES ASSUME TxInv PROVE TxTypeOK /\ TaxDeskAgrees
  OBVIOUS
<1>1. TxTypeOK
  BY DEF TxInv, TxShaped, TxTypeOK, TxScripts, IsTxCall, IsTxSection, IsTxPost
<1>2. ASSUME NEW s \in TxSections, txOrder > 0, \A c \in txCalls : c.section # s
      PROVE  /\ ~txShown[s].loading
             /\ ~txShown[s].error /\ s \notin txStale =>
                   /\ txShown[s].data.known /\ txShown[s].data.for = ParamsOf(s, txSel)
                   /\ \A told \in txTold : told[2] = s => told[1] \in txShown[s].data.booked
  <2>1. TxAnswered(s)
    BY DEF TxInv
  <2>2. ASSUME NEW told \in txTold, told[2] = s, ~txShown[s].error, s \notin txStale
        PROVE  told[1] \in txShown[s].data.booked
    <3>1. TxTells(told)
      BY DEF TxInv
    <3>2. PICK t \in 1 .. txOrder : TellsFrom(told[1], s, t)
      BY <2>2, <3>1 DEF TxTells
    <3> QED
      BY <1>2, <2>1, <2>2, <3>2 DEF TxAnswered, TellsFrom
  <2> QED
    BY <1>2, <2>1, <2>2 DEF TxAnswered
<1> QED
  BY <1>1, <1>2 DEF TaxDeskAgrees
-----------------------------------------------------------------------------
(* The accounting pages.                                                   *)

ApCalls ==
    [op : {"load", "reprocess", "retry"}, got : ApStatuses \cup {NoStatus}, behind : BOOLEAN]
ApPages ==
    [shown : ApStatuses \cup {NoStatus}, calls : Seq(ApCalls), told : BOOLEAN, late : BOOLEAN,
     moved : BOOLEAN]
RowLists == UNION {[entries -> EntryStates] : entries \in SUBSET ApEntries}
LedgerCalls ==
    [op : {"rows", "bulk", "approve", "exclude"}, ids : SUBSET ApEntries, got : SUBSET RowLists]
ApLedgers == [rows : RowLists, selected : SUBSET ApEntries, calls : SUBSET LedgerCalls]

ApTyped ==
    /\ apStatus \in ApStatuses /\ apPage \in ApPages
    /\ apRows \in [ApEntries -> EntryStates] /\ apLedger \in ApLedgers

\* An answer that would leave the page at rest at another status than the stored one.
Misleads(call, status) ==
    call.op = "load" /\ call.got \in AtRest /\ call.got # status /\ ~call.behind
\* One that tells the stored status or keeps the page asking.
Corrects(call, status) == call.op = "load" /\ (call.got \notin AtRest \/ call.got = status)
\* An order that was carried out is followed by a load.
CarriedOut(call) == call.op = "reprocess" /\ call.got # NoStatus
Corrected(calls, status, k) ==
    \E m \in DOMAIN calls : CarriedOut(calls[m]) \/ (k < m /\ Corrects(calls[m], status))

\* Whatever misleads, or has misled, is corrected by a call made after it.
Watched(page, status) ==
    /\ \A k \in DOMAIN page.calls :
          Misleads(page.calls[k], status) => Corrected(page.calls, status, k)
    /\ page.shown \in AtRest /\ page.shown # status /\ ~page.late
          => Corrected(page.calls, status, 0)
ApWatch == ~apPage.told /\ ~apPage.moved => Watched(apPage, apStatus)

ApInv == ApTyped /\ TicksAreOpen /\ ApWatch

\* A sequence without its element i.
LEMMA RemovedAt ==
    ASSUME NEW S, NEW q \in Seq(S), NEW i \in DOMAIN q
    PROVE  /\ RemoveAt(q, i) \in Seq(S)
           /\ DOMAIN RemoveAt(q, i) = 1 .. Len(q) - 1
           /\ \A j \in 1 .. Len(q) - 1 : RemoveAt(q, i)[j] = q[IF j < i THEN j ELSE j + 1]
<1> DEFINE a == SubSeq(q, 1, i - 1)
           b == SubSeq(q, i + 1, Len(q))
<1>1. i \in 1 .. Len(q) /\ Len(q) \in Nat
  OBVIOUS
<1>2. a \in Seq(S) /\ Len(a) = i - 1 /\ \A j \in 1 .. i - 1 : a[j] = q[j]
  BY <1>1
<1>3. b \in Seq(S) /\ Len(b) = Len(q) - i /\ \A j \in 1 .. Len(q) - i : b[j] = q[i + j]
  BY <1>1
<1> HIDE DEF a, b
<1>4. /\ a \o b \in Seq(S) /\ Len(a \o b) = Len(q) - 1
      /\ \A j \in 1 .. Len(q) - 1 : (a \o b)[j] = IF j < i THEN a[j] ELSE b[j - (i - 1)]
  <2>1. Len(a) + Len(b) = Len(q) - 1
    BY <1>1, <1>2, <1>3
  <2>2. /\ a \o b \in Seq(S) /\ Len(a \o b) = Len(a) + Len(b)
        /\ \A j \in 1 .. Len(a) + Len(b) :
              (a \o b)[j] = IF j <= Len(a) THEN a[j] ELSE b[j - Len(a)]
    BY <1>2, <1>3, ConcatProperties
  <2>4. \A j \in 1 .. Len(q) - 1 : j <= i - 1 <=> j < i
    BY <1>1
  <2> QED
    BY <1>2, <2>1, <2>2, <2>4
<1>5. \A j \in 1 .. Len(q) - 1 : (a \o b)[j] = q[IF j < i THEN j ELSE j + 1]
  <2> TAKE j \in 1 .. Len(q) - 1
  <2>1. CASE j < i
    BY <1>1, <1>2, <1>4, <2>1
  <2>2. CASE ~(j < i)
    <3>1. j - (i - 1) \in 1 .. Len(q) - i /\ i + (j - (i - 1)) = j + 1
      BY <1>1, <2>2
    <3> QED
      BY <1>3, <1>4, <2>2, <3>1
  <2> QED
    BY <2>1, <2>2
<1>6. RemoveAt(q, i) = a \o b
  BY DEF RemoveAt, a, b
<1> QED
  BY <1>1, <1>4, <1>5, <1>6

\* A page that has made a call.
LEMMA CallMade ==
    ASSUME NEW page \in ApPages, NEW op \in {"load", "reprocess", "retry"}
    PROVE  LET new == WithCall(page, op)
           IN  /\ new \in ApPages /\ new.calls = Append(page.calls, Call(op))
               /\ new.shown = page.shown /\ new.told = page.told /\ new.late = page.late
               /\ new.moved = page.moved
<1>1. Call(op) \in ApCalls
  BY DEF Call, ApCalls
<1>2. Append(page.calls, Call(op)) \in Seq(ApCalls)
  BY <1>1 DEF ApPages
<1> QED
  BY <1>2 DEF WithCall, ApPages

\* A load corrects whatever was asked or shown before it.
LEMMA PageLoadMade ==
    ASSUME NEW page \in ApPages, NEW status
    PROVE  /\ WithLoad(page) \in ApPages /\ WithLoad(page).moved = page.moved
           /\ Watched(WithLoad(page), status)
<1> DEFINE asked == WithCall(page, "load")
           new == WithLoad(page)
<1>1. asked \in ApPages /\ asked.calls = Append(page.calls, Call("load"))
      /\ asked.moved = page.moved
  BY CallMade
<1>2. new \in ApPages /\ new.calls = asked.calls /\ new.moved = asked.moved
  <2> HIDE DEF asked
  <2> QED
    BY <1>1 DEF WithLoad, asked, ApPages
<1> HIDE DEF asked, new
<1> DEFINE last == Len(page.calls) + 1
<1>3. /\ DOMAIN new.calls = 1 .. last /\ last \in Nat /\ last > 0 /\ new.calls[last] = Call("load")
  BY <1>1, <1>2 DEF ApPages
<1>4. Corrects(Call("load"), status) /\ ~Misleads(Call("load"), status)
  BY DEF Corrects, Misleads, Call, AtRest, NoStatus
<1> HIDE DEF last
<1>5. \A k \in 0 .. last - 1 : Corrected(new.calls, status, k)
  BY <1>3, <1>4 DEF Corrected
<1>6. Watched(new, status)
  BY <1>3, <1>4, <1>5 DEF Watched
<1> QED
  BY <1>1, <1>2, <1>6 DEF new

\* What leaves the calls alone, or adds to them, leaves them as corrected.
LEMMA StillWatched ==
    ASSUME ApInv, NEW op \in {"reprocess", "retry"}, apPage' = WithCall(apPage, op),
           UNCHANGED apStatus
    PROVE  ApWatch'
<1>1. /\ apPage \in ApPages /\ apPage'.calls = Append(apPage.calls, Call(op))
      /\ apPage'.shown = apPage.shown /\ apPage'.told = apPage.told
      /\ apPage'.late = apPage.late /\ apPage'.moved = apPage.moved
  BY CallMade DEF ApInv, ApTyped
<1> DEFINE last == Len(apPage.calls) + 1
<1>2. /\ DOMAIN apPage'.calls = 1 .. last /\ DOMAIN apPage.calls = 1 .. last - 1
      /\ last \in Nat /\ apPage'.calls[last] = Call(op)
      /\ \A k \in DOMAIN apPage.calls : apPage'.calls[k] = apPage.calls[k]
  BY <1>1 DEF ApPages
<1> HIDE DEF last
<1>3. ~Misleads(Call(op), apStatus)
  BY DEF Misleads, Call
<1>4. ASSUME NEW k, Corrected(apPage.calls, apStatus, k)
      PROVE  Corrected(apPage'.calls, apStatus, k)
  BY <1>2, <1>4 DEF Corrected
<1> QED
  BY <1>1, <1>2, <1>3, <1>4 DEF ApWatch, ApInv, Watched

\* The answer to a load is shown; what was asked before it does not mislead any more.
LEMMA ShownWatched ==
    ASSUME ApInv, NEW i \in DOMAIN apPage.calls, StatementShown(i)
    PROVE  apPage' \in ApPages /\ ApWatch'
<1> DEFINE calls == apPage.calls
           behind == Overtake(calls, i)
           n == Len(calls)
           new == RemoveAt(behind, i)
           Old(j) == IF j < i THEN j ELSE j + 1
<1>1. /\ calls \in Seq(ApCalls) /\ n \in Nat /\ DOMAIN calls = 1 .. n /\ i \in 1 .. n
      /\ calls[i] \in ApCalls /\ calls[i].op = "load" /\ calls[i].got \in ApStatuses
  <2>1. apPage.calls \in Seq(ApCalls)
    BY DEF ApInv, ApTyped, ApPages
  <2>2. calls[i] \in ApCalls /\ calls[i].op = "load" /\ calls[i].got # NoStatus
    BY <2>1 DEF StatementShown
  <2> QED
    BY <2>1, <2>2 DEF ApCalls
<1>2. ASSUME NEW j \in 1 .. n
      PROVE  /\ behind[j] \in ApCalls /\ behind[j].op = calls[j].op /\ behind[j].got = calls[j].got
             /\ behind[j].behind = (calls[j].behind \/ j < i)
  <2> DEFINE overtaken == calls[j].behind \/ j < i
  <2>1. behind[j] = [calls[j] EXCEPT !.behind = overtaken] /\ calls[j] \in ApCalls
    BY <1>1 DEF Overtake
  <2>2. overtaken \in BOOLEAN
    OBVIOUS
  <2>3. overtaken = (calls[j].behind \/ j < i)
    OBVIOUS
  <2> HIDE DEF overtaken, behind, calls
  <2> QED
    BY <2>1, <2>2, <2>3 DEF ApCalls
<1>3. behind \in Seq(ApCalls) /\ DOMAIN behind = 1 .. n /\ Len(behind) = n
  <2>1. behind \in [1 .. n -> ApCalls]
    BY <1>1, <1>2 DEF Overtake
  <2> QED
    BY <1>1, <2>1
<1> HIDE DEF behind
<1>4. /\ new \in Seq(ApCalls) /\ DOMAIN new = 1 .. n - 1
      /\ \A j \in 1 .. n - 1 : new[j] = behind[Old(j)] /\ Old(j) \in 1 .. n
  <2>1. /\ new \in Seq(ApCalls) /\ DOMAIN new = 1 .. Len(behind) - 1
        /\ \A j \in 1 .. Len(behind) - 1 : new[j] = behind[IF j < i THEN j ELSE j + 1]
    <3> HIDE DEF calls, n
    <3> QED
      BY <1>1, <1>3, RemovedAt
  <2>2. \A j \in 1 .. n - 1 : Old(j) \in 1 .. n
    BY <1>1
  <2> QED
    BY <1>3, <2>1, <2>2
<1> HIDE DEF new
<1>5. /\ apPage' \in ApPages /\ apPage'.calls = new
      /\ apPage'.shown = calls[i].got /\ apPage'.late = calls[i].behind
      /\ apPage'.told = apPage.told /\ apPage'.moved = apPage.moved /\ apStatus' = apStatus
  <2>1. apPage' = [apPage EXCEPT !.shown = calls[i].got, !.late = calls[i].behind, !.calls = new]
    BY DEF StatementShown, new, behind
  <2>2. calls[i].behind \in BOOLEAN /\ apStatus' = apStatus
    BY <1>1 DEF ApCalls, StatementShown
  <2> HIDE DEF calls
  <2> QED
    BY <1>1, <1>4, <2>1, <2>2 DEF ApInv, ApTyped, ApPages
<1>6. ASSUME NEW k \in Nat, Corrected(calls, apStatus, k),
             NEW l \in Nat, i <= k, l < k \/ l = 0
      PROVE  Corrected(new, apStatus, l)
  <2>1. PICK m \in 1 .. n : CarriedOut(calls[m]) \/ (k < m /\ Corrects(calls[m], apStatus))
    BY <1>1, <1>6 DEF Corrected
  <2>2. m # i
    BY <1>1, <1>6, <2>1 DEF CarriedOut
  <2> DEFINE j == IF m < i THEN m ELSE m - 1
  <2>3. j \in 1 .. n - 1 /\ Old(j) = m /\ (k < m => l < j)
    BY <1>1, <1>6, <2>2
  <2>4. new[j].op = calls[m].op /\ new[j].got = calls[m].got
    BY <1>2, <1>4, <2>3
  <2> QED
    BY <1>4, <2>1, <2>3, <2>4 DEF Corrected, CarriedOut, Corrects
<1>7. ASSUME ~apPage'.told, ~apPage'.moved
      PROVE  Watched(apPage', apStatus')
  <2>1. Watched(apPage, apStatus)
    BY <1>5, <1>7 DEF ApInv, ApWatch
  <2>2. ASSUME NEW j \in 1 .. n - 1, Misleads(new[j], apStatus)
        PROVE  Corrected(new, apStatus, j)
    <3>1. Old(j) \in 1 .. n /\ ~(Old(j) < i) /\ Misleads(calls[Old(j)], apStatus)
      BY <1>1, <1>2, <1>4, <2>2 DEF Misleads, ApCalls
    <3>2. Old(j) = j + 1 /\ i <= j + 1
      BY <1>1, <3>1
    <3>3. Corrected(calls, apStatus, j + 1)
      BY <1>1, <2>1, <3>1, <3>2 DEF Watched
    <3> QED
      BY <1>6, <3>2, <3>3
  <2>3. ASSUME calls[i].got \in AtRest, calls[i].got # apStatus, ~calls[i].behind
        PROVE  Corrected(new, apStatus, 0)
    <3>1. Misleads(calls[i], apStatus)
      BY <1>1, <2>3 DEF Misleads
    <3>2. Corrected(calls, apStatus, i)
      BY <1>1, <2>1, <3>1 DEF Watched
    <3> QED
      BY <1>1, <1>6, <3>2
  <2> QED
    BY <1>4, <1>5, <2>2, <2>3 DEF Watched
<1> QED
  BY <1>5, <1>7 DEF ApWatch

\* A call is served: it tells the status of that moment, and reprocess changes it.
LEMMA ServedWatched ==
    ASSUME ApInv, NEW i \in DOMAIN apPage.calls, ServeStatement(i)
    PROVE  apStatus' \in ApStatuses /\ apPage' \in ApPages /\ ApWatch'
<1> DEFINE calls == apPage.calls
           n == Len(calls)
           call == [calls[i] EXCEPT !.got = apStatus]
           new == [calls EXCEPT ![i] = call]
<1>1. /\ calls \in Seq(ApCalls) /\ n \in Nat /\ DOMAIN calls = 1 .. n /\ i \in 1 .. n
      /\ calls[i] \in ApCalls /\ calls[i].got = NoStatus /\ apStatus \in ApStatuses
  BY DEF ApInv, ApTyped, ApPages, ServeStatement
<1>2. /\ call \in ApCalls /\ call.op = calls[i].op /\ call.got = apStatus
      /\ call.behind = calls[i].behind
  BY <1>1 DEF ApCalls
<1>3. new = [calls EXCEPT ![i].got = apStatus]
  OBVIOUS
<1> HIDE DEF call
<1>4. /\ new \in Seq(ApCalls) /\ DOMAIN new = 1 .. n /\ new[i] = call
      /\ \A j \in 1 .. n : j # i => new[j] = calls[j]
  <2>1. new \in [1 .. n -> ApCalls]
    BY <1>1, <1>2
  <2> QED
    BY <1>1, <1>2, <2>1
<1> HIDE DEF new
<1>5. /\ apPage' \in ApPages /\ apPage'.calls = new
      /\ apPage'.shown = apPage.shown /\ apPage'.late = apPage.late
      /\ apPage'.told = apPage.told /\ apPage'.moved = apPage.moved
  <2>1. apPage' = [apPage EXCEPT !.calls = new]
    BY <1>3 DEF ServeStatement
  <2> HIDE DEF calls
  <2> QED
    BY <1>4, <2>1 DEF ApInv, ApTyped, ApPages
<1>6. CASE calls[i].op = "reprocess"
  <2>1. apStatus' = "uploaded"
    BY <1>6 DEF ServeStatement
  <2>2. CarriedOut(new[i])
    BY <1>1, <1>2, <1>4, <1>6 DEF CarriedOut, ApStatuses, NoStatus
  <2>3. \A k : Corrected(new, apStatus', k)
    BY <1>1, <1>4, <2>2 DEF Corrected
  <2> QED
    BY <1>5, <2>1, <2>3 DEF ApWatch, Watched, ApStatuses
<1>7. CASE calls[i].op # "reprocess"
  <2>1. apStatus' = apStatus
    BY <1>7 DEF ServeStatement
  <2>2. ASSUME NEW k, Corrected(calls, apStatus, k) PROVE Corrected(new, apStatus, k)
    <3>1. PICK m \in 1 .. n : CarriedOut(calls[m]) \/ (k < m /\ Corrects(calls[m], apStatus))
      BY <1>1, <2>2 DEF Corrected
    <3>2. CASE m = i
      <4>1. Corrects(new[i], apStatus) /\ k < i
        BY <1>1, <1>2, <1>4, <3>1, <3>2 DEF CarriedOut, Corrects
      <4> QED
        BY <1>1, <1>4, <4>1 DEF Corrected
    <3>3. CASE m # i
      BY <1>4, <3>1, <3>3 DEF Corrected
    <3> QED
      BY <3>2, <3>3
  <2>3. ~Misleads(new[i], apStatus)
    BY <1>2, <1>4 DEF Misleads
  <2>4. ASSUME Watched(apPage, apStatus) PROVE Watched(apPage', apStatus)
    <3>1. ASSUME NEW k \in 1 .. n, Misleads(new[k], apStatus) PROVE Corrected(new, apStatus, k)
      BY <1>1, <1>4, <2>2, <2>3, <2>4, <3>1 DEF Watched
    <3> QED
      BY <1>4, <1>5, <2>2, <2>4, <3>1 DEF Watched
  <2> QED
    BY <1>1, <1>5, <2>1, <2>4 DEF ApWatch, ApInv
<1> QED
  BY <1>6, <1>7

\* A job moves the statement on: answers at another status than one at rest may
\* mislead only if they did before.
LEMMA MovedWatched ==
    ASSUME ApInv, MoveStatement
    PROVE  apStatus' \in ApStatuses /\ apPage' \in ApPages /\ ApWatch'
<1>1. apStatus \in ApStatuses /\ apPage \in ApPages
  BY DEF ApInv, ApTyped
<1>2. \A status \in ApStatuses : Moves(status) \subseteq ApStatuses
  BY DEF Moves, ApStatuses
<1>3. CASE apStatus' \in Moves(apStatus)
           /\ apPage' = [apPage EXCEPT !.moved = @ \/ apStatus \in AtRest]
  <2>1. /\ apPage' \in ApPages /\ apPage'.calls = apPage.calls /\ apPage'.shown = apPage.shown
        /\ apPage'.told = apPage.told /\ apPage'.late = apPage.late
        /\ apPage'.moved = (apPage.moved \/ apStatus \in AtRest)
    BY <1>1, <1>3 DEF ApPages
  <2>2. ASSUME apStatus \notin AtRest, Watched(apPage, apStatus)
        PROVE  Watched(apPage', apStatus')
    <3>1. ASSUME NEW call, Misleads(call, apStatus') PROVE Misleads(call, apStatus)
      BY <2>2, <3>1 DEF Misleads
    <3>2. ASSUME NEW k, Corrected(apPage.calls, apStatus, k)
          PROVE  Corrected(apPage.calls, apStatus', k)
      BY <2>2, <3>2 DEF Corrected, Corrects
    <3> QED
      BY <2>1, <2>2, <3>1, <3>2 DEF Watched
  <2> QED
    BY <1>1, <1>2, <1>3, <2>1, <2>2 DEF ApInv, ApWatch
<1>4. CASE apStatus' = "uploaded" /\ apPage' = [apPage EXCEPT !.moved = TRUE]
  <2>1. apPage' \in ApPages /\ apPage'.moved
    BY <1>1, <1>4 DEF ApPages
  <2> QED
    BY <1>4, <2>1 DEF ApWatch, ApStatuses
<1> QED
  BY <1>3, <1>4 DEF MoveStatement

\* A step of the statement page, and one of the ledger page.
LEMMA PageSteps ==
    ASSUME ApInv, apStatus' \in ApStatuses, apPage' \in ApPages, ApWatch',
           UNCHANGED <<apRows, apLedger>>
    PROVE  ApInv'
BY DEF ApInv, ApTyped, TicksAreOpen

LEMMA LedgerSteps ==
    ASSUME ApInv, UNCHANGED <<apStatus, apPage>>, apRows' \in [ApEntries -> EntryStates],
           apLedger' \in ApLedgers, TicksAreOpen'
    PROVE  ApInv'
BY DEF ApInv, ApTyped, ApWatch

LEMMA StatementKeeps ==
    ASSUME ApInv,
           \/ MoveStatement \/ OpenStatement \/ PollStatement
           \/ \E op \in {"reprocess", "retry"} : OrderJob(op)
           \/ \E i \in DOMAIN apPage.calls :
                 ServeStatement(i) \/ StatementShown(i) \/ OrderTaken(i) \/ StatementCallFails(i)
    PROVE  ApInv'
<1>1. apStatus \in ApStatuses /\ apPage \in ApPages
  BY DEF ApInv, ApTyped
<1>2. CASE MoveStatement
  BY <1>2, MovedWatched, PageSteps DEF MoveStatement
<1>3. CASE OpenStatement
  <2> DEFINE calls == <<Call("load")>>
  <2>3. Call("load") \in ApCalls
    BY DEF Call, ApCalls
  <2>4. calls \in Seq(ApCalls) /\ DOMAIN calls = {1} /\ calls[1] = Call("load")
    BY <2>3
  <2> HIDE DEF calls
  <2>5. apPage' = [shown |-> NoStatus, calls |-> calls, told |-> FALSE, late |-> FALSE,
                   moved |-> FALSE]
    BY <1>3 DEF OpenStatement, FreshPage, calls
  <2>6. apPage' \in ApPages /\ apPage'.calls = calls /\ apPage'.shown = NoStatus
    BY <2>4, <2>5 DEF ApPages
  <2>7. ~Misleads(calls[1], apStatus')
    BY <2>4 DEF Misleads, Call, AtRest, NoStatus
  <2>8. ApWatch'
    BY <2>4, <2>6, <2>7 DEF ApWatch, Watched, AtRest, NoStatus
  <2> QED
    BY <1>1, <1>3, <2>6, <2>8, PageSteps DEF OpenStatement
<1>4. CASE PollStatement
  <2>1. apPage' = WithLoad(apPage) /\ UNCHANGED <<apStatus, apRows, apLedger>>
    BY <1>4 DEF PollStatement
  <2> QED
    BY <1>1, <2>1, PageLoadMade, PageSteps DEF ApWatch
<1>5. ASSUME NEW op \in {"reprocess", "retry"}, OrderJob(op)
      PROVE  ApInv'
  <2>1. apPage' = WithCall(apPage, op) /\ UNCHANGED <<apStatus, apRows, apLedger>>
    BY <1>5 DEF OrderJob
  <2>2. apPage' \in ApPages
    BY <1>1, <2>1, CallMade
  <2> QED
    BY <1>1, <2>1, <2>2, StillWatched, PageSteps
<1>6. ASSUME NEW i \in DOMAIN apPage.calls, ServeStatement(i)
      PROVE  ApInv'
  BY <1>6, ServedWatched, PageSteps DEF ServeStatement
<1>7. ASSUME NEW i \in DOMAIN apPage.calls, StatementShown(i)
      PROVE  ApInv'
  <2>1. UNCHANGED <<apStatus, apRows, apLedger>>
    BY <1>7 DEF StatementShown
  <2> QED
    BY <1>1, <1>7, <2>1, ShownWatched, PageSteps
<1>8. ASSUME NEW i \in DOMAIN apPage.calls, OrderTaken(i) \/ StatementCallFails(i)
      PROVE  ApInv'
  <2> DEFINE calls == RemoveAt(apPage.calls, i)
             left == [apPage EXCEPT !.calls = calls]
  <2>1. calls \in Seq(ApCalls)
    <3>1. apPage.calls \in Seq(ApCalls)
      BY <1>1 DEF ApPages
    <3> QED
      BY <3>1, RemovedAt
  <2> HIDE DEF calls
  <2>2. left \in ApPages
    BY <1>1, <2>1 DEF ApPages
  <2> HIDE DEF left
  <2>3. CASE OrderTaken(i)
    <3>1. apPage' = WithLoad(left) /\ UNCHANGED <<apStatus, apRows, apLedger>>
      BY <2>3 DEF OrderTaken, left, calls
    <3> QED
      BY <1>1, <2>2, <3>1, PageLoadMade, PageSteps DEF ApWatch
  <2>4. CASE StatementCallFails(i)
    <3>1. apPage' = [apPage EXCEPT !.calls = calls, !.told = TRUE]
          /\ UNCHANGED <<apStatus, apRows, apLedger>>
      BY <2>4 DEF StatementCallFails, calls
    <3>2. apPage' \in ApPages /\ apPage'.told
      BY <1>1, <2>1, <3>1 DEF ApPages
    <3> QED
      BY <1>1, <3>1, <3>2, PageSteps DEF ApWatch
  <2> QED
    BY <1>8, <2>3, <2>4
<1> QED
  BY <1>2, <1>3, <1>4, <1>5, <1>6, <1>7, <1>8

LEMMA LedgerKeeps ==
    ASSUME ApInv,
           \/ AskRows \/ BulkApprove
           \/ \E call \in apLedger.calls :
                 ServeRows(call) \/ RowsArrive(call) \/ ServeDecision(call) \/ LedgerCallFails(call)
           \/ \E e \in ApEntries :
                 \/ ReviewElsewhere(e) \/ ToggleSelect(e)
                 \/ \E op \in {"approve", "exclude"} : DecideOne(e, op)
    PROVE  ApInv'
<1>1. /\ apRows \in [ApEntries -> EntryStates] /\ apLedger \in ApLedgers /\ TicksAreOpen
  BY DEF ApInv, ApTyped
<1>2. /\ apLedger.rows \in RowLists /\ apLedger.selected \subseteq ApEntries
      /\ apLedger.calls \subseteq LedgerCalls
      /\ \A e \in apLedger.selected : e \in DOMAIN apLedger.rows /\ apLedger.rows[e] \notin Settled
  BY <1>1 DEF ApLedgers, TicksAreOpen
<1>3. RowsCall \in LedgerCalls
  BY DEF RowsCall, LedgerCalls
\* Calls come and go.
<1>4. ASSUME NEW calls \in SUBSET LedgerCalls, apLedger' = [apLedger EXCEPT !.calls = calls],
             UNCHANGED <<apStatus, apPage>>, apRows' \in [ApEntries -> EntryStates]
      PROVE  ApInv'
  <2>1. apLedger' \in ApLedgers /\ apLedger'.rows = apLedger.rows
        /\ apLedger'.selected = apLedger.selected
    BY <1>1, <1>4 DEF ApLedgers
  <2>2. TicksAreOpen'
    BY <1>2, <2>1 DEF TicksAreOpen
  <2> QED
    BY <1>4, <2>1, <2>2, LedgerSteps
<1>5. ASSUME NEW op, NEW call \in LedgerCalls, Sends(op, call)
      PROVE  ApInv'
  BY <1>1, <1>2, <1>4, <1>5 DEF Sends
<1>6. CASE AskRows
  BY <1>3, <1>5, <1>6 DEF AskRows
<1>7. CASE BulkApprove
  <2>1. [RowsCall EXCEPT !.op = "bulk", !.ids = apLedger.selected] \in LedgerCalls
    BY <1>2 DEF RowsCall, LedgerCalls
  <2> QED
    BY <1>5, <1>7, <2>1 DEF BulkApprove
<1>8. ASSUME NEW e \in ApEntries, NEW op \in {"approve", "exclude"}, DecideOne(e, op)
      PROVE  ApInv'
  <2>1. [RowsCall EXCEPT !.op = op, !.ids = {e}] \in LedgerCalls
    BY DEF RowsCall, LedgerCalls
  <2> QED
    BY <1>5, <1>8, <2>1 DEF DecideOne
<1>9. ASSUME NEW e \in ApEntries, ReviewElsewhere(e)
      PROVE  ApInv'
  <2>1. PICK state \in Reviewed(apRows[e]) : apRows' = [apRows EXCEPT ![e] = state]
    BY <1>9 DEF ReviewElsewhere
  <2>2. apRows[e] \in EntryStates
    BY <1>1
  <2>3. state \in EntryStates
    BY <2>2 DEF Reviewed, EntryStates
  <2>4. apRows' \in [ApEntries -> EntryStates]
    BY <1>1, <2>1, <2>3
  <2> QED
    BY <1>1, <1>9, <2>4, LedgerSteps DEF ReviewElsewhere, TicksAreOpen
<1>10. ASSUME NEW e \in ApEntries, ToggleSelect(e)
       PROVE  ApInv'
  <2> DEFINE ticked == IF e \in apLedger.selected THEN apLedger.selected \ {e}
                       ELSE apLedger.selected \cup {e}
  <2>1. apLedger' = [apLedger EXCEPT !.selected = ticked] /\ ticked \subseteq ApEntries
    BY <1>2, <1>10 DEF ToggleSelect
  <2>2. \A f \in ticked : f \in DOMAIN apLedger.rows /\ apLedger.rows[f] \notin Settled
    BY <1>2, <1>10 DEF ToggleSelect
  <2> HIDE DEF ticked
  <2>3. apLedger' \in ApLedgers /\ apLedger'.rows = apLedger.rows /\ apLedger'.selected = ticked
    BY <1>1, <2>1 DEF ApLedgers
  <2> QED
    BY <1>1, <1>10, <2>2, <2>3, LedgerSteps DEF ToggleSelect, TicksAreOpen
<1>11. ASSUME NEW call \in apLedger.calls, ServeRows(call)
       PROVE  ApInv'
  <2>1. PICK matching \in SUBSET ApEntries :
           apLedger' = [apLedger EXCEPT !.calls =
               (@ \ {call}) \cup {[call EXCEPT !.got = {[e \in matching |-> apRows[e]]}]}]
    BY <1>11 DEF ServeRows
  <2>2. [e \in matching |-> apRows[e]] \in RowLists
    <3>1. [e \in matching |-> apRows[e]] \in [matching -> EntryStates]
      BY <1>1
    <3> QED
      BY <3>1 DEF RowLists
  <2> DEFINE told == [call EXCEPT !.got = {[e \in matching |-> apRows[e]]}]
  <2>3. told \in LedgerCalls
    BY <1>2, <2>2 DEF LedgerCalls
  <2>4. apLedger' = [apLedger EXCEPT !.calls = (@ \ {call}) \cup {told}]
    BY <2>1
  <2>5. UNCHANGED <<apStatus, apPage, apRows>>
    BY <1>11 DEF ServeRows
  <2> HIDE DEF told
  <2> QED
    BY <1>1, <1>2, <1>4, <2>3, <2>4, <2>5
<1>12. ASSUME NEW call \in apLedger.calls, RowsArrive(call)
       PROVE  ApInv'
  <2>1. PICK rows \in call.got :
           apLedger' = RowsShown([apLedger EXCEPT !.calls = @ \ {call}], rows)
    BY <1>12 DEF RowsArrive
  <2>2. rows \in RowLists
    BY <1>2 DEF LedgerCalls
  <2>3. apLedger' \in ApLedgers /\ apLedger'.selected = {}
    BY <1>1, <1>2, <2>1, <2>2 DEF RowsShown, ApLedgers
  <2> QED
    BY <1>1, <1>12, <2>3, LedgerSteps DEF RowsArrive, TicksAreOpen
<1>13. ASSUME NEW call \in apLedger.calls, ServeDecision(call)
       PROVE  ApInv'
  <2>1. PICK more \in SUBSET {RowsCall} :
           apLedger' = [apLedger EXCEPT !.calls = (@ \ {call}) \cup more]
    BY <1>13 DEF ServeDecision
  <2>2. apRows' \in [ApEntries -> EntryStates]
    BY <1>1, <1>13 DEF ServeDecision, EntryStates
  <2> QED
    BY <1>2, <1>3, <1>4, <1>13, <2>1, <2>2 DEF ServeDecision
<1>14. ASSUME NEW call \in apLedger.calls, LedgerCallFails(call)
       PROVE  ApInv'
  BY <1>1, <1>2, <1>4, <1>14 DEF LedgerCallFails
<1> QED
  BY <1>6, <1>7, <1>8, <1>9, <1>10, <1>11, <1>12, <1>13, <1>14

LEMMA ApInitially == ApInit => ApInv
<1> SUFFICES ASSUME ApInit PROVE ApInv
  OBVIOUS
<1>1. apStatus \in ApStatuses /\ apRows \in [ApEntries -> EntryStates]
  BY DEF ApInit, ApStatuses, EntryStates
<1>2. apPage \in ApPages /\ DOMAIN apPage.calls = {} /\ apPage.shown = NoStatus
  BY DEF ApInit, FreshPage, ApPages
<1>3. Nothing \in RowLists
  <2>1. Nothing \in [{} -> EntryStates]
    BY DEF Nothing
  <2> QED
    BY <2>1 DEF RowLists
<1>4. apLedger \in ApLedgers /\ apLedger.selected = {}
  BY <1>3 DEF ApInit, ApLedgers
<1>5. ApWatch
  BY <1>2 DEF ApWatch, Watched, AtRest, NoStatus
<1> QED
  BY <1>1, <1>2, <1>4, <1>5 DEF ApInv, ApTyped, TicksAreOpen

LEMMA ApStepKeeps == ApInv /\ [ApNext]_apVars => ApInv'
<1> SUFFICES ASSUME ApInv, [ApNext]_apVars PROVE ApInv'
  OBVIOUS
<1>1. CASE UNCHANGED apVars
  BY <1>1 DEF apVars, ApInv, ApTyped, TicksAreOpen, ApWatch
<1>2. CASE ApNext
  <2>1. CASE \/ MoveStatement \/ OpenStatement \/ PollStatement
             \/ \E op \in {"reprocess", "retry"} : OrderJob(op)
             \/ \E i \in DOMAIN apPage.calls :
                   ServeStatement(i) \/ StatementShown(i) \/ OrderTaken(i) \/ StatementCallFails(i)
    BY <2>1, StatementKeeps
  <2>2. CASE \/ AskRows \/ BulkApprove
             \/ \E call \in apLedger.calls :
                   ServeRows(call) \/ RowsArrive(call) \/ ServeDecision(call)
                   \/ LedgerCallFails(call)
             \/ \E e \in ApEntries :
                   \/ ReviewElsewhere(e) \/ ToggleSelect(e)
                   \/ \E op \in {"approve", "exclude"} : DecideOne(e, op)
    BY <2>2, LedgerKeeps
  <2> QED
    BY <1>2, <2>1, <2>2, Zenon DEF ApNext
<1> QED
  BY <1>1, <1>2

LEMMA ApInvAgrees == ApInv => ApTypeOK /\ PageKeepsUp /\ TicksAreOpen
<1> SUFFICES ASSUME ApInv PROVE ApTypeOK /\ PageKeepsUp
  BY DEF ApInv
<1>1. apPage \in ApPages /\ apPage.shown \in ApStatuses \cup {NoStatus}
  BY DEF ApInv, ApTyped, ApPages
<1>2. ApTypeOK
  <2>1. apPage.calls \in Seq([op : {"load", "reprocess", "retry"},
                              got : ApStatuses \cup {NoStatus}, behind : BOOLEAN])
    BY <1>1 DEF ApPages, ApCalls
  <2>2. DOMAIN apLedger.rows \subseteq ApEntries /\ apLedger.selected \subseteq ApEntries
    BY DEF ApInv, ApTyped, ApLedgers, RowLists
  <2> QED
    BY <1>1, <2>1, <2>2 DEF ApTypeOK, ApInv, ApTyped
<1>3. ASSUME apPage.calls = <<>>, apPage.shown \notin Polled \cup {NoStatus, "uploaded"},
             ~apPage.told, ~apPage.late, ~apPage.moved, apPage.shown # apStatus
      PROVE  FALSE
  <2>1. apPage.shown \in AtRest
    BY <1>1, <1>3 DEF ApStatuses, Polled, AtRest
  <2>2. Corrected(apPage.calls, apStatus, 0)
    BY <1>3, <2>1 DEF ApInv, ApWatch, Watched
  <2> QED
    BY <1>3, <2>2 DEF Corrected
<1> QED
  BY <1>2, <1>3 DEF PageKeepsUp
-----------------------------------------------------------------------------
(* The composition.                                                        *)

\* Types of the imports; and, of the days that sheets have written, the cash
\* difference follows from the total beside it, while a sheet whose mapping passed
\* the check is refused only for a row that does not read.
THEOREM ImportTypes == PdSpec => []PdTypeOK
BY PdInitially, PdStepKeeps, PdInvAgrees, PTL DEF PdSpec

\* CheckedSheetsAddUp, for any sheets, mappings and figures, whichever imports,
\* files and clearings cross (posImportService.ts, posController.ts).
THEOREM ImportCheckedSheetsAddUp == PdSpec => []CheckedSheetsAddUp
BY PdInitially, PdStepKeeps, PdInvAgrees, PTL DEF PdSpec

\* What holds of every part.
BackOfficeInv ==
    /\ QbInv /\ SgInv /\ SgMadeInv /\ ObInv /\ InInv /\ PdInv /\ RpTyped
    /\ MwTyped /\ PpInv /\ SuTyped /\ TxInv /\ ApInv


LEMMA BackOfficeInitially == Init => BackOfficeInv
<1> SUFFICES ASSUME Init PROVE BackOfficeInv
  OBVIOUS
<1>1. /\ QbInit /\ SgInit /\ ObInit /\ InInit /\ PdInit /\ RpInit /\ MwInit /\ PpInit /\ SuInit
      /\ TxInit /\ ApInit
  BY DEF Init
<1> QED
  BY <1>1, QbInitially, SgInitially, InitiallyMade, ObInitInv, InInitInv, PdInitially, RpInitially,
     MwInitially, PpInitially, SuInitially, TxInitially, ApInitially DEF BackOfficeInv

LEMMA BackOfficeStepKeeps == BackOfficeInv /\ [Next]_vars => BackOfficeInv'
<1> SUFFICES ASSUME BackOfficeInv, [Next]_vars PROVE BackOfficeInv'
  OBVIOUS
<1>1. /\ QbNext \/ UNCHANGED qbVars
      /\ SgNext \/ UNCHANGED sgVars
      /\ ObNext \/ UNCHANGED obVars
      /\ InNext \/ UNCHANGED inVars
      /\ PdNext \/ UNCHANGED pdVars
      /\ RpNext \/ UNCHANGED rpVars
      /\ MwNext \/ UNCHANGED mwVars
      /\ PpNext \/ UNCHANGED ppVars
      /\ SuNext \/ UNCHANGED suVars
      /\ TxNext \/ UNCHANGED txVars
      /\ ApNext \/ UNCHANGED apVars
  BY Zenon DEF Next, vars
<1>2. QbInv' /\ SgInv' /\ SgMadeInv' /\ ObInv' /\ InInv'
  BY <1>1, QbStepKeeps, SgStepKeeps, SgStepKeepsMade, ObNextInv, InNextInv DEF BackOfficeInv
<1>3. PdInv' /\ RpTyped' /\ MwTyped' /\ PpInv'
  BY <1>1, PdStepKeeps, RpStepKeeps, MwStepKeeps, PpStepKeeps DEF BackOfficeInv
<1>4. SuTyped' /\ TxInv' /\ ApInv'
  BY <1>1, SuKeepsType, TxStepKeeps, ApStepKeeps DEF BackOfficeInv
<1> QED
  BY <1>2, <1>3, <1>4 DEF BackOfficeInv

LEMMA BackOfficeSteady == Spec => []BackOfficeInv
BY BackOfficeInitially, BackOfficeStepKeeps, PTL DEF Spec

\* The stored documents, the requests and the pages of every part have their types.
THEOREM BackOfficeTypes == Spec => []BackOfficeTypeOK
<1>1. BackOfficeInv => BackOfficeTypeOK
  BY InvIsTyped, SgInvTypes, ObInvTypes, InInvTypes, PdInvAgrees, RpTypedAgrees, MwTypedAgrees,
     PpInvAgrees, SuTypedAgrees, TxInvAgrees, ApInvAgrees DEF BackOfficeInv, BackOfficeTypeOK
<1> QED
  BY <1>1, BackOfficeSteady, PTL

\* WizardAgrees: the form, which keeps a mapping by target, and the server, which
\* keeps it by column, call the same mappings good (MatchingWizard.tsx).
THEOREM BackOfficeWizardAgrees == Spec => []WizardAgrees
<1>1. BackOfficeInv => WizardAgrees
  BY MwTypedAgrees DEF BackOfficeInv
<1> QED
  BY <1>1, BackOfficeSteady, PTL

\* RecordsMatchPage: however the answers of the point-of-sale page's requests come,
\* the rows it shows are those of the page and range it names (posSlice.ts).
THEOREM BackOfficeRecordsMatchPage == Spec => []RecordsMatchPage
<1>1. BackOfficeInv => RecordsMatchPage
  BY PpInvAgrees DEF BackOfficeInv
<1> QED
  BY <1>1, BackOfficeSteady, PTL

\* AccountingPagesAgree: each section of the tax desk shows what the latest of its
\* requests asked for, the statement page goes on asking until it tells the stored
\* status, and a ticked ledger row is one still open (TaxDashboardPage.tsx,
\* StatementDetailPage.tsx, LedgerPage.tsx).
THEOREM BackOfficeAccountingPagesAgree == Spec => []AccountingPagesAgree
<1>1. BackOfficeInv => AccountingPagesAgree
  BY TxInvAgrees, ApInvAgrees DEF BackOfficeInv, AccountingPagesAgree
<1> QED
  BY <1>1, BackOfficeSteady, PTL
=============================================================================
