------------------------------- MODULE Inventory -------------------------------
(***************************************************************************)
(* Items, locations and the ledger of stock moves: itemController.ts,      *)
(* locationController.ts, inventoryController.ts and the indexes of their  *)
(* models.  The requests of one company run side by side; each database    *)
(* call is a step.                                                         *)
(***************************************************************************)
EXTENDS Naturals, Sequences

CONSTANTS
    InProcs,    \* requests under way
    Upcs,       \* product codes: sequences of characters
    Modifiers,  \* their suffixes; <<>> for none
    Shelves,    \* location codes
    InScripts   \* bounds: items and locations at first, the operations, how many follow

Unsent == <<0>>   \* a field the request leaves out
NoShelf == 0
InOps == {"createItem", "updateItem", "deleteItem", "importItems", "createLocation",
          "updateLocation", "deleteLocation", "move"}

VARIABLES
    inItems,     \* items by id: upc, modifier, barcode, default location, deleted or not
    inLocations, \* locations by id: code, deleted or not
    inMoves,     \* the inventory ledger: only ever appended to
    inOverlaid,  \* history: items whose codes were saved by one who had not read them
    inProc,      \* progress of each request
    inScript     \* what may still be asked

inVars == <<inItems, inLocations, inMoves, inOverlaid, inProc, inScript>>

InIdle == [pc |-> "idle"]
InAt(p, pc) == inProc[p].pc = pc
InDone(p) == inProc' = [inProc EXCEPT ![p] = InIdle]
InGo(p, pc) == inProc' = [inProc EXCEPT ![p].pc = pc]
-----------------------------------------------------------------------------
(* The documents.                                                          *)

\* normalizeBarcode.
Barcode(upc, modifier) == upc \o modifier

Item(upc, modifier, shelf) ==
    [upc |-> upc, modifier |-> modifier, barcode |-> Barcode(upc, modifier),
     shelf |-> shelf, gone |-> FALSE]
Shelf(code) == [code |-> code, gone |-> FALSE]

\* What the collections hold; every stored barcode was made by normalizeBarcode.
Barcodes == {Barcode(u, m) : u \in Upcs, m \in Modifiers}
ItemDocs ==
    [upc : Upcs, modifier : Modifiers, barcode : Barcodes, shelf : Nat, gone : BOOLEAN]
LocationDocs == [code : Shelves, gone : BOOLEAN]

\* What there is at first was stored by the same code.
ASSUME InAssumption ==
    \A s \in InScripts :
        /\ s.items \in Seq(ItemDocs) /\ s.locations \in Seq(LocationDocs)
        /\ \A i \in DOMAIN s.items :
              s.items[i].barcode = Barcode(s.items[i].upc, s.items[i].modifier)
        /\ s.ops \subseteq InOps /\ s.left \in Nat

\* The unique indexes on barcode and on upc and modifier.
Clashes(items, i, item) ==
    \E j \in DOMAIN items \ {i} :
        /\ ~items[j].gone
        /\ \/ items[j].barcode = item.barcode
           \/ items[j].upc = item.upc /\ items[j].modifier = item.modifier

Shelved(code) == {s \in DOMAIN inLocations : ~inLocations[s].gone /\ inLocations[s].code = code}
InStock(i) == i \in DOMAIN inItems /\ ~inItems[i].gone
Sent(new, old) == IF new = Unsent THEN old ELSE new
-----------------------------------------------------------------------------
(* Requests.                                                               *)

InArrive(p) ==
    /\ InAt(p, "idle") /\ inScript.left > 0
    /\ \E op \in inScript.ops, item \in 0..Len(inItems), upc \in Upcs \cup {Unsent},
          modifier \in Modifiers \cup {Unsent}, from, to \in Shelves :
          /\ op \in {"createItem", "importItems"} => upc # Unsent /\ modifier # Unsent
          /\ op \in {"updateItem", "deleteItem", "move"} <=> item # 0
          /\ op \notin {"createItem", "importItems", "updateItem"} => upc = Unsent /\ modifier = Unsent
          /\ op \notin {"move", "updateLocation"} => from = to
          /\ inProc' = [inProc EXCEPT ![p] =
                 [pc |-> op, id |-> item, upc |-> upc, modifier |-> modifier, from |-> from,
                  to |-> to, read |-> NoShelf, source |-> NoShelf, goal |-> NoShelf]]
    /\ inScript' = [inScript EXCEPT !.left = @ - 1]
    /\ UNCHANGED <<inItems, inLocations, inMoves, inOverlaid>>

\* createItem: a default location must exist when it is looked up.
FindShelf(p) ==
    /\ InAt(p, "createItem")
    /\ IF Shelved(inProc[p].from) = {}
       THEN InDone(p)
       ELSE inProc' = [inProc EXCEPT ![p].pc = "insertItem",
                                     ![p].source = CHOOSE s \in Shelved(inProc[p].from) : TRUE]
    /\ UNCHANGED <<inItems, inLocations, inMoves, inOverlaid, inScript>>

InsertItem(p) ==
    /\ InAt(p, "insertItem")
    /\ LET new == Item(inProc[p].upc, inProc[p].modifier, inProc[p].source)
       IN  inItems' = IF Clashes(inItems, 0, new) THEN inItems ELSE Append(inItems, new)
    /\ InDone(p)
    /\ UNCHANGED <<inLocations, inMoves, inOverlaid, inScript>>

LoadItem(p) ==
    /\ InAt(p, "updateItem")
    /\ IF InStock(inProc[p].id)
       THEN inProc' = [inProc EXCEPT ![p].pc = "saveItem", ![p].read = inItems[inProc[p].id]]
       ELSE InDone(p)
    /\ UNCHANGED <<inItems, inLocations, inMoves, inOverlaid, inScript>>

\* Mutant: the modifier the item keeps is forgotten.
SentAlone(upc, modifier, old) ==
    [old EXCEPT !.upc = Sent(upc, old.upc), !.modifier = Sent(modifier, old.modifier),
                !.barcode = Barcode(Sent(upc, old.upc), Sent(modifier, <<>>))]

\* What updateItem assigns to the document it loaded.
Updated(upc, modifier, old) ==
    LET nextUpc == Sent(upc, old.upc)
        nextModifier == Sent(modifier, old.modifier)
    IN  [old EXCEPT !.upc = nextUpc, !.modifier = nextModifier,
                    !.barcode = Barcode(nextUpc, nextModifier)]

\* A save writes the fields that differ from the ones read; it finds no item
\* that was deleted meanwhile, and the indexes may refuse it.
SaveItem(p) ==
    /\ InAt(p, "saveItem")
    /\ LET i == inProc[p].id
           old == inProc[p].read
           new == Updated(inProc[p].upc, inProc[p].modifier, old)
           saved == [f \in DOMAIN old |-> IF new[f] = old[f] THEN inItems[i][f] ELSE new[f]]
           refused == inItems[i].gone \/ Clashes(inItems, i, saved)
       IN  /\ inItems' = IF refused THEN inItems ELSE [inItems EXCEPT ![i] = saved]
           /\ inOverlaid' = IF refused \/ inItems[i] = old THEN inOverlaid ELSE inOverlaid \cup {i}
    /\ InDone(p)
    /\ UNCHANGED <<inLocations, inMoves, inScript>>

DeleteItem(p) ==
    /\ InAt(p, "deleteItem")
    /\ inItems' = [inItems EXCEPT ![inProc[p].id].gone = TRUE]
    /\ InDone(p)
    /\ UNCHANGED <<inLocations, inMoves, inOverlaid, inScript>>

\* importItemsCsv: a row updates the item with its barcode, or inserts one; a row
\* that the indexes refuse ends the import.  (A file of two rows is two requests.)
ImportRow(p) ==
    /\ InAt(p, "importItems")
    /\ LET new == Item(inProc[p].upc, inProc[p].modifier, NoShelf)
           same == {i \in DOMAIN inItems : InStock(i) /\ inItems[i].barcode = new.barcode}
       IN  inItems' =
             IF same = {}
             THEN IF Clashes(inItems, 0, new) THEN inItems ELSE Append(inItems, new)
             ELSE LET i == CHOOSE i \in same : TRUE
                      row == [new EXCEPT !.shelf = inItems[i].shelf]
                  IN  IF Clashes(inItems, i, row) THEN inItems ELSE [inItems EXCEPT ![i] = row]
    /\ InDone(p)
    /\ UNCHANGED <<inLocations, inMoves, inOverlaid, inScript>>
-----------------------------------------------------------------------------
(* Locations and moves.                                                    *)

CheckShelf(p) ==
    /\ InAt(p, "createLocation")
    /\ IF Shelved(inProc[p].from) # {} THEN InDone(p) ELSE InGo(p, "insertLocation")
    /\ UNCHANGED <<inItems, inLocations, inMoves, inOverlaid, inScript>>

InsertLocation(p) ==
    /\ InAt(p, "insertLocation")
    /\ inLocations' = IF Shelved(inProc[p].from) # {} THEN inLocations
                      ELSE Append(inLocations, Shelf(inProc[p].from))
    /\ InDone(p)
    /\ UNCHANGED <<inItems, inMoves, inOverlaid, inScript>>

\* A new code must be free; items and moves name the location by its id.
UpdateLocation(p) ==
    /\ InAt(p, "updateLocation")
    /\ inLocations' = [s \in DOMAIN inLocations |->
           IF s \in Shelved(inProc[p].from) /\ Shelved(inProc[p].to) = {}
           THEN [inLocations[s] EXCEPT !.code = inProc[p].to] ELSE inLocations[s]]
    /\ InDone(p)
    /\ UNCHANGED <<inItems, inMoves, inOverlaid, inScript>>

\* Nothing asks whether items or moves still name it.
DeleteLocation(p) ==
    /\ InAt(p, "deleteLocation")
    /\ inLocations' = [s \in DOMAIN inLocations |->
           [inLocations[s] EXCEPT !.gone = @ \/ s \in Shelved(inProc[p].from)]]
    /\ InDone(p)
    /\ UNCHANGED <<inItems, inMoves, inOverlaid, inScript>>

\* moveInventory: item and both locations are looked up together.
CheckMove(p) ==
    /\ InAt(p, "move")
    /\ LET from == Shelved(inProc[p].from)
           to == Shelved(inProc[p].to)
       IN  IF ~InStock(inProc[p].id) \/ from = {} \/ to = {} \/ from = to
           THEN InDone(p)
           ELSE inProc' = [inProc EXCEPT ![p].pc = "insertMove",
                                         ![p].source = CHOOSE s \in from : TRUE,
                                         ![p].goal = CHOOSE s \in to : TRUE]
    /\ UNCHANGED <<inItems, inLocations, inMoves, inOverlaid, inScript>>

InsertMove(p) ==
    /\ InAt(p, "insertMove")
    /\ inMoves' = Append(inMoves, [item |-> inProc[p].id, from |-> inProc[p].source,
                                   to |-> inProc[p].goal])
    /\ InDone(p)
    /\ UNCHANGED <<inItems, inLocations, inOverlaid, inScript>>
-----------------------------------------------------------------------------
InInit ==
    /\ \E s \in InScripts :
          /\ inItems = s.items /\ inLocations = s.locations
          /\ inScript = [ops |-> s.ops, left |-> s.left]
    /\ inMoves = <<>> /\ inOverlaid = {}
    /\ inProc = [p \in InProcs |-> InIdle]

InNext == \E p \in InProcs :
    \/ InArrive(p)
    \/ FindShelf(p) \/ InsertItem(p) \/ LoadItem(p) \/ SaveItem(p) \/ DeleteItem(p) \/ ImportRow(p)
    \/ CheckShelf(p) \/ InsertLocation(p) \/ UpdateLocation(p) \/ DeleteLocation(p)
    \/ CheckMove(p) \/ InsertMove(p)

InSpec == InInit /\ [][InNext]_inVars
-----------------------------------------------------------------------------
(* Properties.                                                             *)

\* The stored documents and the requests have their types.
InTypeOK ==
    /\ \A i \in DOMAIN inItems : inItems[i].upc \in Upcs /\ inItems[i].modifier \in Modifiers
    /\ \A s \in DOMAIN inLocations : inLocations[s].code \in Shelves
    /\ \A m \in DOMAIN inMoves :
          {inMoves[m].from, inMoves[m].to} \subseteq DOMAIN inLocations
    /\ inOverlaid \subseteq DOMAIN inItems
    /\ \A p \in InProcs : inProc[p].pc \in InOps \cup
          {"idle", "insertItem", "saveItem", "insertLocation", "insertMove"}

\* The barcode a scanner sends is that of the item's own upc and modifier, also
\* after updates of one field and imports that take an item over, unless two
\* updates overlapped (SaveItem: each computes it from the codes it has read).
BarcodeAgrees ==
    \A i \in DOMAIN inItems \ inOverlaid :
        inItems[i].barcode = Barcode(inItems[i].upc, inItems[i].modifier)
=============================================================================
