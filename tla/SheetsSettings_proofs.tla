------------------------ MODULE SheetsSettings_proofs ------------------------
(***************************************************************************)
(* Proofs about the Google Sheets settings, for any number of requests, any *)
(* operations and any well-formed documents they begin with, and about the  *)
(* wizard that sets a sheet up, for any spreadsheets and mappings: the      *)
(* active kind names a source, the mappings stored are good ones, browser   *)
(* and server name the same container, what the wizard saves was checked,   *)
(* and no document names a container that was never made.                   *)
(***************************************************************************)
EXTENDS SheetsChoice, SheetsSetup, FiniteSetTheorems, TLAPS

(* What the stored settings and a request under way look like.             *)
SgConnectors == [id : Nat, on : BOOLEAN, map : GoodMaps]
SgHalves == [on : BOOLEAN, activeId : Nat, held : Seq(SgConnectors)]
SgDocuments == [active : Kinds \cup {NoKind}, connected : BOOLEAN, half : [Kinds -> SgHalves]]
SgPcs == {"idle", "load", "resolve", "read", "save", "rows", "exchange", "drop", "peek", "back"}
SgCalls == [op : SgOps \cup {"none"}, kind : Kinds \cup {NoKind}, id : Nat,
            map : Maps \cup {SameMap}, flag : BOOLEAN]
SgRecords == [pc : SgPcs, req : SgCalls, doc : SgDocuments, version : Nat, id : Nat,
              map : Maps \cup {SameMap}, behind : BOOLEAN, wiped : BOOLEAN]

(* The containers of a kind, by their ids.                                  *)
HeldIds(half) == {half.held[i].id : i \in DOMAIN half.held}

(* The active kind, if any, is on and its active id names a container.      *)
Sound(doc) ==
    doc.active \in Kinds => /\ doc.half[doc.active].on
                            /\ doc.half[doc.active].activeId \in HeldIds(doc.half[doc.active])

(* What saves of single fields and pushes do to a document: a kind stays    *)
(* on, containers stay, and an active id changes only to name a container.  *)
Grown(old, new) ==
    \A k \in Kinds :
        /\ old.half[k].on => new.half[k].on
        /\ HeldIds(old.half[k]) \subseteq HeldIds(new.half[k])
        /\ new.half[k].activeId \in {old.half[k].activeId} \cup HeldIds(new.half[k])

-----------------------------------------------------------------------------
(* Documents.                                                              *)

(* What a sequence holds, at its places.                                    *)
LEMMA SgElement ==
    ASSUME NEW S, NEW q \in Seq(S)
    PROVE  /\ \A i \in DOMAIN q : q[i] \in S /\ i \in Nat \ {0}
           /\ Len(q) \in Nat /\ DOMAIN q = 1 .. Len(q)
OBVIOUS

(* One element more at the end of a sequence.                               *)
LEMMA SgAppended ==
    ASSUME NEW S, NEW q \in Seq(S), NEW x \in S
    PROVE  /\ Append(q, x) \in Seq(S) /\ DOMAIN q \subseteq DOMAIN Append(q, x)
           /\ \A i \in DOMAIN q : Append(q, x)[i] = q[i]
           /\ \E i \in DOMAIN Append(q, x) : Append(q, x)[i] = x
<1>1. /\ Append(q, x) \in Seq(S) /\ DOMAIN q \subseteq DOMAIN Append(q, x)
      /\ \A i \in DOMAIN q : Append(q, x)[i] = q[i]
  OBVIOUS
<1>2. Len(q) + 1 \in DOMAIN Append(q, x) /\ Append(q, x)[Len(q) + 1] = x
  OBVIOUS
<1> QED
  BY <1>1, <1>2

(* Another element at a place of a sequence.                                *)
LEMMA SgReplaced ==
    ASSUME NEW S, NEW q \in Seq(S), NEW at \in DOMAIN q, NEW x \in S
    PROVE  /\ [q EXCEPT ![at] = x] \in Seq(S) /\ DOMAIN [q EXCEPT ![at] = x] = DOMAIN q
           /\ \A i \in DOMAIN q : [q EXCEPT ![at] = x][i] = IF i = at THEN x ELSE q[i]
OBVIOUS

(* A half keeps its shape, field by field.                                  *)
LEMMA HalfIs ==
    ASSUME NEW doc \in SgDocuments, NEW k \in Kinds
    PROVE  /\ doc.half[k] \in SgHalves
           /\ doc.half[k].on \in BOOLEAN /\ doc.half[k].activeId \in Nat
           /\ doc.half[k].held \in Seq(SgConnectors)
           /\ \A i \in DOMAIN doc.half[k].held :
                 doc.half[k].held[i] \in SgConnectors /\ i \in Nat \ {0}
<1>1. doc.half[k] \in SgHalves
  BY DEF SgDocuments
<1>2. doc.half[k].held \in Seq(SgConnectors)
  BY <1>1 DEF SgHalves
<1> QED
  BY <1>1, <1>2, SgElement DEF SgHalves

(* Place finds a container by its id exactly when the half has one of that id.*)
LEMMA PlaceIs ==
    ASSUME NEW doc \in SgDocuments, NEW k \in Kinds, NEW id
    PROVE  LET held == doc.half[k].held IN
           /\ id \in HeldIds(doc.half[k]) <=> Place(held, id) # 0
           /\ Place(held, id) # 0 => Place(held, id) \in DOMAIN held /\ held[Place(held, id)].id = id
<1> DEFINE held == doc.half[k].held
<1>1. \A i \in DOMAIN held : i # 0
  BY HalfIs
<1>2. CASE \E i \in DOMAIN held : held[i].id = id
  BY <1>1, <1>2 DEF Place, HeldIds
<1>3. CASE ~ \E i \in DOMAIN held : held[i].id = id
  BY <1>1, <1>3 DEF Place, HeldIds
<1> QED
  BY <1>2, <1>3

(* A document grew from itself, and growth is transitive.                   *)
LEMMA GrownRefl == ASSUME NEW doc \in SgDocuments PROVE Grown(doc, doc)
BY DEF Grown

(* Growth after growth.                                                     *)
LEMMA GrownTrans ==
    ASSUME NEW a, NEW b, NEW c, Grown(a, b), Grown(b, c)
    PROVE  Grown(a, c)
BY DEF Grown

(* A document that grew stays sound while its active kind stays.            *)
LEMMA GrownSound ==
    ASSUME NEW old, NEW new, Sound(old), Grown(old, new), new.active = old.active
    PROVE  Sound(new)
BY DEF Sound, Grown

(* A field saved only if it was changed is the stored one or the new one.   *)
LEMMA SgWritten ==
    ASSUME NEW stored, NEW loaded, NEW new
    PROVE  Written(stored, loaded, new) \in {stored, new}
BY DEF Written

(* A container a reference resolves to is one of its kind's.                *)
LEMMA ByRefGives ==
    ASSUME NEW doc \in SgDocuments, NEW k \in Kinds, NEW id, NEW c \in ByRef(doc, k, id)
    PROVE  c \in SgConnectors /\ c.id \in HeldIds(doc.half[k])
<1> DEFINE half == doc.half[k]
           named == IF id # 0 THEN id ELSE half.activeId
           at == Place(half.held, named)
<1>1. at # 0 /\ c = half.held[at]
  BY DEF ByRef
<1>2. at \in DOMAIN half.held
  BY <1>1, PlaceIs
<1> QED
  BY <1>1, <1>2, HalfIs DEF HeldIds

(* The container fallen back on, when there is one, is of its kind.         *)
LEMMA FallbackGives ==
    ASSUME NEW doc \in SgDocuments, NEW k \in Kinds, NEW id
    PROVE  LET at == Fallback(doc.half[k], id) IN at # 0 => at \in DOMAIN doc.half[k].held
<1> DEFINE half == doc.half[k]
           held == half.held
<1>1. Place(held, id) # 0 => Place(held, id) \in DOMAIN held
  BY PlaceIs
<1>2. Place(held, half.activeId) # 0 => Place(held, half.activeId) \in DOMAIN held
  BY PlaceIs
<1>3. held # <<>> => 1 \in DOMAIN held
  BY HalfIs
<1>4. Fallback(half, id) \in {Place(held, id), Place(held, half.activeId), 0}
         \/ (Fallback(half, id) = 1 /\ held # <<>>)
  BY DEF Fallback
<1> QED
  BY <1>1, <1>2, <1>3, <1>4

(* Saving only the fields that differ from the loaded ones.                 *)
LEMMA FieldsGive ==
    ASSUME NEW stored \in SgDocuments, NEW loaded \in SgDocuments, NEW new \in SgDocuments
    PROVE  LET doc == Fields(stored, loaded, new) IN
           /\ doc \in SgDocuments
           /\ doc.active = Written(stored.active, loaded.active, new.active)
           /\ \A k \in Kinds :
                 /\ doc.half[k].on = Written(stored.half[k].on, loaded.half[k].on, new.half[k].on)
                 /\ doc.half[k].activeId = Written(stored.half[k].activeId, loaded.half[k].activeId,
                                                   new.half[k].activeId)
                 /\ doc.half[k].held = stored.half[k].held
<1> DEFINE doc == Fields(stored, loaded, new)
<1>1. /\ doc.active = Written(stored.active, loaded.active, new.active)
      /\ doc.connected = Written(stored.connected, loaded.connected, new.connected)
      /\ \A k \in Kinds :
            /\ doc.half[k].on = Written(stored.half[k].on, loaded.half[k].on, new.half[k].on)
            /\ doc.half[k].activeId = Written(stored.half[k].activeId, loaded.half[k].activeId,
                                              new.half[k].activeId)
            /\ doc.half[k].held = stored.half[k].held
  BY DEF Fields
<1>2. /\ stored.active \in Kinds \cup {NoKind} /\ new.active \in Kinds \cup {NoKind}
      /\ stored.connected \in BOOLEAN /\ new.connected \in BOOLEAN
  BY DEF SgDocuments
<1>3. doc.active \in Kinds \cup {NoKind} /\ doc.connected \in BOOLEAN
  BY <1>1, <1>2 DEF Written
<1>4. ASSUME NEW k \in Kinds
      PROVE  /\ doc.half[k].on \in BOOLEAN /\ doc.half[k].activeId \in Nat
             /\ doc.half[k].held \in Seq(SgConnectors)
  <2>1. /\ stored.half[k].on \in BOOLEAN /\ new.half[k].on \in BOOLEAN
        /\ stored.half[k].activeId \in Nat /\ new.half[k].activeId \in Nat
        /\ stored.half[k].held \in Seq(SgConnectors)
    BY HalfIs
  <2>2. doc.half[k].on \in {stored.half[k].on, new.half[k].on}
        /\ doc.half[k].activeId \in {stored.half[k].activeId, new.half[k].activeId}
    BY <1>1, SgWritten, Zenon
  <2> QED
    BY <1>1, <2>1, <2>2
<1>5. doc.half \in [Kinds -> SgHalves]
  BY <1>4 DEF Fields, SgHalves
<1>6. doc \in SgDocuments
  BY <1>3, <1>5 DEF SgDocuments, Fields
<1> QED
  BY <1>1, <1>6

(* Such a save, of a change that turns kinds on and gives them active ids   *)
(* that name containers, lets the stored document grow, though it has grown *)
(* since it was loaded.                                                     *)
LEMMA FieldsGrow ==
    ASSUME NEW stored \in SgDocuments, NEW loaded \in SgDocuments, NEW new \in SgDocuments,
           Grown(loaded, stored), Grown(loaded, new),
           NEW doc \in SgDocuments,
           \A k \in Kinds :
              /\ doc.half[k].on = Written(stored.half[k].on, loaded.half[k].on, new.half[k].on)
              /\ doc.half[k].activeId = Written(stored.half[k].activeId, loaded.half[k].activeId,
                                                new.half[k].activeId)
              /\ HeldIds(stored.half[k]) \subseteq HeldIds(doc.half[k])
              /\ new.half[k].activeId \in {loaded.half[k].activeId} \cup HeldIds(doc.half[k])
    PROVE  Grown(stored, doc)
<1> SUFFICES ASSUME NEW k \in Kinds
             PROVE  /\ stored.half[k].on => doc.half[k].on
                    /\ doc.half[k].activeId \in {stored.half[k].activeId} \cup HeldIds(doc.half[k])
  BY DEF Grown
<1>1. stored.half[k].on => doc.half[k].on
  <2>1. stored.half[k].on \in BOOLEAN /\ loaded.half[k].on \in BOOLEAN /\ new.half[k].on \in BOOLEAN
    BY HalfIs
  <2>2. loaded.half[k].on => new.half[k].on
    BY DEF Grown
  <2> QED
    BY <2>1, <2>2 DEF Written
<1>2. doc.half[k].activeId \in {stored.half[k].activeId} \cup HeldIds(doc.half[k])
  BY DEF Written
<1> QED
  BY <1>1, <1>2

(* Activating a kind turns it on, active, with the active id asked for.     *)
LEMMA ActivatedGives ==
    ASSUME NEW doc \in SgDocuments, NEW req, req.kind \in Kinds, NEW id \in Nat,
           NEW new, new = ActivatedAs(doc, req, id)
    PROVE  /\ new \in SgDocuments /\ new.active = req.kind
           /\ new.half[req.kind].on /\ new.half[req.kind].activeId = id
           /\ \A k \in Kinds : /\ new.half[k].held = doc.half[k].held
                               /\ k # req.kind => new.half[k] = doc.half[k]
<1>1. doc.half[req.kind] \in SgHalves
  BY DEF SgDocuments
<1> QED
  BY <1>1 DEF ActivatedAs, SgDocuments, SgHalves

(* Creating a connector turns its kind on, with an active id if it had none.*)
LEMMA CreatedGives ==
    ASSUME NEW doc \in SgDocuments, NEW kind \in Kinds, NEW id \in Nat,
           NEW new, new = CreatedIn(doc, kind, id)
    PROVE  /\ new \in SgDocuments /\ new.active = doc.active
           /\ new.half[kind].on
           /\ new.half[kind].activeId \in {doc.half[kind].activeId, id}
           /\ \A k \in Kinds : /\ new.half[k].held = doc.half[k].held
                               /\ k # kind => new.half[k] = doc.half[k]
<1>1. doc.half[kind] \in SgHalves
  BY DEF SgDocuments
<1> QED
  BY <1>1 DEF CreatedIn, SgDocuments, SgHalves

(* A container more, and a container replaced by one of the same id: what   *)
(* the rest of the document has stays.                                      *)
WithPushed(doc, kind, c) == [doc EXCEPT !.half[kind].held = Append(@, c)]
WithPut(doc, kind, at, c) == [doc EXCEPT !.half[kind].held = [@ EXCEPT ![at] = c]]
Extended(old, new) ==
    /\ new \in SgDocuments /\ new.active = old.active
    /\ \A k \in Kinds : /\ new.half[k].on = old.half[k].on
                        /\ new.half[k].activeId = old.half[k].activeId
                        /\ HeldIds(old.half[k]) \subseteq HeldIds(new.half[k])

(* Other containers of a kind that hold the ids of the old ones.            *)
LEMMA HeldGives ==
    ASSUME NEW doc \in SgDocuments, NEW kind \in Kinds, NEW held \in Seq(SgConnectors), NEW new,
           new = [doc EXCEPT !.half[kind].held = held],
           HeldIds(doc.half[kind]) \subseteq {held[i].id : i \in DOMAIN held}
    PROVE  Extended(doc, new) /\ new.half[kind].held = held
<1>1. doc.half[kind] \in SgHalves
  BY HalfIs
<1>2. /\ new.active = doc.active /\ new.half[kind].held = held
      /\ \A k \in Kinds : /\ new.half[k].on = doc.half[k].on
                          /\ new.half[k].activeId = doc.half[k].activeId
                          /\ k # kind => new.half[k] = doc.half[k]
  BY <1>1 DEF SgDocuments, SgHalves
<1>3. new \in SgDocuments
  <2>1. [doc.half[kind] EXCEPT !.held = held] \in SgHalves
    BY <1>1 DEF SgHalves
  <2>2. new = [doc EXCEPT !.half = [doc.half EXCEPT ![kind] = [doc.half[kind] EXCEPT !.held = held]]]
    OBVIOUS
  <2> QED
    BY <2>1, <2>2 DEF SgDocuments
<1>4. HeldIds(doc.half[kind]) \subseteq HeldIds(new.half[kind])
  <2>1. HeldIds(new.half[kind]) = {held[i].id : i \in DOMAIN held}
    <3> DEFINE half == new.half[kind]
    <3>1. half.held = held
      BY <1>2
    <3> HIDE DEF half
    <3> QED
      BY <3>1 DEF HeldIds, half
  <2> QED
    BY <2>1
<1>5. \A k \in Kinds : HeldIds(doc.half[k]) \subseteq HeldIds(new.half[k])
  BY <1>2, <1>4
<1> QED
  BY <1>2, <1>3, <1>5 DEF Extended

(* A container pushed.                                                      *)
LEMMA PushGives ==
    ASSUME NEW doc \in SgDocuments, NEW kind \in Kinds, NEW c \in SgConnectors
    PROVE  /\ Extended(doc, WithPushed(doc, kind, c))
           /\ c.id \in HeldIds(WithPushed(doc, kind, c).half[kind])
<1> DEFINE held == Append(doc.half[kind].held, c)
           new == WithPushed(doc, kind, c)
<1>1. doc.half[kind].held \in Seq(SgConnectors)
  BY HalfIs
<1>2. /\ held \in Seq(SgConnectors)
      /\ \A i \in DOMAIN doc.half[kind].held :
            i \in DOMAIN held /\ held[i] = doc.half[kind].held[i]
      /\ \E i \in DOMAIN held : held[i] = c
  BY <1>1, SgAppended
<1>3. new = [doc EXCEPT !.half[kind].held = held]
  BY DEF WithPushed
<1> HIDE DEF held, new
<1>4. HeldIds(doc.half[kind]) \subseteq {held[i].id : i \in DOMAIN held}
  BY <1>2 DEF HeldIds
<1>5. Extended(doc, new) /\ new.half[kind].held = held
  BY <1>2, <1>3, <1>4, HeldGives
<1>6. c.id \in HeldIds(new.half[kind])
  BY <1>2, <1>5 DEF HeldIds
<1> QED
  BY <1>5, <1>6 DEF new

(* A container replaced by one of the same id.                              *)
LEMMA PutGives ==
    ASSUME NEW doc \in SgDocuments, NEW kind \in Kinds, NEW at \in DOMAIN doc.half[kind].held,
           NEW c \in SgConnectors, c.id = doc.half[kind].held[at].id
    PROVE  /\ Extended(doc, WithPut(doc, kind, at, c))
           /\ c.id \in HeldIds(WithPut(doc, kind, at, c).half[kind])
<1> DEFINE held == [doc.half[kind].held EXCEPT ![at] = c]
           new == WithPut(doc, kind, at, c)
<1>1. doc.half[kind].held \in Seq(SgConnectors)
  BY HalfIs
<1>2. /\ held \in Seq(SgConnectors) /\ DOMAIN held = DOMAIN doc.half[kind].held
      /\ \A i \in DOMAIN held : held[i] = IF i = at THEN c ELSE doc.half[kind].held[i]
  BY <1>1, SgReplaced
<1>3. new = [doc EXCEPT !.half[kind].held = held]
  BY DEF WithPut
<1> HIDE DEF held, new
<1>4. \A i \in DOMAIN held : held[i].id = doc.half[kind].held[i].id
  BY <1>2
<1>5. HeldIds(doc.half[kind]) \subseteq {held[i].id : i \in DOMAIN held}
  BY <1>2, <1>4 DEF HeldIds
<1>6. Extended(doc, new) /\ new.half[kind].held = held
  BY <1>2, <1>3, <1>5, HeldGives
<1>7. c.id \in HeldIds(new.half[kind])
  BY <1>2, <1>6 DEF HeldIds
<1> QED
  BY <1>6, <1>7 DEF new

(* Clearing a kind leaves it off; the other kind stays.                     *)
LEMMA ClearedGives ==
    /\ Cleared \in SgDocuments /\ Sound(Cleared)
    /\ \A a \in Kinds \cup {NoKind} : [Cleared EXCEPT !.active = a] \in SgDocuments
<1>1. Unset \in SgHalves
  BY DEF Unset, SgHalves
<1>2. Cleared \in SgDocuments
  BY <1>1 DEF Cleared, SgDocuments
<1>3. \A a \in Kinds \cup {NoKind} : [Cleared EXCEPT !.active = a] \in SgDocuments
  BY <1>2 DEF SgDocuments
<1>4. Sound(Cleared)
  BY DEF Sound, Cleared, NoKind, Kinds
<1> QED
  BY <1>2, <1>3, <1>4

(* A commit writes a mapped connector and, asked to, activates it.          *)
LEMMA CommittedGives ==
    ASSUME NEW doc \in SgDocuments, NEW req \in SgCalls, req.kind \in Kinds, req.map \in GoodMaps,
           NEW new \in Nat
    PROVE  LET done == CommittedAs(doc, req, new) IN
           done \in SgDocuments /\ (Sound(doc) => Sound(done))
<1> DEFINE half == doc.half[req.kind]
           at == Fallback(half, req.id)
           id == IF at = 0 THEN new ELSE half.held[at].id
           connector == [id |-> id, on |-> TRUE, map |-> req.map]
           kept == [doc EXCEPT !.half[req.kind].held =
                       IF at = 0 THEN Append(@, connector) ELSE [@ EXCEPT ![at] = connector]]
<1>1. at # 0 => at \in DOMAIN half.held /\ half.held[at] \in SgConnectors
  BY FallbackGives, HalfIs
<1>2. id \in Nat
  BY <1>1 DEF SgConnectors
<1>3. connector \in SgConnectors /\ connector.id = id
  BY <1>2 DEF SgConnectors
<1> HIDE DEF connector
<1>4. Extended(doc, kept) /\ id \in HeldIds(kept.half[req.kind])
  <2>1. CASE at = 0
    <3>1. kept = WithPushed(doc, req.kind, connector)
      BY <2>1 DEF WithPushed
    <3> HIDE DEF kept, id
    <3> QED
      BY <1>3, <3>1, PushGives
  <2>2. CASE at # 0
    <3>1. kept = WithPut(doc, req.kind, at, connector)
      BY <2>2 DEF WithPut
    <3>2. connector.id = half.held[at].id
      BY <1>3, <2>2
    <3> HIDE DEF kept, id, at
    <3> QED
      BY <1>1, <1>3, <2>2, <3>1, <3>2, PutGives
  <2> QED
    BY <2>1, <2>2
<1> DEFINE done == CommittedAs(doc, req, new)
<1>5. done = IF req.flag THEN ActivatedAs(kept, req, id) ELSE kept
  BY DEF CommittedAs, connector
<1> HIDE DEF kept, id, done
<1>6. kept \in SgDocuments
  BY <1>4 DEF Extended
<1>7. CASE req.flag
  <2>1. done = ActivatedAs(kept, req, id)
    BY <1>5, <1>7
  <2>2. /\ done \in SgDocuments /\ done.active = req.kind
        /\ done.half[req.kind].on /\ done.half[req.kind].activeId = id
        /\ done.half[req.kind].held = kept.half[req.kind].held
    BY <1>2, <1>6, <2>1, ActivatedGives
  <2>3. Sound(done)
    BY <1>4, <2>2 DEF Sound, HeldIds
  <2> QED
    BY <2>2, <2>3 DEF done
<1>8. CASE ~req.flag
  <2>1. done = kept
    BY <1>5, <1>8
  <2>2. Grown(doc, kept) /\ kept.active = doc.active
    BY <1>4 DEF Grown, Extended
  <2> QED
    BY <1>6, <2>1, <2>2, GrownSound DEF done
<1> QED
  BY <1>7, <1>8

(* A clean-up leaves a kind active only if it is on and names a container.  *)
LEMMA CleanedGives ==
    ASSUME NEW doc \in SgDocuments
    PROVE  Cleaned(doc) \in SgDocuments /\ Sound(Cleaned(doc))
<1> DEFINE half == [k \in Kinds |->
                       [doc.half[k] EXCEPT
                           !.on = @ \/ doc.half[k].held # <<>>,
                           !.activeId = IF Place(doc.half[k].held, @) = 0 THEN 0 ELSE @]]
           Ready(k) == half[k].activeId # 0
                       /\ half[k].held[Place(half[k].held, half[k].activeId)].on
           ready == {k \in Kinds : Ready(k)}
           active == IF doc.active \in ready THEN doc.active
                     ELSE IF Cardinality(ready) = 1 THEN CHOOSE k \in ready : TRUE
                     ELSE NoKind
           done == [doc EXCEPT !.half = half, !.active = active]
<1>1. Cleaned(doc) = done
  BY DEF Cleaned
<1>2. ASSUME NEW k \in Kinds
      PROVE  /\ half[k] \in SgHalves /\ half[k].held = doc.half[k].held
             /\ half[k].activeId # 0 => half[k].on /\ half[k].activeId \in HeldIds(half[k])
  <2>1. doc.half[k] \in SgHalves
    BY HalfIs
  <2>2. /\ half[k] \in SgHalves /\ half[k].held = doc.half[k].held
        /\ half[k].on <=> doc.half[k].on \/ doc.half[k].held # <<>>
        /\ half[k].activeId = IF Place(doc.half[k].held, doc.half[k].activeId) = 0 THEN 0
                              ELSE doc.half[k].activeId
    BY <2>1 DEF SgHalves
  <2>3. ASSUME half[k].activeId # 0
        PROVE  half[k].on /\ half[k].activeId \in HeldIds(half[k])
    <3>1. Place(doc.half[k].held, doc.half[k].activeId) # 0
          /\ half[k].activeId = doc.half[k].activeId
      BY <2>2, <2>3
    <3> HIDE DEF half
    <3>2. doc.half[k].activeId \in HeldIds(doc.half[k])
      BY <3>1, PlaceIs
    <3>3. doc.half[k].held # <<>>
      BY <3>2 DEF HeldIds
    <3> QED
      BY <2>2, <3>1, <3>2, <3>3 DEF HeldIds
  <2> HIDE DEF half
  <2> QED
    BY <2>2, <2>3
<1>3. half \in [Kinds -> SgHalves]
  <2>1. DOMAIN half = Kinds /\ half = [k \in Kinds |-> half[k]]
    OBVIOUS
  <2> HIDE DEF half
  <2> QED
    BY <1>2, <2>1
<1> HIDE DEF half
<1>4. active \in ready \cup {NoKind}
  <2>1. CASE Cardinality(ready) = 1
    <3>1. ready # {}
      <4>1. Cardinality({}) = 0
        BY FS_EmptySet
      <4> HIDE DEF ready
      <4> QED
        BY <2>1, <4>1
    <3> QED
      BY <3>1
  <2> QED
    BY <2>1
<1>5. ready \subseteq Kinds /\ \A k \in ready : half[k].activeId # 0
  OBVIOUS
<1>6. NoKind \notin Kinds
  BY DEF NoKind, Kinds
<1> HIDE DEF active, ready
<1>7. /\ done \in SgDocuments /\ done.active = active /\ done.half = half
  BY <1>3, <1>4, <1>5 DEF SgDocuments
<1>8. Sound(done)
  BY <1>2, <1>4, <1>5, <1>6, <1>7 DEF Sound
<1> QED
  BY <1>1, <1>7, <1>8

(* What a request names, and what it has made sure of at each step.         *)
Given(req) ==
    /\ req.op \in {"activate", "create", "update", "commit", "stage"} => req.kind \in Kinds
    /\ req.op = "debug" /\ req.id # 0 => req.kind \in Kinds
    /\ req.op \in {"create", "commit"} => req.map \in Maps
SgCheckedAt(s) ==
    /\ Given(s.req)
    /\ s.pc = "exchange" => s.req.op = "connect"
    /\ s.pc = "load" => s.req.op \notin {"debug", "import", "disconnect", "status", "none"}
    /\ s.pc = "resolve" => s.req.op \in {"activate", "debug", "import"}
    /\ s.pc = "save" /\ s.req.op \in {"create", "update", "commit"} => s.map \in GoodMaps
    /\ s.pc \in {"read", "save"} /\ s.req.op = "commit" => s.map = s.req.map
    /\ s.pc \in {"read", "save"} /\ s.req.op = "update" =>
          Place(s.doc.half[s.req.kind].held, s.req.id) # 0
    /\ s.pc = "rows" \/ (s.pc = "read" /\ s.req.op = "import") => s.map \in GoodMaps

(* A request that is to save has the stored document at hand unless another *)
(* save came after; then the stored one has grown out of it, unless one of  *)
(* those was of a whole subtree.                                            *)
HasLoaded(s) ==
    /\ s.pc \in {"resolve", "read", "drop", "save"}
    /\ s.req.op \notin {"debug", "import", "disconnect"}
Abreast(s, doc) ==
    /\ HasLoaded(s) /\ ~s.behind => s.doc = doc
    /\ HasLoaded(s) /\ ~s.wiped => Grown(s.doc, doc)
    /\ s.req.op = "activate" /\ s.pc \in {"read", "save"} /\ ~s.wiped =>
          s.id \in HeldIds(doc.half[s.req.kind])

SgShape ==
    /\ sgDoc \in SgDocuments /\ sgMade \in Nat /\ sgVersion \in Nat /\ sgRaced \in BOOLEAN
    /\ sgSecret \in Nat /\ sgTokens \in Nat
    /\ sgProc \in [SgProcs -> SgRecords]
SgChecks == \A p \in SgProcs : SgCheckedAt(sgProc[p])
SgSteady == ~sgRaced => Sound(sgDoc) /\ \A p \in SgProcs : Abreast(sgProc[p], sgDoc)
SgInv == SgShape /\ SgChecks /\ SgSteady

-----------------------------------------------------------------------------
(* Steps.                                                                  *)

(* A request not begun has nothing to keep.                                 *)
LEMMA IdleIs == SgIdle \in SgRecords /\ SgCheckedAt(SgIdle) /\ \A doc : Abreast(SgIdle, doc)
<1>1. NoRequest \in SgCalls
  BY DEF NoRequest, SgCalls, NoKind, SameMap
<1>2. Cleared \in SgDocuments
  BY ClearedGives
<1>3. SgIdle \in SgRecords
  BY <1>1, <1>2 DEF SgIdle, SgRecords, SgPcs
<1>4. SgCheckedAt(SgIdle)
  BY DEF SgCheckedAt, Given, SgIdle, NoRequest
<1>5. \A doc : Abreast(SgIdle, doc)
  BY DEF Abreast, HasLoaded, SgIdle, NoRequest
<1> QED
  BY <1>3, <1>4, <1>5

(* What the invariant says of one request.                                  *)
LEMMA RecordIs ==
    ASSUME SgInv, NEW p \in SgProcs
    PROVE  /\ sgProc[p] \in SgRecords /\ SgCheckedAt(sgProc[p])
           /\ ~sgRaced => Abreast(sgProc[p], sgDoc)
           /\ sgProc[p].doc \in SgDocuments /\ sgProc[p].req \in SgCalls /\ sgProc[p].id \in Nat
           /\ sgProc[p].req.kind \in Kinds \cup {NoKind} /\ sgProc[p].req.id \in Nat
           /\ sgProc[p].map \in Maps \cup {SameMap}
<1>1. sgProc[p] \in SgRecords /\ SgCheckedAt(sgProc[p]) /\ (~sgRaced => Abreast(sgProc[p], sgDoc))
  BY DEF SgInv, SgShape, SgChecks, SgSteady
<1> QED
  BY <1>1 DEF SgRecords, SgCalls

(* A step that moves one request and leaves the settings alone.             *)
LEMMA SgMoves ==
    ASSUME SgInv, NEW p \in SgProcs, NEW new, SgSet(p, new), new \in SgRecords, SgCheckedAt(new),
           ~sgRaced => Abreast(new, sgDoc),
           sgDoc' = sgDoc, sgMade' = sgMade, sgVersion' = sgVersion, sgRaced' = sgRaced,
           sgSecret' \in Nat, sgTokens' \in Nat
    PROVE  SgInv'
<1>1. sgProc' = [sgProc EXCEPT ![p] = new]
  BY DEF SgSet
<1>2. sgProc' \in [SgProcs -> SgRecords]
      /\ \A q \in SgProcs : sgProc'[q] = IF q = p THEN new ELSE sgProc[q]
  BY <1>1 DEF SgInv, SgShape
<1>3. SgShape'
  BY <1>2 DEF SgInv, SgShape
<1>4. SgChecks'
  BY <1>2 DEF SgInv, SgChecks
<1>5. SgSteady'
  BY <1>2 DEF SgInv, SgSteady
<1> QED
  BY <1>3, <1>4, <1>5 DEF SgInv

(* A request that ends leaves the settings alone.                           *)
LEMMA SgStops ==
    ASSUME SgInv, NEW p \in SgProcs, SgDone(p),
           sgDoc' = sgDoc, sgMade' = sgMade, sgVersion' = sgVersion, sgRaced' = sgRaced,
           sgSecret' \in Nat, sgTokens' \in Nat
    PROVE  SgInv'
BY IdleIs, SgMoves DEF SgDone

(* A save: the others are behind now, and after a whole write they are to   *)
(* be excused; else the document has grown under them.                      *)
LEMMA SgStores ==
    ASSUME SgInv, NEW p \in SgProcs, NEW doc \in SgDocuments, NEW whole \in BOOLEAN,
           Store(p, doc, whole),
           ~sgRaced /\ ~sgProc[p].wiped /\ ~(whole /\ sgProc[p].behind) =>
               Sound(doc) /\ (whole \/ Grown(sgDoc, doc)),
           sgMade' \in Nat, sgVersion' \in Nat
    PROVE  SgInv'
<1>1. sgDoc' = doc /\ sgProc' = Overtaken(p, whole)
      /\ sgRaced' = (sgRaced \/ (whole /\ sgProc[p].behind) \/ sgProc[p].wiped)
  BY DEF Store
<1> DEFINE Late(q) == q # p /\ sgProc[q].pc \in {"resolve", "read", "drop", "save"}
<1>2. DOMAIN sgProc' = SgProcs /\ sgProc' = [q \in SgProcs |-> sgProc'[q]]
      /\ sgProc'[p] = SgIdle
      /\ \A q \in SgProcs :
            /\ Late(q) => sgProc'[q] = [sgProc[q] EXCEPT !.behind = TRUE, !.wiped = @ \/ whole]
            /\ ~Late(q) /\ q # p => sgProc'[q] = sgProc[q]
  BY <1>1 DEF Overtaken
<1>3. ASSUME NEW q \in SgProcs, Late(q)
      PROVE  /\ sgProc'[q] \in SgRecords
             /\ sgProc'[q].pc = sgProc[q].pc /\ sgProc'[q].req = sgProc[q].req
             /\ sgProc'[q].doc = sgProc[q].doc /\ sgProc'[q].id = sgProc[q].id
             /\ sgProc'[q].map = sgProc[q].map
             /\ sgProc'[q].behind /\ (sgProc'[q].wiped <=> sgProc[q].wiped \/ whole)
  <2>1. sgProc[q] \in SgRecords
    BY RecordIs
  <2>2. sgProc'[q] = [sgProc[q] EXCEPT !.behind = TRUE, !.wiped = @ \/ whole]
    BY <1>2, <1>3
  <2>3. (sgProc[q].wiped \/ whole) \in BOOLEAN
    OBVIOUS
  <2> QED
    BY <2>1, <2>2, <2>3 DEF SgRecords
<1>4. SgShape'
  <2>1. \A q \in SgProcs : sgProc'[q] \in SgRecords
    BY <1>2, <1>3, IdleIs, RecordIs
  <2>2. sgProc' \in [SgProcs -> SgRecords]
    BY <1>2, <2>1
  <2>3. sgRaced' \in BOOLEAN
    BY <1>1
  <2>4. sgSecret' \in Nat /\ sgTokens' \in Nat
    BY DEF Store, SgInv, SgShape
  <2> QED
    BY <1>1, <2>2, <2>3, <2>4 DEF SgShape
<1>5. SgChecks'
  <2> SUFFICES ASSUME NEW q \in SgProcs
               PROVE  SgCheckedAt(sgProc'[q])
    BY DEF SgChecks
  <2>1. CASE Late(q)
    BY <1>3, <2>1, RecordIs DEF SgCheckedAt
  <2>2. CASE ~Late(q)
    BY <1>2, <2>2, IdleIs, RecordIs
  <2> QED
    BY <2>1, <2>2
<1>6. SgSteady'
  <2> SUFFICES ASSUME ~sgRaced'
               PROVE  Sound(doc) /\ \A q \in SgProcs : Abreast(sgProc'[q], doc)
    BY <1>1 DEF SgSteady
  <2>1. ~sgRaced /\ Sound(doc) /\ (whole \/ Grown(sgDoc, doc))
    BY <1>1
  <2> SUFFICES ASSUME NEW q \in SgProcs
               PROVE  Abreast(sgProc'[q], doc)
    BY <2>1
  <2>2. CASE q = p
    BY <1>2, <2>2, IdleIs
  <2>3. CASE ~Late(q) /\ q # p
    <3>1. sgProc'[q] = sgProc[q] /\ sgProc[q].pc \notin {"resolve", "read", "drop", "save"}
      BY <1>2, <2>3
    <3> QED
      BY <3>1 DEF Abreast, HasLoaded
  <2>4. CASE Late(q)
    <3>1. Abreast(sgProc[q], sgDoc)
      BY <2>1, RecordIs
    <3>2. CASE whole
      BY <1>3, <2>4, <3>2 DEF Abreast
    <3>3. CASE ~whole
      <4>1. Grown(sgDoc, doc)
        BY <2>1, <3>3
      <4>2. HasLoaded(sgProc[q]) /\ ~sgProc[q].wiped => Grown(sgProc[q].doc, doc)
        BY <3>1, <4>1, GrownTrans DEF Abreast
      <4>3. \A k \in Kinds : HeldIds(sgDoc.half[k]) \subseteq HeldIds(doc.half[k])
        BY <4>1 DEF Grown
      <4>4. sgProc[q].req.op = "activate" => sgProc[q].req.kind \in Kinds
        BY RecordIs DEF SgCheckedAt, Given
      <4> QED
        BY <1>3, <2>4, <3>1, <3>3, <4>2, <4>3, <4>4 DEF Abreast, HasLoaded
    <3> QED
      BY <3>2, <3>3
  <2> QED
    BY <2>2, <2>3, <2>4
<1> QED
  BY <1>4, <1>5, <1>6 DEF SgInv

(* A request that moves to another step, and else keeps what it had.        *)
LEMMA SgGoes ==
    ASSUME NEW s \in SgRecords, NEW pc \in SgPcs
    PROVE  LET new == [s EXCEPT !.pc = pc] IN
           /\ new \in SgRecords /\ new.pc = pc /\ new.req = s.req /\ new.doc = s.doc /\ new.id = s.id
           /\ new.map = s.map /\ new.behind = s.behind /\ new.wiped = s.wiped
BY DEF SgRecords

(* The requests a browser can send are calls of an operation.               *)
LEMMA RequestsAreGiven ==
    ASSUME SgInv, NEW req \in Requests
    PROVE  req \in SgCalls /\ Given(req) /\ req.op \in SgOps
<1>1. sgMade \in Nat
  BY DEF SgInv, SgShape
<1>2. \A id \in Ids : id \in Nat
  BY <1>1 DEF Ids
<1>3. /\ req.op \in SgOps /\ req.kind \in Kinds \cup {NoKind} /\ req.map \in Maps \cup {SameMap}
      /\ req.flag \in BOOLEAN /\ req.id \in Nat
  <2>1. req.op \in SgOps
    BY DEF Requests, SgOps
  <2>2. req.kind \in Kinds \cup {NoKind}
    BY DEF Requests
  <2>3. req.map \in Maps \cup {SameMap}
    BY DEF Requests
  <2>4. req.flag \in BOOLEAN
    BY DEF Requests
  <2>5. req.id \in Nat
    <3>1. req.id \in Ids \cup {0}
      BY DEF Requests
    <3> QED
      BY <1>2, <3>1
  <2> QED
    BY <2>1, <2>2, <2>3, <2>4, <2>5
<1>4. req = [op |-> req.op, kind |-> req.kind, id |-> req.id, map |-> req.map, flag |-> req.flag]
  BY DEF Requests
<1>5. req \in SgCalls
  BY <1>3, <1>4 DEF SgCalls
<1>6. Given(req)
  BY DEF Requests, Given
<1> QED
  BY <1>3, <1>5, <1>6

(* A request begins.                                                        *)
LEMMA BeginKeeps ==
    ASSUME SgInv, NEW p \in SgProcs, NEW req \in Requests, Begin(p, req)
    PROVE  SgInv'
<1> DEFINE new == [SgIdle EXCEPT !.pc = FirstStep(req.op), !.req = req]
<1>1. req \in SgCalls /\ Given(req) /\ req.op \in SgOps
  BY RequestsAreGiven
<1>2. FirstStep(req.op) \in {"load", "resolve", "exchange", "drop", "peek"}
      /\ (FirstStep(req.op) = "resolve" => req.op \in {"debug", "import"})
      /\ (FirstStep(req.op) = "drop" => req.op = "disconnect")
      /\ (FirstStep(req.op) = "exchange" => req.op = "connect")
      /\ (FirstStep(req.op) = "load" => req.op \notin {"debug", "import", "disconnect", "status"})
  BY DEF FirstStep
<1>3. new \in SgRecords /\ new.pc = FirstStep(req.op) /\ new.req = req
  BY <1>1, <1>2, IdleIs DEF SgRecords, SgPcs
<1> HIDE DEF new
<1>4. SgCheckedAt(new)
  BY <1>1, <1>2, <1>3 DEF SgCheckedAt, SgOps
<1>5. Abreast(new, sgDoc)
  BY <1>2, <1>3 DEF Abreast, HasLoaded
<1>6. sgSecret' \in Nat /\ sgTokens' \in Nat
  BY DEF Begin, SgInv, SgShape
<1> QED
  BY <1>3, <1>4, <1>5, <1>6, SgMoves DEF Begin, new

(* The mapping that is checked against the sheet is one a user sent.        *)
LEMMA CheckedMapIs ==
    ASSUME NEW doc \in SgDocuments, NEW req \in SgCalls, req.kind \in Kinds
    PROVE  LET map == CheckedMap(req, doc.half[req.kind]) IN
           /\ map \in Maps \cup {SameMap}
           /\ req.map \in Maps => map = req.map
<1> DEFINE half == doc.half[req.kind]
           at == IF req.op = "update" THEN Place(half.held, req.id) ELSE Fallback(half, req.id)
<1>1. at # 0 => at \in DOMAIN half.held
  BY PlaceIs, FallbackGives
<1>2. at # 0 => half.held[at] \in SgConnectors
  BY <1>1, HalfIs
<1>3. CheckedMap(req, half) = IF req.map # SameMap \/ at = 0 THEN req.map ELSE half.held[at].map
  BY DEF CheckedMap
<1> HIDE DEF at
<1>4. req.map \in Maps \cup {SameMap} /\ GoodMaps \subseteq Maps /\ SameMap \notin Maps
  BY SheetsSettingsAssumption DEF SgCalls
<1> QED
  BY <1>2, <1>3, <1>4 DEF SgConnectors

(* A request loads the settings.                                            *)
LEMMA LoadKeeps ==
    ASSUME SgInv, NEW p \in SgProcs, SgLoad(p)
    PROVE  SgInv'
<1> DEFINE s == sgProc[p]
           req == s.req
           map == IF req.kind \in Kinds THEN CheckedMap(req, sgDoc.half[req.kind]) ELSE SameMap
           new == [s EXCEPT !.pc = AfterLoad(req), !.doc = sgDoc, !.version = sgVersion, !.map = map]
<1>1. /\ UNCHANGED <<sgDoc, sgMade, sgVersion, sgRaced>>
      /\ sgSecret' \in Nat /\ sgTokens' \in Nat
  BY DEF SgLoad, SgQuiet, SgInv, SgShape
<1>2. CASE AfterLoad(req) = "done"
  BY <1>1, <1>2, SgStops DEF SgLoad, SgDone
<1>3. CASE AfterLoad(req) # "done"
  <2>1. s \in SgRecords /\ SgCheckedAt(s) /\ req \in SgCalls /\ s.pc = "load"
        /\ sgDoc \in SgDocuments /\ sgVersion \in Nat
    BY RecordIs DEF SgLoad, SgAt, SgInv, SgShape
  <2>2. /\ AfterLoad(req) \in {"resolve", "read", "save", "drop"}
        /\ AfterLoad(req) = "resolve" => req.op = "activate"
        /\ AfterLoad(req) = "read" => req.op \in {"create", "commit", "stage", "verify", "update"}
        /\ AfterLoad(req) = "save" => req.op \notin {"create", "commit", "update", "activate"}
        /\ AfterLoad(req) = "read" /\ req.op = "update" =>
              Place(sgDoc.half[req.kind].held, req.id) # 0
    <3>1. req.op \in SgOps /\ req.op \notin {"debug", "import", "disconnect", "status"}
      BY <2>1 DEF SgCheckedAt, SgCalls
    <3> QED
      BY <1>3, <3>1 DEF AfterLoad, SgOps
  <2>3. map \in Maps \cup {SameMap} /\ (req.op = "commit" => map = req.map)
    <3>1. CASE req.kind \in Kinds
      BY <2>1, <3>1, CheckedMapIs DEF SgCheckedAt, Given
    <3>2. CASE req.kind \notin Kinds
      BY <2>1, <3>2 DEF SgCheckedAt, Given
    <3> QED
      BY <3>1, <3>2
  <2>4. SgSet(p, new)
    BY <1>3 DEF SgLoad
  <2> HIDE DEF map
  <2>5. /\ new \in SgRecords /\ new.pc = AfterLoad(req) /\ new.req = req /\ new.doc = sgDoc
        /\ new.map = map
    BY <2>1, <2>2, <2>3 DEF SgRecords, SgPcs
  <2> HIDE DEF new
  <2>6. SgCheckedAt(new)
    BY <2>1, <2>2, <2>3, <2>5 DEF SgCheckedAt
  <2>7. Abreast(new, sgDoc)
    BY <2>1, <2>2, <2>5, GrownRefl DEF Abreast
  <2> QED
    BY <1>1, <2>4, <2>5, <2>6, <2>7, SgMoves
<1> QED
  BY <1>2, <1>3

(* A request resolves the container it is about, and its mapping.           *)
LEMMA ResolveKeeps ==
    ASSUME SgInv, NEW p \in SgProcs, Resolve(p)
    PROVE  SgInv'
<1> DEFINE s == sgProc[p]
           req == s.req
           active == (req.op = "import" /\ req.kind = NoKind) \/ (req.op = "debug" /\ req.id = 0)
           found == IF active THEN Active(sgDoc) ELSE ByRef(sgDoc, req.kind, req.id)
           Moved(c) == [s EXCEPT !.pc = "read", !.id = c.id, !.map = c.map,
                                 !.req.kind = IF active THEN sgDoc.active ELSE @]
<1>1. /\ UNCHANGED <<sgDoc, sgMade, sgVersion, sgRaced>>
      /\ sgSecret' \in Nat /\ sgTokens' \in Nat
  BY DEF Resolve, SgQuiet, SgInv, SgShape
<1>2. CASE SgDone(p)
  BY <1>1, <1>2, SgStops
<1>3. ASSUME NEW c \in found, SgSet(p, Moved(c))
      PROVE  SgInv'
  <2>1. s \in SgRecords /\ SgCheckedAt(s) /\ req \in SgCalls /\ s.pc = "resolve"
        /\ sgDoc \in SgDocuments /\ req.kind \in Kinds \cup {NoKind}
    BY RecordIs DEF Resolve, SgAt, SgInv, SgShape
  <2>2. CASE active
    <3>1. sgDoc.active \in Kinds /\ c \in ByRef(sgDoc, sgDoc.active, 0)
      BY <1>3, <2>2 DEF Active
    <3>2. c \in SgConnectors
      BY <2>1, <3>1, ByRefGives
    <3>3. c.id \in Nat /\ c.map \in GoodMaps /\ c.map \in Maps
      BY <3>2, SheetsSettingsAssumption DEF SgConnectors
    <3>4. req.op \in {"import", "debug"}
      BY <2>2
    <3> DEFINE new == [s EXCEPT !.pc = "read", !.id = c.id, !.map = c.map, !.req.kind = sgDoc.active]
    <3>5. Moved(c) = new
      BY <2>2
    <3>6. /\ new \in SgRecords /\ new.pc = "read" /\ new.map = c.map
          /\ new.req.op = req.op /\ new.req.kind = sgDoc.active
      BY <2>1, <3>1, <3>3 DEF SgRecords, SgCalls, SgPcs
    <3> HIDE DEF new, Moved
    <3>7. SgCheckedAt(new)
      BY <3>1, <3>3, <3>4, <3>6 DEF SgCheckedAt, Given
    <3>8. Abreast(new, sgDoc)
      BY <3>4, <3>6 DEF Abreast, HasLoaded
    <3> QED
      BY <1>1, <1>3, <3>5, <3>6, <3>7, <3>8, SgMoves
  <2>3. CASE ~active
    <3>1. req.kind \in Kinds
      BY <2>1, <2>3 DEF SgCheckedAt, Given
    <3>2. c \in SgConnectors /\ c.id \in HeldIds(sgDoc.half[req.kind])
      BY <1>3, <2>1, <2>3, <3>1, ByRefGives
    <3>3. c.id \in Nat /\ c.map \in GoodMaps /\ c.map \in Maps
      BY <3>2, SheetsSettingsAssumption DEF SgConnectors
    <3> DEFINE new == [s EXCEPT !.pc = "read", !.id = c.id, !.map = c.map]
    <3>4. Moved(c) = new
      BY <2>1, <2>3 DEF SgRecords, SgCalls
    <3>5. /\ new \in SgRecords /\ new.pc = "read" /\ new.map = c.map /\ new.id = c.id
          /\ new.req = req /\ new.doc = s.doc /\ new.behind = s.behind /\ new.wiped = s.wiped
      BY <2>1, <3>3 DEF SgRecords, SgPcs
    <3> HIDE DEF new, Moved
    <3>6. req.op \in {"activate", "debug", "import"}
      BY <2>1 DEF SgCheckedAt
    <3>7. SgCheckedAt(new)
      BY <2>1, <3>3, <3>5, <3>6 DEF SgCheckedAt
    <3>8. ~sgRaced => Abreast(new, sgDoc)
      <4>1. ~sgRaced => Abreast(s, sgDoc)
        BY RecordIs
      <4> QED
        BY <2>1, <3>2, <3>5, <4>1 DEF Abreast, HasLoaded
    <3> QED
      BY <1>1, <1>3, <3>4, <3>5, <3>7, <3>8, SgMoves
  <2> QED
    BY <2>2, <2>3
<1> QED
  BY <1>2, <1>3 DEF Resolve

(* A request that moves on to a step of its operation.                      *)
LEMMA SgAdvances ==
    ASSUME SgInv, NEW p \in SgProcs, NEW pc \in {"save", "rows", "load", "back"},
           LET s == sgProc[p] IN
              /\ SgSet(p, [s EXCEPT !.pc = pc])
              /\ pc = "save" => /\ s.pc \in {"read", "drop"}
                                /\ s.req.op \notin {"debug", "import", "disconnect"}
                                /\ s.req.op = "activate" => s.pc = "read"
                                /\ s.req.op \in {"create", "update", "commit"} =>
                                      s.pc = "read" /\ s.map \in GoodMaps
              /\ pc = "rows" => s.map \in GoodMaps
              /\ pc = "load" => s.req.op = "connect",
           sgDoc' = sgDoc, sgMade' = sgMade, sgVersion' = sgVersion, sgRaced' = sgRaced,
           sgSecret' \in Nat, sgTokens' \in Nat
    PROVE  SgInv'
<1> DEFINE s == sgProc[p]
           new == [s EXCEPT !.pc = pc]
<1>1. s \in SgRecords /\ SgCheckedAt(s) /\ (~sgRaced => Abreast(s, sgDoc)) /\ pc \in SgPcs
  BY RecordIs DEF SgPcs
<1>2. /\ new \in SgRecords /\ new.pc = pc /\ new.req = s.req /\ new.doc = s.doc /\ new.id = s.id
      /\ new.map = s.map /\ new.behind = s.behind /\ new.wiped = s.wiped
  BY <1>1, SgGoes
<1> HIDE DEF new
<1>3. SgCheckedAt(new)
  BY <1>1, <1>2 DEF SgCheckedAt
<1>4. ~sgRaced => Abreast(new, sgDoc)
  BY <1>1, <1>2 DEF Abreast, HasLoaded
<1> QED
  BY <1>2, <1>3, <1>4, SgMoves DEF new

(* The steps that read, and those that touch the tokens.                    *)
LEMMA ReadsKeep ==
    ASSUME SgInv, NEW p \in SgProcs,
           \/ SampleFails(p) \/ ReadSample(p) \/ StageChange(p) \/ VerifyOlder(p)
           \/ DebugConnector(p) \/ ReadRows(p) \/ MarkImported(p)
    PROVE  SgInv'
<1> DEFINE s == sgProc[p]
<1>1. /\ UNCHANGED <<sgDoc, sgMade, sgVersion, sgRaced>>
      /\ sgSecret' \in Nat /\ sgTokens' \in Nat
  BY DEF SampleFails, ReadSample, StageChange, VerifyOlder, DebugConnector, ReadRows, MarkImported,
         SgQuiet, SgInv, SgShape
<1>2. SgCheckedAt(s) /\ s.map \in Maps \cup {SameMap}
  BY RecordIs
<1>3. CASE SgDone(p)
  BY <1>1, <1>3, SgStops
<1>4. CASE ReadSample(p) /\ ~SgDone(p)
  <2>1. /\ s.pc = "read" /\ s.req.op \in {"activate", "create", "update", "commit"}
        /\ s.map \in GoodMaps /\ SgSet(p, [s EXCEPT !.pc = "save"])
    BY <1>4 DEF ReadSample, SgAt, Compatible, SgDone
  <2> QED
    BY <1>1, <2>1, SgAdvances
<1>5. CASE VerifyOlder(p) /\ ~SgDone(p)
  <2>1. s.pc = "read" /\ s.req.op = "verify" /\ SgSet(p, [s EXCEPT !.pc = "save"])
    BY <1>5 DEF VerifyOlder, SgAt, SgOp
  <2> QED
    BY <1>1, <2>1, SgAdvances
<1>6. CASE ReadRows(p)
  <2>1. s.pc = "read" /\ s.req.op = "import" /\ SgSet(p, [s EXCEPT !.pc = "rows"])
    BY <1>6 DEF ReadRows, SgAt, SgOp
  <2>2. s.map \in GoodMaps
    BY <1>2, <2>1 DEF SgCheckedAt
  <2> QED
    BY <1>1, <2>1, <2>2, SgAdvances
<1> QED
  BY <1>3, <1>4, <1>5, <1>6 DEF SampleFails, StageChange, DebugConnector, MarkImported

(* The steps that touch the tokens.                                         *)
LEMMA TokensKeep ==
    ASSUME SgInv, NEW p \in SgProcs,
           Exchange(p) \/ DropSecret(p) \/ PeekSecret(p) \/ WriteAddress(p)
    PROVE  SgInv'
<1> DEFINE s == sgProc[p]
<1>1. UNCHANGED <<sgDoc, sgMade, sgVersion, sgRaced>>
  BY DEF Exchange, DropSecret, PeekSecret, WriteAddress, SgQuiet
<1>2. sgSecret' \in Nat /\ sgTokens' \in Nat
  <2>1. sgSecret \in Nat /\ sgTokens \in Nat /\ s.id \in Nat
    BY RecordIs DEF SgInv, SgShape
  <2> QED
    BY <2>1 DEF Exchange, DropSecret, PeekSecret, WriteAddress, SgQuiet
<1>3. CASE SgDone(p)
  BY <1>1, <1>3, <1>2, SgStops
<1>4. CASE Exchange(p)
  <2>1. s.pc = "exchange" /\ SgSet(p, [s EXCEPT !.pc = "load"])
    BY <1>4 DEF Exchange, SgAt
  <2>2. s.req.op = "connect"
    BY <2>1, RecordIs DEF SgCheckedAt
  <2> QED
    BY <1>1, <1>2, <2>1, <2>2, SgAdvances
<1>5. CASE DropSecret(p) /\ ~SgDone(p)
  <2>1. s.pc = "drop" /\ s.req.op = "delete" /\ SgSet(p, [s EXCEPT !.pc = "save"])
    BY <1>5 DEF DropSecret, SgAt, SgOp, SgDone
  <2> QED
    BY <1>1, <1>2, <2>1, SgAdvances
<1>6. CASE PeekSecret(p) /\ ~SgDone(p)
  <2> DEFINE new == [s EXCEPT !.pc = "back", !.id = sgSecret]
  <2>1. SgSet(p, new)
    BY <1>6 DEF PeekSecret, SgDone
  <2>2. s \in SgRecords /\ SgCheckedAt(s)
    BY RecordIs
  <2>3. sgSecret \in Nat
    BY DEF SgInv, SgShape
  <2>4. new \in SgRecords /\ new.pc = "back" /\ new.req = s.req
    BY <2>2, <2>3 DEF SgRecords, SgPcs
  <2> HIDE DEF new
  <2>5. SgCheckedAt(new) /\ Abreast(new, sgDoc)
    BY <2>2, <2>4 DEF SgCheckedAt, Abreast, HasLoaded
  <2> QED
    BY <1>1, <1>2, <2>1, <2>4, <2>5, SgMoves
<1> QED
  BY <1>3, <1>4, <1>5, <1>6 DEF WriteAddress

(* What a request that saves has at hand.                                   *)
LEMMA AtSave ==
    ASSUME SgInv, NEW p \in SgProcs, SgAt(p, "save"),
           sgProc[p].req.op \notin {"debug", "import", "disconnect"}
    PROVE  /\ sgDoc \in SgDocuments /\ sgProc[p].doc \in SgDocuments
           /\ sgProc[p].req \in SgCalls /\ sgProc[p].id \in Nat
           /\ sgMade \in Nat /\ sgMade + 1 \in Nat /\ sgVersion \in Nat /\ sgVersion + 1 \in Nat
           /\ SgCheckedAt(sgProc[p])
           /\ ~sgRaced => /\ Sound(sgDoc)
                          /\ ~sgProc[p].behind => sgProc[p].doc = sgDoc
                          /\ ~sgProc[p].wiped => Grown(sgProc[p].doc, sgDoc)
<1>1. sgProc[p].pc = "save"
  BY DEF SgAt
<1>2. ~sgRaced => Abreast(sgProc[p], sgDoc) /\ Sound(sgDoc)
  BY RecordIs DEF SgInv, SgSteady
<1> QED
  BY <1>1, <1>2, RecordIs DEF Abreast, HasLoaded, SgInv, SgShape

(* Activating a connector saves the fields it changed.                      *)
LEMMA ActivateKeeps ==
    ASSUME SgInv, NEW p \in SgProcs, SaveActivated(p)
    PROVE  SgInv'
<1> DEFINE s == sgProc[p]
           kind == s.req.kind
           new == ActivatedAs(s.doc, s.req, s.id)
           doc == Fields(sgDoc, s.doc, new)
<1>1. SgAt(p, "save") /\ s.req.op = "activate" /\ Store(p, doc, FALSE)
      /\ sgMade' = sgMade /\ sgVersion' = sgVersion
  BY DEF SaveActivated
<1>2. /\ sgDoc \in SgDocuments /\ s.doc \in SgDocuments /\ s.id \in Nat
      /\ sgMade \in Nat /\ sgVersion \in Nat /\ SgCheckedAt(s)
      /\ ~sgRaced => Sound(sgDoc) /\ (~s.wiped => Grown(s.doc, sgDoc))
  BY <1>1, AtSave
<1>3. kind \in Kinds
  BY <1>1, <1>2 DEF SgCheckedAt, Given
<1>4. /\ new \in SgDocuments /\ new.active = kind
      /\ new.half[kind].on /\ new.half[kind].activeId = s.id
      /\ \A k \in Kinds : k # kind => new.half[k] = s.doc.half[k]
  <2>1. new = ActivatedAs(s.doc, s.req, s.id)
    OBVIOUS
  <2> HIDE DEF new
  <2>2. s.doc \in SgDocuments /\ s.id \in Nat /\ s.req.kind \in Kinds
    BY <1>2, <1>3
  <2> HIDE DEF s
  <2>3. new \in SgDocuments /\ new.active = kind /\ new.half[kind].on
    BY <2>1, <2>2, ActivatedGives
  <2>4. new.half[kind].activeId = s.id
    BY <2>1, <2>2, ActivatedGives
  <2>5. \A k \in Kinds : k # kind => new.half[k] = s.doc.half[k]
    BY <2>1, <2>2, ActivatedGives
  <2> QED
    BY <2>3, <2>4, <2>5
<1> HIDE DEF new
<1>5. /\ doc \in SgDocuments
      /\ doc.active = Written(sgDoc.active, s.doc.active, new.active)
      /\ \A k \in Kinds :
            /\ doc.half[k].on = Written(sgDoc.half[k].on, s.doc.half[k].on, new.half[k].on)
            /\ doc.half[k].activeId = Written(sgDoc.half[k].activeId, s.doc.half[k].activeId,
                                              new.half[k].activeId)
            /\ doc.half[k].held = sgDoc.half[k].held
  BY <1>2, <1>4, FieldsGive
<1> HIDE DEF doc
<1>6. \A k \in Kinds : HeldIds(doc.half[k]) = HeldIds(sgDoc.half[k])
  BY <1>5 DEF HeldIds
<1>7. ASSUME ~sgRaced, ~s.wiped
      PROVE  Sound(doc) /\ Grown(sgDoc, doc)
  <2>1. Sound(sgDoc) /\ Grown(s.doc, sgDoc)
    BY <1>2, <1>7
  <2>2. s.id \in HeldIds(sgDoc.half[kind])
    BY <1>1, <1>7, RecordIs DEF Abreast, SgAt
  <2>3. doc.half[kind].on
    <3>1. s.doc.half[kind].on \in BOOLEAN /\ (s.doc.half[kind].on => sgDoc.half[kind].on)
      BY <1>2, <1>3, <2>1, HalfIs DEF Grown
    <3> QED
      BY <1>3, <1>4, <1>5, <3>1, HalfIs DEF Written
  <2>4. doc.half[kind].activeId \in HeldIds(doc.half[kind])
    <3>1. CASE s.id = s.doc.half[kind].activeId
      <4>1. doc.half[kind].activeId = sgDoc.half[kind].activeId
        <5>1. doc.half[kind].activeId = Written(sgDoc.half[kind].activeId,
                                                s.doc.half[kind].activeId, new.half[kind].activeId)
          BY <1>3, <1>5, Zenon
        <5>2. new.half[kind].activeId = s.doc.half[kind].activeId
          BY <1>4, <3>1, Zenon
        <5> QED
          BY <5>1, <5>2, Zenon DEF Written
      <4>2. sgDoc.half[kind].activeId \in {s.id} \cup HeldIds(sgDoc.half[kind])
        BY <1>3, <2>1, <3>1 DEF Grown
      <4> QED
        BY <1>3, <1>6, <2>2, <4>1, <4>2
    <3>2. CASE s.id # s.doc.half[kind].activeId
      BY <1>3, <1>4, <1>5, <1>6, <2>2, <3>2 DEF Written
    <3> QED
      BY <3>1, <3>2
  <2>5. Grown(sgDoc, doc)
    <3> SUFFICES ASSUME NEW k \in Kinds
                 PROVE  /\ sgDoc.half[k].on => doc.half[k].on
                        /\ doc.half[k].activeId \in {sgDoc.half[k].activeId} \cup HeldIds(doc.half[k])
      BY <1>6 DEF Grown
    <3>1. CASE k = kind
      BY <2>3, <2>4, <3>1
    <3>2. CASE k # kind
      BY <1>4, <1>5, <3>2 DEF Written
    <3> QED
      BY <3>1, <3>2
  <2>6. doc.active = kind \/ doc.active = sgDoc.active
    BY <1>4, <1>5 DEF Written
  <2>7. CASE doc.active = kind
    BY <2>3, <2>4, <2>5, <2>7 DEF Sound
  <2>8. CASE doc.active = sgDoc.active
    BY <2>1, <2>5, <2>8, GrownSound
  <2> QED
    BY <2>5, <2>6, <2>7, <2>8
<1> QED
  BY <1>1, <1>2, <1>5, <1>7, SgStores

(* Creating a connector pushes a container and saves the fields it changed. *)
LEMMA CreateKeeps ==
    ASSUME SgInv, NEW p \in SgProcs, SaveCreated(p)
    PROVE  SgInv'
<1> DEFINE s == sgProc[p]
           kind == s.req.kind
           id == sgMade + 1
           c == [id |-> id, on |-> s.req.flag, map |-> s.map]
           new == CreatedIn(s.doc, kind, id)
           kept == Fields(sgDoc, s.doc, new)
           doc == [kept EXCEPT !.half[kind].held = Append(@, c)]
<1>1. SgAt(p, "save") /\ s.req.op = "create" /\ Store(p, doc, FALSE)
      /\ sgMade' = sgMade + 1 /\ sgVersion' = sgVersion + 1
  BY DEF SaveCreated
<1>2. /\ sgDoc \in SgDocuments /\ s.doc \in SgDocuments /\ s.req \in SgCalls
      /\ id \in Nat /\ sgMade' \in Nat /\ sgVersion' \in Nat /\ SgCheckedAt(s)
      /\ ~sgRaced => Sound(sgDoc) /\ (~s.wiped => Grown(s.doc, sgDoc))
  BY <1>1, AtSave
<1>3. kind \in Kinds /\ s.map \in GoodMaps
  BY <1>1, <1>2 DEF SgCheckedAt, Given, SgAt
<1>4. c \in SgConnectors /\ c.id = id
  BY <1>2, <1>3 DEF SgConnectors, SgCalls
<1> HIDE DEF c, id
<1>5. /\ new \in SgDocuments /\ new.active = s.doc.active /\ new.half[kind].on
      /\ new.half[kind].activeId \in {s.doc.half[kind].activeId, id}
      /\ \A k \in Kinds : k # kind => new.half[k] = s.doc.half[k]
  <2>1. new = CreatedIn(s.doc, kind, id)
    OBVIOUS
  <2> HIDE DEF new
  <2>2. s.doc \in SgDocuments /\ id \in Nat
    BY <1>2
  <2> HIDE DEF s
  <2>3. new \in SgDocuments /\ new.active = s.doc.active /\ new.half[kind].on
    BY <1>3, <2>1, <2>2, CreatedGives
  <2>4. new.half[kind].activeId \in {s.doc.half[kind].activeId, id}
    BY <1>3, <2>1, <2>2, CreatedGives
  <2>5. \A k \in Kinds : k # kind => new.half[k] = s.doc.half[k]
    BY <1>3, <2>1, <2>2, CreatedGives
  <2> QED
    BY <2>3, <2>4, <2>5
<1> HIDE DEF new
<1>6. /\ kept \in SgDocuments
      /\ kept.active = Written(sgDoc.active, s.doc.active, new.active)
      /\ \A k \in Kinds :
            /\ kept.half[k].on = Written(sgDoc.half[k].on, s.doc.half[k].on, new.half[k].on)
            /\ kept.half[k].activeId = Written(sgDoc.half[k].activeId, s.doc.half[k].activeId,
                                               new.half[k].activeId)
            /\ kept.half[k].held = sgDoc.half[k].held
  <2>1. sgDoc \in SgDocuments /\ s.doc \in SgDocuments /\ new \in SgDocuments
    BY <1>2, <1>5
  <2> HIDE DEF s
  <2> QED
    BY <2>1, FieldsGive
<1> HIDE DEF kept
<1>7. Extended(kept, doc) /\ id \in HeldIds(doc.half[kind])
  <2>1. doc = WithPushed(kept, kind, c)
    BY DEF WithPushed
  <2> HIDE DEF doc
  <2> QED
    BY <1>3, <1>4, <1>6, <2>1, PushGives
<1> HIDE DEF doc
<1>8. \A k \in Kinds : HeldIds(sgDoc.half[k]) \subseteq HeldIds(doc.half[k])
  BY <1>6, <1>7 DEF HeldIds, Extended
<1>9. ASSUME ~sgRaced, ~s.wiped
      PROVE  Sound(doc) /\ Grown(sgDoc, doc)
  <2>1. Sound(sgDoc) /\ Grown(s.doc, sgDoc)
    BY <1>2, <1>9
  <2>2. doc.active = sgDoc.active
    BY <1>5, <1>6, <1>7 DEF Written, Extended
  <2>3. ASSUME NEW k \in Kinds
        PROVE  /\ sgDoc.half[k].on => doc.half[k].on
               /\ doc.half[k].activeId \in {sgDoc.half[k].activeId} \cup HeldIds(doc.half[k])
    <3>1. CASE k # kind
      BY <1>5, <1>6, <1>7, <3>1 DEF Written, Extended
    <3>2. CASE k = kind
      <4>1. sgDoc.half[kind].on => doc.half[kind].on
        BY <1>3, <1>5, <1>6, <1>7 DEF Written, Extended
      <4>2. doc.half[kind].activeId \in {sgDoc.half[kind].activeId, id}
        BY <1>3, <1>5, <1>6, <1>7, ZenonT(60) DEF Written, Extended
      <4> QED
        BY <1>7, <3>2, <4>1, <4>2
    <3> QED
      BY <3>1, <3>2
  <2>4. Grown(sgDoc, doc)
    BY <1>8, <2>3 DEF Grown
  <2> QED
    BY <2>1, <2>2, <2>4, GrownSound
<1> QED
  BY <1>1, <1>2, <1>7, <1>9, SgStores DEF Extended

(* Updating a connector writes its container in place.                      *)
LEMMA UpdateKeeps ==
    ASSUME SgInv, NEW p \in SgProcs, SaveUpdated(p)
    PROVE  SgInv'
<1> DEFINE s == sgProc[p]
           kind == s.req.kind
           loaded == s.doc.half[kind].held
           at == Place(loaded, s.req.id)
           old == loaded[at]
           new == [old EXCEPT !.on = s.req.flag, !.map = s.map]
           stored == sgDoc.half[kind].held[at]
           c == Patched(stored, old, new)
           doc == [sgDoc EXCEPT !.half[kind].held = [@ EXCEPT ![at] = c]]
<1>1. SgAt(p, "save") /\ s.req.op = "update"
  BY DEF SaveUpdated
<1>2. /\ sgDoc \in SgDocuments /\ s.doc \in SgDocuments /\ s.req \in SgCalls
      /\ sgMade \in Nat /\ sgVersion \in Nat /\ SgCheckedAt(s)
      /\ ~sgRaced => Sound(sgDoc)
  BY <1>1, AtSave
<1>3. kind \in Kinds /\ s.map \in GoodMaps /\ at # 0
  BY <1>1, <1>2 DEF SgCheckedAt, Given, SgAt
<1>4. CASE s.version # sgVersion
  <2>1. SgDone(p) /\ SgQuiet /\ UNCHANGED <<sgSecret, sgTokens>>
    BY <1>4 DEF SaveUpdated
  <2>2. sgSecret' \in Nat /\ sgTokens' \in Nat
    BY <2>1 DEF SgInv, SgShape
  <2> QED
    BY <2>1, <2>2, SgStops DEF SgQuiet
<1>5. CASE s.version = sgVersion /\ at \in DOMAIN sgDoc.half[kind].held
  <2>1. /\ Store(p, [sgDoc EXCEPT !.half[kind].held[at] = Patched(@, old, new)], FALSE)
        /\ sgVersion' = sgVersion /\ sgMade' = sgMade
    BY <1>5 DEF SaveUpdated
  <2>2. [sgDoc EXCEPT !.half[kind].held[at] = Patched(@, old, new)] = doc
    OBVIOUS
  <2>3. at \in DOMAIN loaded
    BY <1>2, <1>3, PlaceIs
  <2>4. old \in SgConnectors /\ stored \in SgConnectors
    BY <1>2, <1>3, <1>5, <2>3, HalfIs
  <2>5. new \in SgConnectors
    BY <1>2, <1>3, <2>4 DEF SgConnectors, SgCalls
  <2> HIDE DEF old, new, stored, at
  <2>6. c \in SgConnectors /\ c.id = stored.id
    BY <2>4, <2>5 DEF Patched, Written, SgConnectors
  <2> HIDE DEF c
  <2>10. c.id = sgDoc.half[kind].held[at].id
    BY <2>6 DEF stored
  <2>7. Extended(sgDoc, doc)
    <3>1. doc = WithPut(sgDoc, kind, at, c)
      BY DEF WithPut
    <3> HIDE DEF doc, kind
    <3> QED
      BY <1>2, <1>3, <1>5, <2>6, <2>10, <3>1, PutGives
  <2> HIDE DEF doc
  <2>8. Grown(sgDoc, doc)
    BY <2>7 DEF Grown, Extended
  <2>9. ~sgRaced => Sound(doc)
    BY <1>2, <2>7, <2>8, GrownSound DEF Extended
  <2> QED
    BY <1>2, <2>1, <2>2, <2>7, <2>8, <2>9, SgStores DEF Extended
<1>6. CASE s.version = sgVersion /\ at \notin DOMAIN sgDoc.half[kind].held
  <2>1. Store(p, sgDoc, FALSE) /\ sgVersion' = sgVersion /\ sgMade' = sgMade
    BY <1>6 DEF SaveUpdated
  <2> QED
    BY <1>2, <2>1, GrownRefl, SgStores
<1> QED
  BY <1>4, <1>5, <1>6

(* A whole write of what a request made of the document it loaded.          *)
LEMMA WholeKeeps ==
    ASSUME SgInv, NEW p \in SgProcs, NEW op \in SgOps, op \notin {"debug", "import", "disconnect"},
           NEW doc \in SgDocuments, SaveWhole(p, op, doc), sgMade' \in Nat,
           Sound(sgProc[p].doc) => Sound(doc)
    PROVE  SgInv'
<1>1. SgAt(p, "save") /\ sgProc[p].req.op = op /\ Store(p, doc, TRUE) /\ sgVersion' = sgVersion
  BY DEF SaveWhole, SgOp
<1>2. sgVersion \in Nat /\ (~sgRaced => Sound(sgDoc) /\ (~sgProc[p].behind => sgProc[p].doc = sgDoc))
  BY <1>1, AtSave
<1> QED
  BY <1>1, <1>2, SgStores

(* The operations that write the document whole.                            *)
LEMMA WritesKeep ==
    ASSUME SgInv, NEW p \in SgProcs,
           SaveCommitted(p) \/ SaveDeleted(p) \/ SaveReset(p) \/ SaveOlder(p) \/ SaveCleaned(p)
    PROVE  SgInv'
<1> DEFINE s == sgProc[p]
<1>1. /\ sgDoc \in SgDocuments /\ s.doc \in SgDocuments /\ s.req \in SgCalls
      /\ sgMade \in Nat /\ sgMade + 1 \in Nat /\ SgCheckedAt(s)
  <2>1. SgAt(p, "save") /\ s.req.op \notin {"debug", "import", "disconnect"}
    BY DEF SaveCommitted, SaveDeleted, SaveReset, SaveOlder, SaveCleaned, SaveWhole, SgOp
  <2> QED
    BY <2>1, AtSave
<1>2. CASE SaveCommitted(p)
  <2> DEFINE doc == CommittedAs(s.doc, s.req, sgMade + 1)
  <2>1. SaveWhole(p, "commit", doc) /\ sgMade' \in Nat
    BY <1>1, <1>2 DEF SaveCommitted
  <2>2. s.req.kind \in Kinds /\ s.req.map \in GoodMaps
    BY <1>1, <2>1 DEF SaveWhole, SgAt, SgOp, SgCheckedAt, Given
  <2>3. doc \in SgDocuments /\ (Sound(s.doc) => Sound(doc))
    BY <1>1, <2>2, CommittedGives
  <2> QED
    BY <2>1, <2>3, WholeKeeps DEF SgOps
<1>3. CASE SaveDeleted(p)
  <2>1. SaveWhole(p, "delete", Cleared) /\ sgMade' \in Nat
    BY <1>1, <1>3 DEF SaveDeleted
  <2> QED
    BY <2>1, ClearedGives, WholeKeeps DEF SgOps
<1>4. CASE SaveReset(p)
  <2> DEFINE active == Written(sgDoc.active, s.doc.active, NoKind)
             doc == [Cleared EXCEPT !.active = active]
  <2>1. SaveWhole(p, "reset", doc) /\ sgMade' \in Nat
    BY <1>1, <1>4 DEF SaveReset
  <2>2. active \in Kinds \cup {NoKind}
    BY <1>1 DEF Written, SgDocuments
  <2>3. doc \in SgDocuments
    BY <2>2, ClearedGives
  <2>4. SgAt(p, "save") /\ s.req.op = "reset" /\ Store(p, doc, TRUE) /\ sgVersion' = sgVersion
    BY <2>1 DEF SaveWhole, SgOp
  <2>5. sgVersion \in Nat /\ (~sgRaced /\ ~s.behind => s.doc = sgDoc)
    BY <2>4, AtSave
  <2>6. ~sgRaced /\ ~s.behind => Sound(doc)
    <3>1. ASSUME ~sgRaced, ~s.behind
          PROVE  active = NoKind
      BY <2>5, <3>1 DEF Written
    <3> QED
      BY <3>1 DEF Sound, Cleared, NoKind, Kinds
  <2> HIDE DEF doc
  <2> QED
    BY <2>1, <2>3, <2>4, <2>5, <2>6, SgStores
<1>5. CASE SaveOlder(p)
  <2>1. s.req.op \in {"legacy", "verify"} /\ SaveWhole(p, s.req.op, s.doc) /\ sgMade' \in Nat
    BY <1>1, <1>5 DEF SaveOlder, SgOp
  <2> QED
    BY <1>1, <2>1, WholeKeeps DEF SgOps
<1>6. CASE SaveCleaned(p)
  <2>1. SaveWhole(p, "cleanup", Cleaned(s.doc)) /\ sgMade' \in Nat
    BY <1>1, <1>6 DEF SaveCleaned
  <2> QED
    BY <1>1, <2>1, CleanedGives, WholeKeeps DEF SgOps
<1> QED
  BY <1>2, <1>3, <1>4, <1>5, <1>6

(* Connecting and disconnecting, which write beside the loaded document.    *)
LEMMA ConnectKeeps ==
    ASSUME SgInv, NEW p \in SgProcs, SaveConnection(p)
    PROVE  SgInv'
<1> DEFINE s == sgProc[p]
           new == [s.doc EXCEPT !.connected = TRUE, !.half["oauth"].on = TRUE]
           doc == Fields(sgDoc, s.doc, new)
<1>1. SgAt(p, "save") /\ s.req.op = "connect" /\ Store(p, doc, FALSE)
      /\ sgMade' = sgMade /\ sgVersion' = sgVersion
  BY DEF SaveConnection
<1>2. /\ sgDoc \in SgDocuments /\ s.doc \in SgDocuments /\ sgMade \in Nat /\ sgVersion \in Nat
      /\ ~sgRaced => Sound(sgDoc) /\ (~s.wiped => Grown(s.doc, sgDoc))
  BY <1>1, AtSave
<1>3. /\ new \in SgDocuments /\ new.active = s.doc.active /\ new.half["oauth"].on
      /\ \A k \in Kinds : /\ new.half[k].activeId = s.doc.half[k].activeId
                          /\ k # "oauth" => new.half[k] = s.doc.half[k]
  <2>1. "oauth" \in Kinds /\ s.doc.half["oauth"] \in SgHalves
    BY <1>2, HalfIs DEF Kinds
  <2>2. s.doc \in SgDocuments
    BY <1>2
  <2> HIDE DEF s
  <2> QED
    BY <2>1, <2>2 DEF SgDocuments, SgHalves
<1> HIDE DEF new
<1>4. /\ doc \in SgDocuments
      /\ doc.active = Written(sgDoc.active, s.doc.active, new.active)
      /\ \A k \in Kinds :
            /\ doc.half[k].on = Written(sgDoc.half[k].on, s.doc.half[k].on, new.half[k].on)
            /\ doc.half[k].activeId = Written(sgDoc.half[k].activeId, s.doc.half[k].activeId,
                                              new.half[k].activeId)
            /\ doc.half[k].held = sgDoc.half[k].held
  BY <1>2, <1>3, FieldsGive
<1> HIDE DEF doc
<1>5. doc.active = sgDoc.active
  BY <1>3, <1>4 DEF Written
<1>6. ASSUME NEW k \in Kinds
      PROVE  /\ sgDoc.half[k].on => doc.half[k].on
             /\ HeldIds(sgDoc.half[k]) \subseteq HeldIds(doc.half[k])
             /\ doc.half[k].activeId = sgDoc.half[k].activeId
  <2>1. doc.half[k].activeId = sgDoc.half[k].activeId
    BY <1>3, <1>4 DEF Written
  <2>2. HeldIds(sgDoc.half[k]) \subseteq HeldIds(doc.half[k])
    BY <1>4 DEF HeldIds
  <2>3. sgDoc.half[k].on => doc.half[k].on
    BY <1>3, <1>4 DEF Written
  <2> QED
    BY <2>1, <2>2, <2>3
<1>7. Grown(sgDoc, doc)
  BY <1>6 DEF Grown
<1>8. ~sgRaced => Sound(doc)
  BY <1>2, <1>5, <1>7, GrownSound
<1> QED
  BY <1>1, <1>2, <1>4, <1>7, <1>8, SgStores

-----------------------------------------------------------------------------
(* The start documents satisfy the invariant.                               *)
LEMMA SgInitially ==
    ASSUME SgInit
    PROVE  SgInv
<1>1. sgDoc \in SgDocuments /\ Sound(sgDoc)
  BY SheetsStartAssumption DEF SgInit, SgDocuments, SgHalves, SgConnectors, Sound, HeldIds
<1>2. sgMade \in Nat
  <2> DEFINE all == Kinds \X (1 .. 9)
             there == {w \in all : w[2] \in DOMAIN sgDoc.half[w[1]].held}
  <2>1. IsFiniteSet(all)
    <3>1. IsFiniteSet(Kinds)
      <4>1. IsFiniteSet({})
        BY FS_EmptySet
      <4>2. IsFiniteSet({"oauth"})
        BY FS_Singleton
      <4>3. IsFiniteSet({"oauth"} \cup {"shared"})
        BY <4>2, FS_AddElement
      <4> QED
        BY <4>3 DEF Kinds
    <3>2. IsFiniteSet(1 .. 9)
      <4>1. 1 \in Int /\ 9 \in Int
        OBVIOUS
      <4> QED
        BY <4>1, FS_Interval, Zenon
    <3> QED
      BY <3>1, <3>2, FS_Product
  <2>2. there \subseteq all
    OBVIOUS
  <2> HIDE DEF all
  <2>3. IsFiniteSet(there)
    BY <2>1, <2>2, FS_Subset
  <2>4. Cardinality(there) \in Nat
    BY <2>3, FS_CardinalityType
  <2> QED
    BY <2>4 DEF SgInit, Containers, all
<1>3. sgProc = [p \in SgProcs |-> SgIdle]
  BY DEF SgInit
<1>4. sgProc \in [SgProcs -> SgRecords] /\ \A p \in SgProcs : sgProc[p] = SgIdle
  BY <1>3, IdleIs
<1>5. SgShape
  BY <1>1, <1>2, <1>4 DEF SgShape, SgInit
<1> QED
  BY <1>1, <1>4, <1>5, IdleIs DEF SgInv, SgChecks, SgSteady

(* Every step keeps the invariant.                                          *)
LEMMA SgStepKeeps ==
    ASSUME SgInv, [SgNext]_sgVars
    PROVE  SgInv'
<1>1. CASE UNCHANGED sgVars
  BY <1>1 DEF sgVars, SgInv, SgShape, SgChecks, SgSteady
<1>2. ASSUME NEW p \in SgProcs, SgStep(p)
      PROVE  SgInv'
  BY <1>2, LoadKeeps, ResolveKeeps, ReadsKeep, TokensKeep, ActivateKeeps, CreateKeeps, UpdateKeeps,
     WritesKeep, ConnectKeeps, Zenon DEF SgStep
<1>3. ASSUME NEW p \in SgProcs, NEW req \in Requests, Begin(p, req)
      PROVE  SgInv'
  BY <1>3, BeginKeeps
<1> QED
  BY <1>1, <1>2, <1>3 DEF SgNext

(* The stored document and every request under way have their shape, the     *)
(* mappings they hold name the required targets once, and the active kind    *)
(* names a container of its own.                                             *)
THEOREM SheetsSteady == SgSpec => []SgInv
<1>1. SgInit => SgInv
  BY SgInitially
<1>2. SgInv /\ [SgNext]_sgVars => SgInv'
  BY SgStepKeeps
<1> QED
  BY <1>1, <1>2, PTL DEF SgSpec

(* ActiveNamesSource: the active kind is on and its active id names one of   *)
(* its sources or profiles, however the requests overlap, unless a save of   *)
(* the whole document undid another's that it had not read: for a save of    *)
(* single fields lets the document it was made from grow, and the document   *)
(* now stored has itself grown out of that one.                              *)
THEOREM SheetsActiveNamesSource == SgSpec => []ActiveNamesSource
<1>1. SgInv => ActiveNamesSource
  <2> SUFFICES ASSUME SgInv, sgDoc.active # NoKind, ~sgRaced
               PROVE  /\ sgDoc.half[sgDoc.active].on
                      /\ Place(sgDoc.half[sgDoc.active].held, sgDoc.half[sgDoc.active].activeId) # 0
    BY DEF ActiveNamesSource
  <2>1. sgDoc \in SgDocuments /\ Sound(sgDoc)
    BY DEF SgInv, SgShape, SgSteady
  <2>2. sgDoc.active \in Kinds
    BY <2>1 DEF SgDocuments
  <2> QED
    BY <2>1, <2>2, PlaceIs DEF Sound
<1> QED
  BY <1>1, SheetsSteady, PTL

(* ConnectorsAreMapped: the handlers check a mapping before they store it,   *)
(* and what they check is what they store.                                   *)
THEOREM SheetsConnectorsAreMapped == SgSpec => []ConnectorsAreMapped
<1>1. SgInv => ConnectorsAreMapped
  <2> SUFFICES ASSUME SgInv
               PROVE  ConnectorsAreMapped
    OBVIOUS
  <2>1. \A k \in Kinds : \A i \in DOMAIN sgDoc.half[k].held :
           sgDoc.half[k].held[i].map \in GoodMaps
    <3>1. sgDoc \in SgDocuments
      BY DEF SgInv, SgShape
    <3> QED
      BY <3>1, HalfIs DEF SgConnectors
  <2>2. \A p \in SgProcs : SgAt(p, "rows") => sgProc[p].map \in GoodMaps
    BY RecordIs DEF SgCheckedAt, SgAt
  <2> QED
    BY <2>1, <2>2 DEF ConnectorsAreMapped
<1> QED
  BY <1>1, SheetsSteady, PTL
-----------------------------------------------------------------------------
(* Which sheet the browser names: a container's id is never given twice.    *)

(* The ids of a kind's containers were given, each to one of them.          *)
TidySeq(held, made) ==
    \A i \in DOMAIN held : /\ held[i].id \in 1 .. made
                           /\ \A j \in DOMAIN held : held[i].id = held[j].id => i = j
TidyDoc(doc, made) == \A k \in Kinds : TidySeq(doc.half[k].held, made)
SgTidy == TidyDoc(sgDoc, sgMade) /\ \A p \in SgProcs : TidyDoc(sgProc[p].doc, sgMade)

(* Containers of the same ids in the same places.                           *)
LEMMA TidyStays ==
    ASSUME NEW doc, NEW new, NEW made \in Nat, NEW more \in {made, made + 1}, TidyDoc(doc, made),
           \A k \in Kinds : new.half[k].held = doc.half[k].held
    PROVE  TidyDoc(new, more)
<1> SUFFICES ASSUME NEW k \in Kinds, NEW i \in DOMAIN doc.half[k].held
             PROVE  /\ doc.half[k].held[i].id \in 1 .. more
                    /\ \A j \in DOMAIN doc.half[k].held :
                          doc.half[k].held[i].id = doc.half[k].held[j].id => i = j
  BY DEF TidyDoc, TidySeq
<1>1. /\ doc.half[k].held[i].id \in 1 .. made
      /\ \A j \in DOMAIN doc.half[k].held :
            doc.half[k].held[i].id = doc.half[k].held[j].id => i = j
  BY DEF TidyDoc, TidySeq
<1> QED
  BY <1>1

(* A document with no containers.                                           *)
LEMMA TidyCleared ==
    ASSUME NEW made
    PROVE  TidyDoc(Cleared, made) /\ \A a : TidyDoc([Cleared EXCEPT !.active = a], made)
BY DEF TidyDoc, TidySeq, Cleared, Unset

(* Other containers of one kind, the other kind as it was.                  *)
LEMMA TidyHeld ==
    ASSUME NEW doc \in SgDocuments, NEW kind \in Kinds, NEW held, NEW made \in Nat,
           NEW more \in {made, made + 1}, TidyDoc(doc, made), TidySeq(held, more)
    PROVE  TidyDoc([doc EXCEPT !.half[kind].held = held], more)
<1> DEFINE new == [doc EXCEPT !.half[kind].held = held]
<1>1. doc.half[kind] \in SgHalves /\ DOMAIN doc.half = Kinds
  BY HalfIs DEF SgDocuments
<1>2. \A k \in Kinds : new.half[k].held = IF k = kind THEN held ELSE doc.half[k].held
  BY <1>1 DEF SgDocuments, SgHalves
<1> HIDE DEF new
<1> SUFFICES ASSUME NEW k \in Kinds
             PROVE  TidySeq(new.half[k].held, more)
  BY DEF TidyDoc, new
<1>3. CASE k = kind
  BY <1>2, <1>3
<1>4. CASE k # kind
  <2>1. TidySeq(doc.half[k].held, made)
    BY DEF TidyDoc
  <2>2. TidySeq(doc.half[k].held, more)
    BY <2>1 DEF TidySeq
  <2> QED
    BY <1>2, <1>4, <2>2
<1> QED
  BY <1>3, <1>4

(* A container pushed with the next id.                                     *)
LEMMA TidyPushed ==
    ASSUME NEW doc \in SgDocuments, NEW kind \in Kinds, NEW made \in Nat, TidyDoc(doc, made),
           NEW c \in SgConnectors, c.id = made + 1
    PROVE  TidyDoc(WithPushed(doc, kind, c), made + 1)
<1> DEFINE old == doc.half[kind].held
           held == Append(old, c)
<1>1. old \in Seq(SgConnectors)
  BY HalfIs
<1>2. /\ DOMAIN old = 1 .. Len(old) /\ DOMAIN held = 1 .. Len(old) + 1 /\ Len(old) \in Nat
      /\ \A i \in DOMAIN old : held[i] = old[i]
      /\ held[Len(old) + 1] = c
  <2>1. DOMAIN old = 1 .. Len(old) /\ Len(old) \in Nat
    BY <1>1
  <2>2. DOMAIN held = 1 .. (Len(old) + 1) /\ held[Len(old) + 1] = c
    BY <1>1
  <2>3. \A i \in DOMAIN old : held[i] = old[i]
    BY <1>1, SgAppended
  <2> QED
    BY <2>1, <2>2, <2>3
<1>3. \A i \in DOMAIN old : /\ old[i].id \in 1 .. made
                            /\ \A j \in DOMAIN old : old[i].id = old[j].id => i = j
  BY DEF TidyDoc, TidySeq
<1> HIDE DEF held, old
<1>4. TidySeq(held, made + 1)
  <2> SUFFICES ASSUME NEW i \in DOMAIN held, NEW j \in DOMAIN held
               PROVE  held[i].id \in 1 .. made + 1 /\ (held[i].id = held[j].id => i = j)
    BY DEF TidySeq
  <2>1. \A n \in DOMAIN held : n \in DOMAIN old \/ n = Len(old) + 1
    BY <1>2
  <2>2. \A n \in DOMAIN old : held[n].id \in 1 .. made
    BY <1>2, <1>3
  <2>3. held[Len(old) + 1].id = made + 1
    BY <1>2
  <2>4. CASE i \in DOMAIN old /\ j \in DOMAIN old
    BY <1>2, <1>3, <2>2, <2>4
  <2>5. CASE i \notin DOMAIN old \/ j \notin DOMAIN old
    BY <2>1, <2>2, <2>3, <2>5
  <2> QED
    BY <2>4, <2>5
<1>5. WithPushed(doc, kind, c) = [doc EXCEPT !.half[kind].held = held]
  BY DEF WithPushed, held, old
<1> QED
  BY <1>4, <1>5, TidyHeld

(* A container replaced by one of the same id.                              *)
LEMMA TidyPut ==
    ASSUME NEW doc \in SgDocuments, NEW kind \in Kinds, NEW made \in Nat, TidyDoc(doc, made),
           NEW at \in DOMAIN doc.half[kind].held, NEW c \in SgConnectors,
           c.id = doc.half[kind].held[at].id
    PROVE  TidyDoc(WithPut(doc, kind, at, c), made)
<1> DEFINE old == doc.half[kind].held
           held == [old EXCEPT ![at] = c]
<1>1. old \in Seq(SgConnectors)
  BY HalfIs
<1>2. DOMAIN held = DOMAIN old /\ \A i \in DOMAIN old : held[i].id = old[i].id
  BY <1>1, SgReplaced
<1>3. TidySeq(old, made)
  BY DEF TidyDoc
<1> HIDE DEF held, old
<1>4. TidySeq(held, made)
  BY <1>2, <1>3 DEF TidySeq
<1>5. WithPut(doc, kind, at, c) = [doc EXCEPT !.half[kind].held = held]
  BY DEF WithPut, held, old
<1> QED
  BY <1>4, <1>5, TidyHeld

(* A commit replaces a container or pushes one with the next id.            *)
LEMMA TidyCommitted ==
    ASSUME NEW doc \in SgDocuments, NEW req \in SgCalls, req.kind \in Kinds, req.map \in GoodMaps,
           NEW made \in Nat, TidyDoc(doc, made)
    PROVE  TidyDoc(CommittedAs(doc, req, made + 1),
                   IF Fallback(doc.half[req.kind], req.id) = 0 THEN made + 1 ELSE made)
<1> DEFINE half == doc.half[req.kind]
           at == Fallback(half, req.id)
           id == IF at = 0 THEN made + 1 ELSE half.held[at].id
           connector == [id |-> id, on |-> TRUE, map |-> req.map]
           kept == [doc EXCEPT !.half[req.kind].held =
                       IF at = 0 THEN Append(@, connector) ELSE [@ EXCEPT ![at] = connector]]
           more == IF at = 0 THEN made + 1 ELSE made
<1>1. at # 0 => at \in DOMAIN half.held /\ half.held[at] \in SgConnectors
  BY FallbackGives, HalfIs
<1>2. id \in Nat
  BY <1>1 DEF SgConnectors
<1>3. connector \in SgConnectors /\ connector.id = id
  BY <1>2 DEF SgConnectors
<1>4. CommittedAs(doc, req, made + 1) = IF req.flag THEN ActivatedAs(kept, req, id) ELSE kept
  BY DEF CommittedAs
<1> HIDE DEF connector
<1>5. kept \in SgDocuments /\ TidyDoc(kept, more)
  <2>1. CASE at = 0
    <3>1. kept = WithPushed(doc, req.kind, connector) /\ id = made + 1 /\ more = made + 1
      BY <2>1 DEF WithPushed
    <3> HIDE DEF kept, id, more, at
    <3>2. TidyDoc(kept, made + 1)
      BY <1>3, <3>1, TidyPushed
    <3>3. kept \in SgDocuments
      BY <1>3, <3>1, PushGives DEF Extended
    <3> QED
      BY <3>1, <3>2, <3>3
  <2>2. CASE at # 0
    <3>1. kept = WithPut(doc, req.kind, at, connector) /\ more = made
          /\ connector.id = half.held[at].id
      BY <1>3, <2>2 DEF WithPut
    <3> HIDE DEF kept, id, more, at
    <3>2. TidyDoc(kept, made)
      BY <1>1, <1>3, <2>2, <3>1, TidyPut
    <3>3. kept \in SgDocuments
      BY <1>1, <1>3, <2>2, <3>1, PutGives DEF Extended
    <3> QED
      BY <3>1, <3>2, <3>3
  <2> QED
    BY <2>1, <2>2
<1>6. more \in Nat
  OBVIOUS
<1> HIDE DEF kept, id, more
<1>7. CASE req.flag
  <2>1. \A k \in Kinds : ActivatedAs(kept, req, id).half[k].held = kept.half[k].held
    BY <1>2, <1>5, ActivatedGives
  <2> QED
    BY <1>4, <1>5, <1>6, <1>7, <2>1, TidyStays DEF more
<1>8. CASE ~req.flag
  BY <1>4, <1>5, <1>8 DEF more
<1> QED
  BY <1>7, <1>8
(* A clean-up keeps the containers.                                         *)
LEMMA CleanedHolds ==
    ASSUME NEW doc \in SgDocuments
    PROVE  \A k \in Kinds : Cleaned(doc).half[k].held = doc.half[k].held
<1> DEFINE half == [k \in Kinds |->
                       [doc.half[k] EXCEPT
                           !.on = @ \/ doc.half[k].held # <<>>,
                           !.activeId = IF Place(doc.half[k].held, @) = 0 THEN 0 ELSE @]]
<1>1. \A k \in Kinds : half[k].held = doc.half[k].held
  BY HalfIs DEF SgHalves
<1> HIDE DEF half
<1>2. \E active : Cleaned(doc) = [doc EXCEPT !.half = half, !.active = active]
  BY DEF Cleaned, half
<1>3. \A active : [doc EXCEPT !.half = half, !.active = active].half = half
  BY DEF SgDocuments
<1> QED
  BY <1>1, <1>2, <1>3

(* A step that moves one request and leaves the settings alone.             *)
LEMMA TidyMoves ==
    ASSUME SgInv, SgTidy, NEW p \in SgProcs, NEW new, SgSet(p, new),
           new.doc \in {sgProc[p].doc, sgDoc, Cleared}, UNCHANGED <<sgDoc, sgMade>>
    PROVE  SgTidy'
<1>1. sgProc' = [sgProc EXCEPT ![p] = new] /\ DOMAIN sgProc = SgProcs
  BY DEF SgSet, SgInv, SgShape
<1>2. \A q \in SgProcs : sgProc'[q] = IF q = p THEN new ELSE sgProc[q]
  BY <1>1
<1>3. TidyDoc(new.doc, sgMade)
  BY TidyCleared DEF SgTidy
<1> QED
  BY <1>2, <1>3 DEF SgTidy

(* A save: the others keep the documents they loaded.                       *)
LEMMA TidyStores ==
    ASSUME SgInv, SgTidy, NEW p \in SgProcs, NEW doc, NEW whole \in BOOLEAN, Store(p, doc, whole),
           sgMade' \in {sgMade, sgMade + 1}, TidyDoc(doc, sgMade')
    PROVE  SgTidy'
<1>1. sgDoc' = doc /\ sgProc' = Overtaken(p, whole) /\ sgMade \in Nat
  BY DEF Store, SgInv, SgShape
<1> SUFFICES ASSUME NEW q \in SgProcs
             PROVE  TidyDoc(sgProc'[q].doc, sgMade')
  BY <1>1 DEF SgTidy
<1>2. sgProc'[q].doc \in {Cleared, sgProc[q].doc}
  <2>1. sgProc[q] \in SgRecords
    BY RecordIs
  <2>2. sgProc'[q] = IF q = p THEN SgIdle
                     ELSE IF sgProc[q].pc \in {"resolve", "read", "drop", "save"}
                          THEN [sgProc[q] EXCEPT !.behind = TRUE, !.wiped = @ \/ whole]
                          ELSE sgProc[q]
    BY <1>1 DEF Overtaken
  <2> QED
    BY <2>1, <2>2 DEF SgRecords, SgIdle
<1>3. TidyDoc(sgProc[q].doc, sgMade)
  BY DEF SgTidy
<1>4. TidyDoc(sgProc[q].doc, sgMade')
  BY <1>1, <1>3, TidyStays
<1> QED
  BY <1>2, <1>4, TidyCleared

(* The steps that leave the stored settings alone.                          *)
LEMMA TidyReads ==
    ASSUME SgInv, SgTidy, NEW p \in SgProcs,
           \/ SgLoad(p) \/ Resolve(p) \/ SampleFails(p) \/ ReadSample(p) \/ StageChange(p)
           \/ VerifyOlder(p) \/ DebugConnector(p) \/ ReadRows(p) \/ MarkImported(p)
           \/ Exchange(p) \/ DropSecret(p) \/ PeekSecret(p) \/ WriteAddress(p)
           \/ \E req \in Requests : Begin(p, req)
    PROVE  SgTidy'
<1> DEFINE s == sgProc[p]
<1>1. UNCHANGED <<sgDoc, sgMade>>
  BY DEF SgLoad, Resolve, SampleFails, ReadSample, StageChange, VerifyOlder, DebugConnector, ReadRows,
         MarkImported, Exchange, DropSecret, PeekSecret, WriteAddress, Begin, SgQuiet
<1>2. SgIdle.doc = Cleared /\ s \in SgRecords
  BY RecordIs DEF SgIdle
<1>3. \E new : SgSet(p, new) /\ new.doc \in {s.doc, sgDoc, Cleared}
  <2>1. CASE SgDone(p)
    BY <1>2, <2>1 DEF SgDone
  <2>2. CASE \E pc : SgSet(p, [s EXCEPT !.pc = pc])
    BY <1>2, <2>2 DEF SgRecords
  <2>3. CASE SgLoad(p)
    <3> DEFINE map == IF s.req.kind \in Kinds THEN CheckedMap(s.req, sgDoc.half[s.req.kind])
                      ELSE SameMap
               new == [s EXCEPT !.pc = AfterLoad(s.req), !.doc = sgDoc, !.version = sgVersion,
                                !.map = map]
    <3>1. SgDone(p) \/ SgSet(p, new)
      BY <2>3 DEF SgLoad, SgDone
    <3> HIDE DEF map
    <3>2. new.doc = sgDoc
      BY <1>2 DEF SgRecords
    <3> QED
      BY <2>1, <3>1, <3>2
  <2>4. CASE Resolve(p)
    <3> DEFINE Moved(id, map, kind) ==
                  [s EXCEPT !.pc = "read", !.id = id, !.map = map, !.req.kind = kind]
    <3>1. SgDone(p) \/ \E id, map, kind : SgSet(p, Moved(id, map, kind))
      BY <2>4 DEF Resolve
    <3>2. \A id, map, kind : Moved(id, map, kind).doc = s.doc
      BY <1>2 DEF SgRecords
    <3> HIDE DEF Moved
    <3> QED
      BY <2>1, <3>1, <3>2
  <2>5. CASE PeekSecret(p)
    <3>1. SgDone(p) \/ SgSet(p, [s EXCEPT !.pc = "back", !.id = sgSecret])
      BY <2>5 DEF PeekSecret, SgDone
    <3>2. [s EXCEPT !.pc = "back", !.id = sgSecret].doc = s.doc
      BY <1>2 DEF SgRecords
    <3> QED
      BY <2>1, <3>1, <3>2
  <2>6. CASE \E req \in Requests : Begin(p, req)
    <3> PICK req \in Requests : Begin(p, req)
      BY <2>6
    <3>1. SgSet(p, [SgIdle EXCEPT !.pc = FirstStep(req.op), !.req = req])
      BY DEF Begin
    <3>2. [SgIdle EXCEPT !.pc = FirstStep(req.op), !.req = req].doc = Cleared
      BY DEF SgIdle
    <3> QED
      BY <3>1, <3>2
  <2>7. CASE \/ SampleFails(p) \/ ReadSample(p) \/ StageChange(p) \/ VerifyOlder(p)
             \/ DebugConnector(p) \/ ReadRows(p) \/ MarkImported(p) \/ Exchange(p)
             \/ DropSecret(p) \/ WriteAddress(p)
    <3>1. SgDone(p) \/ \E pc : SgSet(p, [s EXCEPT !.pc = pc])
      BY <2>7 DEF SampleFails, ReadSample, StageChange, VerifyOlder, DebugConnector, ReadRows,
                  MarkImported, Exchange, DropSecret, WriteAddress, SgDone
    <3> QED
      BY <2>1, <2>2, <3>1
  <2> QED
    BY <2>3, <2>4, <2>5, <2>6, <2>7
<1> QED
  BY <1>1, <1>3, TidyMoves

(* Saves of single fields: the containers stay, or one is pushed or put.    *)
LEMMA TidySaves ==
    ASSUME SgInv, SgTidy, NEW p \in SgProcs,
           SaveActivated(p) \/ SaveCreated(p) \/ SaveUpdated(p) \/ SaveConnection(p)
    PROVE  SgTidy'
<1> DEFINE s == sgProc[p]
           kind == s.req.kind
<1>1. SgAt(p, "save") /\ s.req.op \in {"activate", "create", "update", "connect"}
  BY DEF SaveActivated, SaveCreated, SaveUpdated, SaveConnection
<1>2. /\ sgDoc \in SgDocuments /\ s.doc \in SgDocuments /\ s.req \in SgCalls /\ sgMade \in Nat
      /\ SgCheckedAt(s) /\ TidyDoc(sgDoc, sgMade)
  <2>1. s.req.op \notin {"debug", "import", "disconnect"}
    BY <1>1
  <2> QED
    BY <1>1, <2>1, AtSave DEF SgTidy
<1>3. \A new : \A k \in Kinds : Fields(sgDoc, s.doc, new).half[k].held = sgDoc.half[k].held
  BY DEF Fields
<1>4. CASE SaveActivated(p) \/ SaveConnection(p)
  <2> PICK new : Store(p, Fields(sgDoc, s.doc, new), FALSE)
    BY <1>4 DEF SaveActivated, SaveConnection
  <2>1. sgMade' = sgMade
    BY <1>4 DEF SaveActivated, SaveConnection
  <2>2. TidyDoc(Fields(sgDoc, s.doc, new), sgMade)
    BY <1>2, <1>3, TidyStays
  <2> QED
    BY <2>1, <2>2, TidyStores
<1>5. CASE SaveCreated(p)
  <2> DEFINE new == CreatedIn(s.doc, kind, sgMade + 1)
             kept == Fields(sgDoc, s.doc, new)
             c == [id |-> sgMade + 1, on |-> s.req.flag, map |-> s.map]
  <2>1. Store(p, WithPushed(kept, kind, c), FALSE) /\ sgMade' = sgMade + 1 /\ s.req.op = "create"
    BY <1>5 DEF SaveCreated, WithPushed
  <2>2. kind \in Kinds /\ s.map \in GoodMaps
    BY <1>1, <1>2, <2>1 DEF SgCheckedAt, Given, SgAt
  <2>3. c \in SgConnectors /\ c.id = sgMade + 1
    BY <1>2, <2>2 DEF SgConnectors, SgCalls
  <2>4. new \in SgDocuments
    BY <1>2, <2>2, CreatedGives
  <2>5. kept \in SgDocuments
    BY <1>2, <2>4, FieldsGive
  <2>6. TidyDoc(kept, sgMade)
    BY <1>2, <1>3, TidyStays
  <2> HIDE DEF kept, c
  <2>7. TidyDoc(WithPushed(kept, kind, c), sgMade + 1)
    BY <1>2, <2>2, <2>3, <2>5, <2>6, TidyPushed
  <2> QED
    BY <2>1, <2>7, TidyStores
<1>6. CASE SaveUpdated(p) /\ s.version # sgVersion
  <2>1. SgSet(p, SgIdle) /\ UNCHANGED <<sgDoc, sgMade>> /\ SgIdle.doc = Cleared
    BY <1>6 DEF SaveUpdated, SgDone, SgQuiet, SgIdle
  <2> QED
    BY <2>1, TidyMoves
<1>7. CASE SaveUpdated(p) /\ s.version = sgVersion
  <2> DEFINE at == Place(s.doc.half[kind].held, s.req.id)
             old == s.doc.half[kind].held[at]
             new == [old EXCEPT !.on = s.req.flag, !.map = s.map]
             stored == sgDoc.half[kind].held[at]
             c == Patched(stored, old, new)
  <2>1. sgMade' = sgMade
    BY <1>7 DEF SaveUpdated
  <2>2. CASE at \notin DOMAIN sgDoc.half[kind].held
    <3>1. Store(p, sgDoc, FALSE)
      BY <1>7, <2>2 DEF SaveUpdated
    <3> QED
      BY <1>2, <2>1, <3>1, TidyStores
  <2>3. CASE at \in DOMAIN sgDoc.half[kind].held
    <3>1. Store(p, WithPut(sgDoc, kind, at, c), FALSE) /\ s.req.op = "update"
      BY <1>7, <2>3 DEF SaveUpdated, WithPut
    <3>2. kind \in Kinds /\ s.map \in GoodMaps /\ at # 0
      BY <1>1, <1>2, <3>1 DEF SgCheckedAt, Given, SgAt
    <3>3. at \in DOMAIN s.doc.half[kind].held
      BY <1>2, <3>2, PlaceIs
    <3>4. old \in SgConnectors /\ stored \in SgConnectors
      BY <1>2, <2>3, <3>2, <3>3, HalfIs
    <3>5. new \in SgConnectors
      BY <1>2, <3>2, <3>4 DEF SgConnectors, SgCalls
    <3> HIDE DEF old, new, stored, at
    <3>6. c \in SgConnectors /\ c.id = stored.id
      BY <3>4, <3>5 DEF Patched, Written, SgConnectors
    <3> HIDE DEF c
    <3>7. TidyDoc(WithPut(sgDoc, kind, at, c), sgMade)
      <4>1. c.id = sgDoc.half[kind].held[at].id
        BY <3>6 DEF stored
      <4> QED
        BY <1>2, <2>3, <3>2, <3>6, <4>1, TidyPut
    <3> QED
      BY <2>1, <3>1, <3>7, TidyStores
  <2> QED
    BY <2>2, <2>3
<1> QED
  BY <1>4, <1>5, <1>6, <1>7

(* Saves of the whole subtree.                                              *)
LEMMA TidyWrites ==
    ASSUME SgInv, SgTidy, NEW p \in SgProcs,
           SaveCommitted(p) \/ SaveDeleted(p) \/ SaveReset(p) \/ SaveOlder(p) \/ SaveCleaned(p)
    PROVE  SgTidy'
<1> DEFINE s == sgProc[p]
<1>1. /\ s.doc \in SgDocuments /\ s.req \in SgCalls /\ sgMade \in Nat /\ SgCheckedAt(s)
      /\ TidyDoc(s.doc, sgMade) /\ s.pc = "save"
  <2>1. SgAt(p, "save") /\ s.req.op \notin {"debug", "import", "disconnect"}
    BY DEF SaveCommitted, SaveDeleted, SaveReset, SaveOlder, SaveCleaned, SaveWhole, SgOp
  <2> QED
    BY <2>1, AtSave DEF SgTidy, SgAt
<1>2. CASE SaveCommitted(p)
  <2> DEFINE doc == CommittedAs(s.doc, s.req, sgMade + 1)
  <2>1. /\ Store(p, doc, TRUE) /\ s.req.op = "commit"
        /\ sgMade' = IF Fallback(s.doc.half[s.req.kind], s.req.id) = 0 THEN sgMade + 1 ELSE sgMade
    BY <1>2 DEF SaveCommitted, SaveWhole, SgOp
  <2>2. s.req.kind \in Kinds /\ s.req.map \in GoodMaps
    BY <1>1, <2>1 DEF SgCheckedAt, Given
  <2> HIDE DEF s
  <2>3. TidyDoc(doc, sgMade')
    BY <1>1, <2>1, <2>2, TidyCommitted
  <2>4. sgMade' \in {sgMade, sgMade + 1}
    BY <2>1
  <2> HIDE DEF doc
  <2> QED
    BY <2>1, <2>3, <2>4, TidyStores
<1>3. CASE SaveDeleted(p)
  <2>1. Store(p, Cleared, TRUE) /\ sgMade' = sgMade
    BY <1>3 DEF SaveDeleted, SaveWhole
  <2> QED
    BY <2>1, TidyCleared, TidyStores
<1>4. CASE SaveReset(p)
  <2>1. sgMade' = sgMade /\ \E a : Store(p, [Cleared EXCEPT !.active = a], TRUE)
    BY <1>4 DEF SaveReset, SaveWhole
  <2> QED
    BY <2>1, TidyCleared, TidyStores
<1>5. CASE SaveOlder(p)
  <2>1. Store(p, s.doc, TRUE) /\ sgMade' = sgMade
    BY <1>5 DEF SaveOlder, SaveWhole
  <2> QED
    BY <1>1, <2>1, TidyStores
<1>6. CASE SaveCleaned(p)
  <2>1. Store(p, Cleaned(s.doc), TRUE) /\ sgMade' = sgMade
    BY <1>6 DEF SaveCleaned, SaveWhole
  <2>2. \A k \in Kinds : Cleaned(s.doc).half[k].held = s.doc.half[k].held
    BY <1>1, CleanedHolds
  <2> HIDE DEF s
  <2>3. TidyDoc(Cleaned(s.doc), sgMade)
    BY <1>1, <2>2, TidyStays
  <2> QED
    BY <2>1, <2>3, TidyStores DEF s
<1> QED
  BY <1>2, <1>3, <1>4, <1>5, <1>6

(* No id is given twice, in the stored document and in those loaded.        *)
LEMMA TidyInit ==
    ASSUME SgInit
    PROVE  SgTidy
<1>1. TidyDoc(sgDoc, sgMade)
  <2>1. sgDoc = sgScript.start /\ sgScript \in SgScripts /\ sgMade = Containers(sgScript.start)
    BY DEF SgInit
  <2>2. \A k \in Kinds :
           LET held == sgScript.start.half[k].held
           IN  \A i, j \in DOMAIN held : /\ held[i].id \in 1 .. Containers(sgScript.start)
                                         /\ held[i].id = held[j].id => i = j
    BY <2>1, SheetsStartAssumption
  <2> QED
    BY <2>1, <2>2 DEF TidyDoc, TidySeq
<1>2. \A p \in SgProcs : sgProc[p].doc = Cleared
  BY DEF SgInit, SgIdle
<1> QED
  BY <1>1, <1>2, TidyCleared DEF SgTidy

(* The two invariants together.                                             *)
LEMMA SgTidyAlways == SgSpec => [](SgInv /\ SgTidy)
<1>1. SgInit => SgInv /\ SgTidy
  BY SgInitially, TidyInit
<1>2. SgInv /\ SgTidy /\ [SgNext]_sgVars => (SgInv /\ SgTidy)'
  <2> SUFFICES ASSUME SgInv, SgTidy, [SgNext]_sgVars
               PROVE  SgTidy'
    BY SgStepKeeps
  <2>1. CASE UNCHANGED sgVars
    BY <2>1 DEF sgVars, SgTidy
  <2>2. ASSUME NEW p \in SgProcs, SgStep(p) \/ \E req \in Requests : Begin(p, req)
        PROVE  SgTidy'
    BY <2>2, TidyReads, TidySaves, TidyWrites, Zenon DEF SgStep
  <2> QED
    BY <2>1, <2>2 DEF SgNext
<1> QED
  BY <1>1, <1>2, PTL DEF SgSpec

-----------------------------------------------------------------------------
(* In a tidy document a kind's active id names one container, which is the  *)
(* one a reference to it resolves to.                                       *)
LEMMA OneNamed ==
    ASSUME NEW doc \in SgDocuments, NEW made, TidyDoc(doc, made), NEW k \in Kinds,
           NEW at \in DOMAIN doc.half[k].held
    PROVE  LET held == doc.half[k].held IN
           /\ held[at].id # 0 /\ Place(held, held[at].id) = at
           /\ \A i \in DOMAIN held : held[i] = held[at] => i = at
           /\ doc.half[k].activeId = held[at].id => Named(doc.half[k]) = {held[at]}
<1> DEFINE held == doc.half[k].held
<1>1. \A i \in DOMAIN held : held[i].id \in 1 .. made /\ i # 0
                             /\ \A j \in DOMAIN held : held[i].id = held[j].id => i = j
  BY HalfIs DEF TidyDoc, TidySeq
<1>2. Place(held, held[at].id) = at
  BY <1>1 DEF Place
<1>3. held[at].id # 0
  BY <1>1
<1>4. doc.half[k].activeId = held[at].id => Named(doc.half[k]) = {held[at]}
  BY <1>1 DEF Named
<1> QED
  BY <1>1, <1>2, <1>3, <1>4

(* The container of a kind's active id: what the page's sync names, what    *)
(* the card shows of it, and what the server resolves.                      *)
LEMMA NamedIs ==
    ASSUME NEW doc \in SgDocuments, NEW made, TidyDoc(doc, made), doc.active \in Kinds,
           doc.half[doc.active].on, NEW at \in DOMAIN doc.half[doc.active].held,
           doc.half[doc.active].activeId = doc.half[doc.active].held[at].id
    PROVE  LET c == doc.half[doc.active].held[at] IN
           /\ c \in SgConnectors /\ Usable(c)
           /\ Active(doc) = {d \in {c} : d.on}
           /\ SyncConfigured(doc)
           /\ ByRef(doc, SyncRequest(doc).kind, SyncRequest(doc).id) = {d \in {c} : d.on}
           /\ ModeOf(doc) = doc.active
           /\ CardShows(doc) \subseteq {c}
           /\ c.on /\ (doc.active = "oauth" => doc.connected) => CardShows(doc) = {c}
<1> DEFINE kind == doc.active
           half == doc.half[kind]
           held == half.held
           c == held[at]
<1>1. /\ c.id # 0 /\ Place(held, c.id) = at /\ Named(half) = {c} /\ at # 0
  BY OneNamed, HalfIs
<1>2. c \in SgConnectors /\ Usable(c)
  BY HalfIs, SheetsSettingsAssumption DEF SgConnectors, Usable
<1>3. ByRef(doc, kind, 0) = {d \in {c} : d.on} /\ ByRef(doc, kind, c.id) = {d \in {c} : d.on}
  BY <1>1 DEF ByRef
<1>4. Active(doc) = {d \in {c} : d.on}
  BY <1>1, <1>3 DEF Active
<1>5. SyncConfigured(doc)
  BY <1>2 DEF SyncConfigured, HasUsable
<1>6. ByRef(doc, SyncRequest(doc).kind, SyncRequest(doc).id) = {d \in {c} : d.on}
  <2>1. PickActive(half) = {c}
    BY <1>1, <1>2 DEF PickActive
  <2> DEFINE found == UNION {{<<k, d.id>> : d \in PickActive(doc.half[k])} : k \in {kind}}
  <2>2. found = {<<kind, c.id>>}
    BY <2>1
  <2> DEFINE Asked(k, id) == [NoRequest EXCEPT !.op = "import", !.kind = k, !.id = id]
             ref == CHOOSE r \in found : TRUE
  <2>3. SyncRequest(doc) = IF found = {} THEN [NoRequest EXCEPT !.op = "import"]
                           ELSE Asked(ref[1], ref[2])
    <3>1. kind # NoKind
      BY DEF NoKind, Kinds
    <3> QED
      BY <3>1 DEF SyncRequest
  <2>4. \A k, id : Asked(k, id).kind = k /\ Asked(k, id).id = id
    BY DEF NoRequest
  <2> HIDE DEF found, c, Asked
  <2>5. found # {} /\ ref[1] = kind /\ ref[2] = c.id
    <3>1. \E r \in found : TRUE
      BY <2>2
    <3>2. ref \in found
      BY <3>1
    <3> HIDE DEF ref
    <3> QED
      BY <2>2, <3>2
  <2> HIDE DEF ref
  <2>6. SyncRequest(doc) = Asked(kind, c.id)
    BY <2>3, <2>5
  <2> QED
    BY <1>3, <2>4, <2>6
<1>7. ModeOf(doc) = kind
  BY DEF ModeOf, Kinds
<1>8. Preferred(half) = {c}
  BY <1>1 DEF Preferred
<1>9. CardShows(doc) \subseteq {c}
  BY <1>7, <1>8 DEF CardShows
<1>10. ASSUME c.on, doc.active = "oauth" => doc.connected
       PROVE  CardShows(doc) = {c}
  <2>1. StatusOf(doc, kind) = "ready"
    <3>1. CASE kind = "oauth"
      BY <1>2, <1>8, <1>10, <3>1 DEF StatusOf
    <3>2. CASE kind = "shared"
      BY <1>2, <1>8, <1>10, <3>2 DEF StatusOf
    <3> QED
      BY <3>1, <3>2 DEF Kinds
  <2> QED
    BY <1>7, <1>8, <2>1 DEF CardShows, AuthorityState
<1> QED
  BY <1>2, <1>4, <1>5, <1>6, <1>7, <1>9, <1>10

(* A document that already has a container active is not changed by it.     *)
LEMMA ActivatedSame ==
    ASSUME NEW doc \in SgDocuments, NEW req, req.kind \in Kinds, req.kind = doc.active,
           NEW id \in Nat, doc.half[req.kind].on, doc.half[req.kind].activeId = id
    PROVE  ActivatedAs(doc, req, id) = doc
<1> DEFINE new == ActivatedAs(doc, req, id)
<1>1. new.connected = doc.connected
  BY DEF ActivatedAs, SgDocuments
<1>2. new = ActivatedAs(doc, req, id)
  OBVIOUS
<1> HIDE DEF new
<1>3. /\ new \in SgDocuments /\ new.active = doc.active
      /\ new.half[req.kind].on /\ new.half[req.kind].activeId = id
      /\ \A k \in Kinds : /\ new.half[k].held = doc.half[k].held
                          /\ k # req.kind => new.half[k] = doc.half[k]
  BY <1>2, ActivatedGives
<1>4. ASSUME NEW k \in Kinds
      PROVE  new.half[k] = doc.half[k]
  <2>1. CASE k # req.kind
    BY <1>3, <2>1
  <2>2. CASE k = req.kind
    <3>1. \A x, y \in SgHalves : x.on = y.on /\ x.activeId = y.activeId /\ x.held = y.held => x = y
      BY DEF SgHalves
    <3>2. new.half[k] \in SgHalves /\ doc.half[k] \in SgHalves
      BY <1>3, HalfIs
    <3>3. new.half[k].on = doc.half[k].on
      <4>1. new.half[k].on \in BOOLEAN /\ doc.half[k].on \in BOOLEAN
        BY <3>2 DEF SgHalves
      <4> QED
        BY <1>3, <2>2, <4>1
    <3>4. new.half[k].activeId = doc.half[k].activeId /\ new.half[k].held = doc.half[k].held
      BY <1>3, <2>2
    <3> QED
      BY <3>1, <3>2, <3>3, <3>4
  <2> QED
    BY <2>1, <2>2
<1>5. new.half = doc.half
  <2>1. new.half \in [Kinds -> SgHalves] /\ doc.half \in [Kinds -> SgHalves]
    BY <1>3 DEF SgDocuments
  <2> QED
    BY <1>4, <2>1
<1>6. \A x, y \in SgDocuments :
         x.active = y.active /\ x.connected = y.connected /\ x.half = y.half => x = y
  BY DEF SgDocuments
<1> QED
  BY <1>1, <1>2, <1>3, <1>5, <1>6

(* Confirming the mapping of the active container commits it where it is.   *)
SwitchedOn(doc, c) ==
    [doc EXCEPT !.half[doc.active].held =
        [i \in DOMAIN @ |-> IF @[i] = c THEN [c EXCEPT !.on = TRUE] ELSE @[i]]]
LEMMA ConfirmedIs ==
    ASSUME NEW doc \in SgDocuments, NEW made, TidyDoc(doc, made), doc.active \in Kinds,
           doc.half[doc.active].on, NEW at \in DOMAIN doc.half[doc.active].held,
           doc.half[doc.active].activeId = doc.half[doc.active].held[at].id,
           NEW req, LET c == doc.half[doc.active].held[at] IN
                       /\ req.kind = doc.active /\ req.id = c.id /\ req.map = c.map /\ req.flag
    PROVE  CommittedAs(doc, req, 0) = SwitchedOn(doc, doc.half[doc.active].held[at])
<1> DEFINE kind == doc.active
           half == doc.half[kind]
           held == half.held
           c == held[at]
           on == [c EXCEPT !.on = TRUE]
           put == [held EXCEPT ![at] = on]
           kept == [doc EXCEPT !.half[kind].held = put]
<1>1. c \in SgConnectors /\ held \in Seq(SgConnectors) /\ at # 0 /\ c.id \in Nat
  <2>1. held \in Seq(SgConnectors) /\ \A i \in DOMAIN held : held[i] \in SgConnectors /\ i \in Nat \ {0}
    BY HalfIs, Zenon
  <2>2. \A x \in SgConnectors : x.id \in Nat
    BY DEF SgConnectors
  <2> HIDE DEF held
  <2> QED
    BY <2>1, <2>2 DEF held
<1>2. Fallback(half, c.id) = at
  <2>1. Place(held, c.id) = at
    BY OneNamed, Zenon
  <2> HIDE DEF half, c
  <2> QED
    BY <1>1, <2>1 DEF Fallback
<1>3. [id |-> c.id, on |-> TRUE, map |-> c.map] = on
  <2>1. \A x \in SgConnectors : \A is :
           [x EXCEPT !.on = is] = [id |-> x.id, on |-> is, map |-> x.map]
    BY DEF SgConnectors
  <2> HIDE DEF c
  <2> QED
    BY <1>1, <2>1, Zenon
<1>4. on \in SgConnectors /\ on.id = c.id
  BY <1>1 DEF SgConnectors
<1>5. put = [i \in DOMAIN held |-> IF held[i] = c THEN on ELSE held[i]]
  BY <1>1, OneNamed
<1> HIDE DEF on
<1>6. CommittedAs(doc, req, 0) = ActivatedAs(kept, req, c.id)
  BY <1>1, <1>2, <1>3 DEF CommittedAs
<1>7. kept = WithPut(doc, kind, at, on)
  BY DEF WithPut
<1> HIDE DEF put, kept
<1>8. /\ kept \in SgDocuments /\ kept.active = kind /\ kept.half[kind].on
      /\ kept.half[kind].activeId = c.id
  <2>1. Extended(doc, kept)
    BY <1>1, <1>4, <1>7, PutGives
  <2> QED
    BY <2>1 DEF Extended
<1>9. ActivatedAs(kept, req, c.id) = kept
  BY <1>1, <1>8, ActivatedSame
<1> QED
  BY <1>5, <1>6, <1>9 DEF SwitchedOn, kept, on

(* ClientsAgree: the browser and the server name the same container.  The   *)
(* ids of a kind's containers are given once, so the active id names one    *)
(* container wherever it is looked up, and every stored mapping is complete,*)
(* so none of the browser's fall-backs to the first container is taken.     *)
THEOREM SheetsClientsAgree == SgSpec => []ClientsAgree
<1>1. SgInv /\ SgTidy => ClientsAgree
  <2> SUFFICES ASSUME SgInv, SgTidy
               PROVE  ClientsAgree
    OBVIOUS
  <2> DEFINE half == sgDoc.half[sgDoc.active]
  <2>1. sgDoc \in SgDocuments /\ TidyDoc(sgDoc, sgMade)
    BY DEF SgInv, SgShape, SgTidy
  <2>2. ASSUME NEW c \in Active(sgDoc)
        PROVE  /\ SyncConfigured(sgDoc)
               /\ ByRef(sgDoc, SyncRequest(sgDoc).kind, SyncRequest(sgDoc).id) = {c}
               /\ (sgDoc.active = "oauth" => sgDoc.connected) => CardShows(sgDoc) = {c}
    <3>1. sgDoc.active \in Kinds /\ half.on /\ c \in ByRef(sgDoc, sgDoc.active, 0)
      BY <2>2 DEF Active
    <3> DEFINE at == Place(half.held, half.activeId)
    <3>2. at # 0 /\ c = half.held[at] /\ c.on
      BY <3>1 DEF ByRef
    <3>3. at \in DOMAIN half.held /\ half.activeId = half.held[at].id
      BY <2>1, <3>1, <3>2, PlaceIs
    <3> HIDE DEF at
    <3>4. /\ SyncConfigured(sgDoc)
          /\ ByRef(sgDoc, SyncRequest(sgDoc).kind, SyncRequest(sgDoc).id) = {d \in {c} : d.on}
          /\ c.on /\ (sgDoc.active = "oauth" => sgDoc.connected) => CardShows(sgDoc) = {c}
      BY <2>1, <3>1, <3>2, <3>3, NamedIs
    <3> QED
      BY <3>2, <3>4
  <2>3. ASSUME sgDoc.active \in Kinds, ~sgRaced, NEW c \in CardShows(sgDoc)
        PROVE  /\ Active(sgDoc) = {d \in {c} : d.on}
               /\ ReadinessOf(sgDoc, c.map) = "ready"
               /\ CommittedAs(sgDoc, ConfirmRequest(sgDoc), 0) = SwitchedOn(sgDoc, c)
    <3>1. half.on /\ half.activeId \in HeldIds(half)
      BY <2>3 DEF SgInv, SgSteady, Sound
    <3>2. PICK at \in DOMAIN half.held : half.activeId = half.held[at].id
      BY <3>1 DEF HeldIds
    <3>3. /\ half.held[at] \in SgConnectors /\ ModeOf(sgDoc) = sgDoc.active
          /\ CardShows(sgDoc) \subseteq {half.held[at]}
          /\ Active(sgDoc) = {d \in {half.held[at]} : d.on}
      BY <2>1, <2>3, <3>1, <3>2, NamedIs
    <3>4. c = half.held[at] /\ CardShows(sgDoc) = {c}
      BY <2>3, <3>3
    <3>5. (CHOOSE d \in CardShows(sgDoc) : TRUE) = c
      BY <3>4
    <3>6. ReadinessOf(sgDoc, c.map) = "ready"
      <4>1. AuthorityState(sgDoc) = "active_ready"
        BY <3>4 DEF CardShows
      <4>2. c.map \in GoodMaps
        BY <3>3, <3>4 DEF SgConnectors
      <4> QED
        BY <3>5, <4>1, <4>2 DEF ReadinessOf
    <3>7. ConfirmRequest(sgDoc)
             = [op |-> "commit", kind |-> sgDoc.active, id |-> c.id, map |-> c.map, flag |-> TRUE]
      BY <3>3, <3>5 DEF ConfirmRequest
    <3>8. /\ ConfirmRequest(sgDoc).kind = sgDoc.active /\ ConfirmRequest(sgDoc).id = c.id
          /\ ConfirmRequest(sgDoc).map = c.map /\ ConfirmRequest(sgDoc).flag
      BY <3>7
    <3>9. CommittedAs(sgDoc, ConfirmRequest(sgDoc), 0) = SwitchedOn(sgDoc, c)
      BY <2>1, <2>3, <3>1, <3>2, <3>4, <3>8, ConfirmedIs
    <3> QED
      BY <3>3, <3>4, <3>6, <3>9
  <2> QED
    BY <2>2, <2>3 DEF ClientsAgree, SwitchedOn
<1> QED
  BY <1>1, SgTidyAlways, PTL

-----------------------------------------------------------------------------
(* The wizard. A save keeps the selection the form showed when it was made; *)
(* past its first step the mapping was matched, past its second the tab read.*)
IsSave(save) ==
    save = [pc |-> save.pc, sheet |-> save.sheet, tab |-> save.tab, map |-> save.map]
SuChosen(save) == [sheet |-> save.sheet, tab |-> save.tab, map |-> save.map]
SaveFits(save) ==
    /\ IsSave(save) /\ SuChosen(save) \in suShown
    /\ save.pc # "validate" => Matches(save)
SavesFit == \A save \in suSaves : SaveFits(save)
SuInv == SavesFit /\ SavedWasChecked

(* A save that goes on, its mapping matched, or stops.                       *)
LEMMA SaveGoesOn ==
    ASSUME SuInv, NEW save \in suSaves, NEW pc, UNCHANGED suShown,
           (SaveGoes(save, pc) /\ Matches(save)) \/ SaveStops(save)
    PROVE  SavesFit'
<1> DEFINE new == [save EXCEPT !.pc = pc]
<1>1. CASE SaveGoes(save, pc) /\ Matches(save)
  <2>1. suSaves' = (suSaves \ {save}) \cup {new}
    BY <1>1 DEF SaveGoes
  <2>2. new = [pc |-> pc, sheet |-> save.sheet, tab |-> save.tab, map |-> save.map]
    BY DEF SuInv, SavesFit, SaveFits, IsSave
  <2>3. IsSave(new) /\ SuChosen(new) = SuChosen(save) /\ new.map = save.map
    BY <2>2 DEF IsSave, SuChosen
  <2> HIDE DEF new
  <2>4. SuChosen(new) \in suShown' /\ Matches(new)
    BY <1>1, <2>3 DEF SuInv, SavesFit, SaveFits, Matches
  <2> QED
    BY <2>1, <2>3, <2>4 DEF SuInv, SavesFit, SaveFits
<1>2. CASE SaveStops(save)
  BY <1>2 DEF SaveStops, SuInv, SavesFit, SaveFits
<1> QED
  BY <1>1, <1>2

(* A save that stops, or a new one beside the others.                       *)
LEMMA SavesStay ==
    ASSUME SuInv, suSaves' \subseteq suSaves, UNCHANGED <<suShown, suSaved>>
    PROVE  SuInv'
BY DEF SuInv, SavesFit, SaveFits, SavedWasChecked

(* Every step keeps the invariant.                                          *)
LEMMA SuStepKeeps ==
    ASSUME SuInv, [SuNext]_suVars
    PROVE  SuInv'
<1>1. CASE UNCHANGED suVars
  BY <1>1, SavesStay DEF suVars
<1>2. CASE \/ OpenWizard \/ SwitchSource \/ GoBack \/ SelectSheet \/ SelectTab \/ EditMapping
           \/ VerifyShared \/ CloseWizard \/ Proceed \/ FilesListed \/ TabsLoaded \/ PreviewLoaded
           \/ LoadFailed
  <2>1. UNCHANGED <<suSaves, suShown, suSaved>>
    BY <1>2, Zenon DEF OpenWizard, SwitchSource, GoBack, SelectSheet, SelectTab, EditMapping,
                       VerifyShared, CloseWizard, Proceed, FilesListed, TabsLoaded, PreviewLoaded,
                       LoadFailed
  <2> QED
    BY <2>1, SavesStay
<1>3. CASE HandleCommit
  <2> DEFINE new == [pc |-> "validate", sheet |-> suForm.sheet, tab |-> suForm.tab,
                     map |-> suForm.map]
             shown == [sheet |-> suForm.sheet, tab |-> suForm.tab, map |-> suForm.map]
  <2>1. suSaves' = suSaves \cup {new} /\ suShown' = suShown \cup {shown} /\ UNCHANGED suSaved
    BY <1>3 DEF HandleCommit
  <2>2. IsSave(new) /\ new.pc = "validate" /\ SuChosen(new) = shown
    BY DEF IsSave, SuChosen
  <2> HIDE DEF new, shown
  <2>3. SavesFit'
    BY <2>1, <2>2 DEF SuInv, SavesFit, SaveFits
  <2>4. SavedWasChecked'
    BY <2>1 DEF SuInv, SavedWasChecked
  <2> QED
    BY <2>3, <2>4 DEF SuInv
<1>4. CASE Validate
  <2> PICK save \in suSaves :
         SavePasses(save, Matches(save), "stage") /\ UNCHANGED <<suShown, suSaved>>
    BY <1>4 DEF Validate
  <2>1. SavesFit'
    BY SaveGoesOn DEF SavePasses
  <2> QED
    BY <2>1 DEF SuInv, SavedWasChecked
<1>5. CASE Stage
  <2> PICK save \in suSaves :
         /\ save.pc = "stage" /\ SavePasses(save, Readable(save), "commit")
         /\ UNCHANGED <<suShown, suSaved>>
    BY <1>5 DEF Stage
  <2>1. Matches(save)
    BY DEF SuInv, SavesFit, SaveFits
  <2>2. SavesFit'
    BY <2>1, SaveGoesOn DEF SavePasses
  <2> QED
    BY <2>2 DEF SuInv, SavedWasChecked
<1>6. CASE CommitChange
  <2> PICK save \in suSaves :
         /\ save.pc = "commit" /\ SavePasses(save, Readable(save), "sync")
         /\ suSaved' = IF Readable(save) THEN {Committed(save)} ELSE suSaved
         /\ UNCHANGED suShown
    BY <1>6 DEF CommitChange
  <2>1. Matches(save) /\ SuChosen(save) \in suShown
    BY DEF SuInv, SavesFit, SaveFits
  <2>2. SavesFit'
    BY <2>1, SaveGoesOn DEF SavePasses
  <2>3. Committed(save) = [SuChosen(save) EXCEPT !.map = SuNormal[@]]
        /\ Committed(save).tab = save.tab /\ Committed(save).sheet = save.sheet
        /\ SuChosen(save).map = save.map
    BY DEF Committed, SuChosen
  <2>4. SavedWasChecked'
    BY <2>1, <2>3 DEF SuInv, SavedWasChecked, Readable, Matches
  <2> QED
    BY <2>2, <2>4 DEF SuInv
<1>7. CASE InstantSync
  <2>1. suSaves' \subseteq suSaves /\ UNCHANGED <<suShown, suSaved>>
    BY <1>7 DEF InstantSync
  <2> QED
    BY <2>1, SavesStay
<1>8. CASE SaveFailed
  <2>1. suSaves' \subseteq suSaves /\ UNCHANGED <<suShown, suSaved>>
    BY <1>8 DEF SaveFailed, SaveStops
  <2> QED
    BY <2>1, SavesStay
<1> QED
  BY <1>1, <1>2, <1>3, <1>4, <1>5, <1>6, <1>7, <1>8, Zenon DEF SuNext

(* SavedWasChecked: what a commit stores is a selection the form showed when *)
(* Save was pressed, of a tab its spreadsheet has and of a mapping the match *)
(* accepted, whatever lists, previews, edits and other saves come between:   *)
(* each call carries the selection captured at the click, and the calls that *)
(* read the tab refuse one that the spreadsheet lacks.                       *)
THEOREM SheetsSavedWasChecked == SuSpec => []SavedWasChecked
<1>1. SuInit => SuInv
  BY DEF SuInit, SuInv, SavesFit, SavedWasChecked
<1>2. SuInv /\ [SuNext]_suVars => SuInv'
  BY SuStepKeeps
<1>3. SuInv => SavedWasChecked
  BY DEF SuInv
<1> QED
  BY <1>1, <1>2, <1>3, PTL DEF SuSpec
-----------------------------------------------------------------------------
(* Ids and tokens are the ones that were given.                            *)

(* No id of a document is greater than n.                                   *)
Made(doc, n) ==
    \A k \in Kinds : /\ doc.half[k].activeId <= n
                     /\ \A i \in DOMAIN doc.half[k].held : doc.half[k].held[i].id <= n

(* What a request has at hand was made, or issued, before.                  *)
MadeAt(s, made, tokens) ==
    /\ Made(s.doc, made)
    /\ s.req.op = "activate" /\ s.pc \in {"read", "save"} => s.id <= made
    /\ s.pc = "back" => s.id <= tokens

SgMadeInv ==
    /\ Made(sgDoc, sgMade) /\ sgSecret <= sgTokens
    /\ \A p \in SgProcs : MadeAt(sgProc[p], sgMade, sgTokens)

(* What is made stays made.                                                 *)
LEMMA MadeMore ==
    ASSUME NEW doc \in SgDocuments, NEW m \in Nat, NEW n \in Nat, m <= n, Made(doc, m)
    PROVE  Made(doc, n)
<1> SUFFICES ASSUME NEW k \in Kinds
             PROVE  /\ doc.half[k].activeId <= n
                    /\ \A i \in DOMAIN doc.half[k].held : doc.half[k].held[i].id <= n
  BY DEF Made
<1>1. doc.half[k].activeId \in Nat /\ doc.half[k].activeId <= m
  BY HalfIs DEF Made
<1>2. ASSUME NEW i \in DOMAIN doc.half[k].held PROVE doc.half[k].held[i].id <= n
  <2>1. doc.half[k].held[i] \in SgConnectors /\ doc.half[k].held[i].id <= m
    BY HalfIs DEF Made
  <2>2. doc.half[k].held[i].id \in Nat
    BY <2>1 DEF SgConnectors
  <2> QED
    BY <2>1, <2>2
<1> QED
  BY <1>1, <1>2

LEMMA IdleIsMade ==
    ASSUME NEW made \in Nat, NEW tokens
    PROVE  Made(Cleared, made) /\ MadeAt(SgIdle, made, tokens)
BY DEF Made, MadeAt, SgIdle, Cleared, Unset, NoRequest

LEMMA SameMade ==
    ASSUME SgInv, SgMadeInv, NEW q \in SgProcs, NEW made \in Nat, NEW tokens \in Nat,
           sgMade <= made, sgTokens <= tokens
    PROVE  MadeAt(sgProc[q], made, tokens)
<1>1. /\ sgProc[q].doc \in SgDocuments /\ sgProc[q].id \in Nat /\ sgMade \in Nat /\ sgTokens \in Nat
      /\ MadeAt(sgProc[q], sgMade, sgTokens)
  BY RecordIs DEF SgInv, SgShape, SgMadeInv
<1>2. Made(sgProc[q].doc, made)
  BY <1>1, MadeMore DEF MadeAt
<1> QED
  BY <1>1, <1>2 DEF MadeAt

(* A step that moves one request and leaves the settings alone.             *)
LEMMA MovesMade ==
    ASSUME SgInv, SgMadeInv, NEW p \in SgProcs, NEW new, SgSet(p, new),
           sgDoc' = sgDoc, sgMade' = sgMade, sgSecret' <= sgTokens',
           sgTokens' \in Nat, sgTokens <= sgTokens',
           MadeAt(new, sgMade, sgTokens')
    PROVE  SgMadeInv'
<1>1. \A q \in SgProcs : sgProc'[q] = IF q = p THEN new ELSE sgProc[q]
  BY DEF SgSet, SgInv, SgShape
<1>2. sgMade \in Nat /\ sgMade <= sgMade
  BY DEF SgInv, SgShape
<1>3. \A q \in SgProcs : MadeAt(sgProc'[q], sgMade, sgTokens')
  BY <1>1, <1>2, SameMade
<1> QED
  BY <1>3 DEF SgMadeInv

(* A save of ids that were made.                                            *)
LEMMA StoresMade ==
    ASSUME SgInv, SgMadeInv, NEW p \in SgProcs, NEW doc, NEW whole \in BOOLEAN,
           Store(p, doc, whole), sgMade' \in Nat, sgMade <= sgMade', Made(doc, sgMade')
    PROVE  SgMadeInv'
<1>1. /\ sgDoc' = doc /\ sgProc' = Overtaken(p, whole) /\ sgSecret' = sgSecret /\ sgTokens' = sgTokens
      /\ sgTokens \in Nat /\ sgSecret <= sgTokens
  BY DEF Store, SgInv, SgShape, SgMadeInv
<1>2. ASSUME NEW q \in SgProcs
      PROVE  MadeAt(sgProc'[q], sgMade', sgTokens)
  <2>1. MadeAt(sgProc[q], sgMade', sgTokens) /\ sgProc[q] \in SgRecords
    BY <1>1, SameMade, RecordIs
  <2>2. CASE sgProc'[q] = SgIdle
    BY <2>2, IdleIsMade
  <2>3. CASE sgProc'[q] = sgProc[q]
    BY <2>1, <2>3
  <2>4. CASE sgProc'[q] = [sgProc[q] EXCEPT !.behind = TRUE, !.wiped = @ \/ whole]
    <3> DEFINE wiped == sgProc[q].wiped \/ whole
    <3> HIDE DEF wiped
    <3>1. sgProc'[q] = [sgProc[q] EXCEPT !.behind = TRUE, !.wiped = wiped]
      BY <2>4 DEF wiped
    <3>2. /\ sgProc'[q].doc = sgProc[q].doc /\ sgProc'[q].req = sgProc[q].req
          /\ sgProc'[q].pc = sgProc[q].pc /\ sgProc'[q].id = sgProc[q].id
      BY <2>1, <3>1 DEF SgRecords
    <3> QED
      BY <2>1, <3>2 DEF MadeAt
  <2> QED
    BY <1>1, <2>2, <2>3, <2>4 DEF Overtaken
<1> QED
  BY <1>1, <1>2 DEF SgMadeInv

LEMMA StoresSame ==
    ASSUME SgInv, SgMadeInv, NEW p \in SgProcs, NEW doc, NEW whole \in BOOLEAN,
           Store(p, doc, whole), sgMade' = sgMade, Made(doc, sgMade)
    PROVE  SgMadeInv'
<1>1. sgMade' \in Nat /\ sgMade <= sgMade' /\ Made(doc, sgMade')
  BY DEF SgInv, SgShape
<1> QED
  BY <1>1, StoresMade

(* A save of the fields that were changed has ids of both documents.        *)
LEMMA FieldsMade ==
    ASSUME NEW stored \in SgDocuments, NEW loaded \in SgDocuments, NEW new \in SgDocuments,
           NEW n \in Nat, Made(stored, n), \A k \in Kinds : new.half[k].activeId <= n
    PROVE  Made(Fields(stored, loaded, new), n)
<1> DEFINE doc == Fields(stored, loaded, new)
<1>1. \A k \in Kinds : /\ doc.half[k].activeId \in {stored.half[k].activeId, new.half[k].activeId}
                       /\ doc.half[k].held = stored.half[k].held
  BY FieldsGive, SgWritten
<1> HIDE DEF doc
<1> SUFFICES ASSUME NEW k \in Kinds
             PROVE  /\ doc.half[k].activeId <= n
                    /\ \A i \in DOMAIN doc.half[k].held : doc.half[k].held[i].id <= n
  BY DEF Made, doc
<1>2. doc.half[k].activeId <= n
  BY <1>1 DEF Made
<1>3. \A i \in DOMAIN doc.half[k].held : doc.half[k].held[i].id <= n
  BY <1>1 DEF Made
<1> QED
  BY <1>2, <1>3

(* So has a document in which the containers of a kind are others.          *)
LEMMA HeldMade ==
    ASSUME NEW doc \in SgDocuments, NEW kind \in Kinds, NEW held, NEW n \in Nat, Made(doc, n),
           \A i \in DOMAIN held : held[i].id <= n
    PROVE  Made([doc EXCEPT !.half[kind].held = held], n)
<1> DEFINE new == [doc EXCEPT !.half[kind].held = held]
<1>1. new.half[kind].held = held /\ new.half[kind].activeId = doc.half[kind].activeId
      /\ \A k \in Kinds : k # kind => new.half[k] = doc.half[k]
  <2>1. doc.half[kind] \in SgHalves /\ doc.half \in [Kinds -> SgHalves]
    BY HalfIs DEF SgDocuments
  <2> QED
    BY <2>1 DEF SgDocuments, SgHalves
<1> HIDE DEF new
<1> SUFFICES ASSUME NEW k \in Kinds
             PROVE  /\ new.half[k].activeId <= n
                    /\ \A i \in DOMAIN new.half[k].held : new.half[k].held[i].id <= n
  BY DEF Made, new
<1>2. CASE k = kind
  BY <1>1, <1>2 DEF Made
<1>3. CASE k # kind
  BY <1>1, <1>3 DEF Made
<1> QED
  BY <1>2, <1>3

(* A request that ends, or that moves on with what it had.                  *)
LEMMA EndsMade ==
    ASSUME SgInv, SgMadeInv, NEW p \in SgProcs, SgDone(p),
           sgDoc' = sgDoc, sgMade' = sgMade, sgSecret' <= sgTokens',
           sgTokens' \in Nat, sgTokens <= sgTokens'
    PROVE  SgMadeInv'
<1>1. MadeAt(SgIdle, sgMade, sgTokens')
  BY IdleIsMade DEF SgInv, SgShape
<1> QED
  BY <1>1, MovesMade DEF SgDone

LEMMA AdvancesMade ==
    ASSUME SgInv, SgMadeInv, NEW p \in SgProcs, NEW pc \in {"save", "rows", "load"},
           SgSet(p, [sgProc[p] EXCEPT !.pc = pc]),
           pc = "save" => sgProc[p].pc = "read" \/ sgProc[p].req.op # "activate",
           sgDoc' = sgDoc, sgMade' = sgMade, sgSecret' <= sgTokens',
           sgTokens' \in Nat, sgTokens <= sgTokens'
    PROVE  SgMadeInv'
<1> DEFINE s == sgProc[p]
           new == [s EXCEPT !.pc = pc]
<1>1. s \in SgRecords /\ pc \in SgPcs
  BY RecordIs DEF SgPcs
<1>2. new.pc = pc /\ new.req = s.req /\ new.doc = s.doc /\ new.id = s.id
  BY <1>1, SgGoes
<1>3. MadeAt(s, sgMade, sgTokens')
  BY SameMade DEF SgInv, SgShape
<1> HIDE DEF new
<1>4. MadeAt(new, sgMade, sgTokens')
  BY <1>2, <1>3 DEF MadeAt
<1> QED
  BY <1>4, MovesMade DEF new

(* The steps before a save.                                                 *)
LEMMA BeginMade ==
    ASSUME SgInv, SgMadeInv, NEW p \in SgProcs, NEW req \in Requests, Begin(p, req)
    PROVE  SgMadeInv'
<1> DEFINE new == [SgIdle EXCEPT !.pc = FirstStep(req.op), !.req = req]
<1>1. /\ SgSet(p, new) /\ UNCHANGED <<sgDoc, sgMade, sgSecret, sgTokens>>
      /\ sgMade \in Nat /\ sgTokens \in Nat /\ sgSecret <= sgTokens
  BY DEF Begin, SgInv, SgShape, SgMadeInv
<1>2. FirstStep(req.op) \in {"resolve", "exchange", "drop", "peek", "load"}
  <2>1. req.op \in SgOps
    BY RequestsAreGiven
  <2> QED
    BY <2>1 DEF FirstStep, SgOps
<1>3. new.pc = FirstStep(req.op) /\ new.doc = Cleared
  BY DEF SgIdle
<1> HIDE DEF new
<1>4. MadeAt(new, sgMade, sgTokens)
  BY <1>1, <1>2, <1>3, IdleIsMade DEF MadeAt
<1> QED
  BY <1>1, <1>4, MovesMade

LEMMA LoadMade ==
    ASSUME SgInv, SgMadeInv, NEW p \in SgProcs, SgLoad(p)
    PROVE  SgMadeInv'
<1> DEFINE s == sgProc[p]
           req == s.req
           map == IF req.kind \in Kinds THEN CheckedMap(req, sgDoc.half[req.kind]) ELSE SameMap
           new == [s EXCEPT !.pc = AfterLoad(req), !.doc = sgDoc, !.version = sgVersion, !.map = map]
<1>1. /\ UNCHANGED <<sgDoc, sgMade, sgSecret, sgTokens>>
      /\ sgMade \in Nat /\ sgTokens \in Nat /\ sgSecret <= sgTokens
  BY DEF SgLoad, SgQuiet, SgInv, SgShape, SgMadeInv
<1>2. CASE AfterLoad(req) = "done"
  BY <1>1, <1>2, EndsMade DEF SgLoad, SgDone
<1>3. CASE AfterLoad(req) # "done"
  <2>1. s \in SgRecords /\ SgCheckedAt(s) /\ req \in SgCalls /\ s.pc = "load"
    BY RecordIs DEF SgLoad, SgAt
  <2>2. /\ AfterLoad(req) \in {"resolve", "read", "save", "drop"}
        /\ req.op = "activate" => AfterLoad(req) = "resolve"
    <3>1. req.op \in SgOps /\ req.op \notin {"debug", "import", "disconnect", "status"}
      BY <2>1 DEF SgCheckedAt, SgCalls
    <3> QED
      BY <1>3, <3>1 DEF AfterLoad, SgOps
  <2>3. SgSet(p, new)
    BY <1>3 DEF SgLoad
  <2> HIDE DEF map
  <2>4. new.pc = AfterLoad(req) /\ new.req = req /\ new.doc = sgDoc
    BY <2>1 DEF SgRecords
  <2> HIDE DEF new
  <2>5. MadeAt(new, sgMade, sgTokens)
    BY <2>2, <2>4 DEF MadeAt, SgMadeInv
  <2> QED
    BY <1>1, <2>3, <2>5, MovesMade
<1> QED
  BY <1>2, <1>3

LEMMA ResolveMade ==
    ASSUME SgInv, SgMadeInv, NEW p \in SgProcs, Resolve(p)
    PROVE  SgMadeInv'
<1> DEFINE s == sgProc[p]
           req == s.req
           active == (req.op = "import" /\ req.kind = NoKind) \/ (req.op = "debug" /\ req.id = 0)
           found == IF active THEN Active(sgDoc) ELSE ByRef(sgDoc, req.kind, req.id)
           Moved(c) == [s EXCEPT !.pc = "read", !.id = c.id, !.map = c.map,
                                 !.req.kind = IF active THEN sgDoc.active ELSE @]
<1>1. /\ UNCHANGED <<sgDoc, sgMade, sgSecret, sgTokens>>
      /\ sgMade \in Nat /\ sgTokens \in Nat /\ sgSecret <= sgTokens
  BY DEF Resolve, SgQuiet, SgInv, SgShape, SgMadeInv
<1>2. CASE SgDone(p)
  BY <1>1, <1>2, EndsMade
<1>3. ASSUME NEW c \in found, SgSet(p, Moved(c))
      PROVE  SgMadeInv'
  <2>1. s \in SgRecords /\ SgCheckedAt(s) /\ req \in SgCalls /\ s.pc = "resolve"
        /\ sgDoc \in SgDocuments
    BY RecordIs DEF Resolve, SgAt, SgInv, SgShape
  <2> DEFINE kind == IF active THEN sgDoc.active ELSE req.kind
             new == [s EXCEPT !.pc = "read", !.id = c.id, !.map = c.map, !.req.kind = kind]
  <2>2. Moved(c) = new
    BY <2>1 DEF SgRecords, SgCalls
  <2>3. SgSet(p, new)
    BY <1>3, <2>2
  <2>4. req.op = "activate" => ~active /\ req.kind \in Kinds
    BY <2>1 DEF SgCheckedAt, Given
  <2>5. req.op = "activate" => c.id <= sgMade
    <3> SUFFICES ASSUME req.op = "activate" PROVE c.id <= sgMade
      OBVIOUS
    <3>1. c.id \in HeldIds(sgDoc.half[req.kind]) /\ req.kind \in Kinds
      BY <1>3, <2>1, <2>4, ByRefGives
    <3> QED
      BY <3>1 DEF HeldIds, SgMadeInv, Made
  <2>6. MadeAt(s, sgMade, sgTokens)
    BY DEF SgMadeInv
  <2> HIDE DEF kind, Moved
  <2>7. new.pc = "read" /\ new.id = c.id /\ new.doc = s.doc /\ new.req.op = req.op
    BY <2>1 DEF SgRecords, SgCalls
  <2> HIDE DEF new
  <2>8. MadeAt(new, sgMade, sgTokens)
    BY <2>5, <2>6, <2>7 DEF MadeAt
  <2> QED
    BY <1>1, <2>3, <2>8, MovesMade
<1> QED
  BY <1>2, <1>3 DEF Resolve

(* The steps that read, and those that touch the tokens.                    *)
LEMMA ReadsMade ==
    ASSUME SgInv, SgMadeInv, NEW p \in SgProcs,
           \/ SampleFails(p) \/ ReadSample(p) \/ StageChange(p) \/ VerifyOlder(p)
           \/ DebugConnector(p) \/ ReadRows(p) \/ MarkImported(p)
    PROVE  SgMadeInv'
<1> DEFINE s == sgProc[p]
<1>1. /\ UNCHANGED <<sgDoc, sgMade, sgSecret, sgTokens>>
      /\ sgMade \in Nat /\ sgTokens \in Nat /\ sgSecret <= sgTokens
  BY DEF SampleFails, ReadSample, StageChange, VerifyOlder, DebugConnector, ReadRows, MarkImported,
         SgQuiet, SgInv, SgShape, SgMadeInv
<1>2. CASE SgDone(p)
  BY <1>1, <1>2, EndsMade
<1>3. CASE ~SgDone(p)
  <2>1. s.pc = "read" /\ (SgSet(p, [s EXCEPT !.pc = "save"]) \/ SgSet(p, [s EXCEPT !.pc = "rows"]))
    BY <1>3 DEF SampleFails, ReadSample, StageChange, VerifyOlder, DebugConnector, ReadRows,
                MarkImported, SgAt, SgDone
  <2>0. sgDoc' = sgDoc /\ sgMade' = sgMade /\ sgTokens' \in Nat /\ sgTokens <= sgTokens'
        /\ sgSecret' <= sgTokens'
    BY <1>1
  <2>2. CASE SgSet(p, [s EXCEPT !.pc = "save"])
    <3>1. SgSet(p, [sgProc[p] EXCEPT !.pc = "save"]) /\ sgProc[p].pc = "read"
      BY <2>1, <2>2
    <3> HIDE DEF s
    <3> QED
      BY <2>0, <3>1, AdvancesMade
  <2>3. CASE SgSet(p, [s EXCEPT !.pc = "rows"])
    <3>1. SgSet(p, [sgProc[p] EXCEPT !.pc = "rows"])
      BY <2>3
    <3> HIDE DEF s
    <3> QED
      BY <2>0, <3>1, AdvancesMade
  <2> QED
    BY <2>1, <2>2, <2>3
<1> QED
  BY <1>2, <1>3

LEMMA TokensMade ==
    ASSUME SgInv, SgMadeInv, NEW p \in SgProcs,
           Exchange(p) \/ DropSecret(p) \/ PeekSecret(p) \/ WriteAddress(p)
    PROVE  SgMadeInv'
<1> DEFINE s == sgProc[p]
<1>1. /\ UNCHANGED <<sgDoc, sgMade>> /\ sgMade \in Nat
      /\ sgTokens \in Nat /\ sgSecret \in Nat /\ sgSecret <= sgTokens /\ s \in SgRecords /\ s.id \in Nat
      /\ MadeAt(s, sgMade, sgTokens)
  BY RecordIs DEF Exchange, DropSecret, PeekSecret, WriteAddress, SgQuiet, SgInv, SgShape, SgMadeInv
<1>2. /\ sgTokens' \in Nat /\ sgTokens <= sgTokens' /\ sgSecret' <= sgTokens'
  <2>1. CASE Exchange(p)
    BY <1>1, <2>1 DEF Exchange
  <2>2. CASE DropSecret(p)
    BY <1>1, <2>2 DEF DropSecret
  <2>3. CASE PeekSecret(p)
    BY <1>1, <2>3 DEF PeekSecret
  <2>4. CASE WriteAddress(p)
    <3>1. s.id <= sgTokens /\ sgTokens' = sgTokens
          /\ sgSecret' \in {sgSecret, IF sgSecret = 0 THEN 0 ELSE s.id}
      BY <1>1, <2>4 DEF WriteAddress, SgAt, MadeAt
    <3> QED
      BY <1>1, <3>1
  <2> QED
    BY <2>1, <2>2, <2>3, <2>4
<1>3. CASE SgDone(p)
  BY <1>1, <1>2, <1>3, EndsMade
<1>4. CASE Exchange(p)
  <2>1. SgSet(p, [s EXCEPT !.pc = "load"])
    BY <1>4 DEF Exchange
  <2> QED
    BY <1>1, <1>2, <2>1, AdvancesMade
<1>5. CASE DropSecret(p) /\ ~SgDone(p)
  <2>1. s.req.op = "delete" /\ SgSet(p, [s EXCEPT !.pc = "save"])
    BY <1>5 DEF DropSecret, SgAt, SgOp, SgDone
  <2> QED
    BY <1>1, <1>2, <2>1, AdvancesMade
<1>6. CASE PeekSecret(p) /\ ~SgDone(p)
  <2> DEFINE new == [s EXCEPT !.pc = "back", !.id = sgSecret]
  <2>1. SgSet(p, new) /\ sgTokens' = sgTokens
    BY <1>6 DEF PeekSecret, SgDone
  <2>2. new.pc = "back" /\ new.req = s.req /\ new.doc = s.doc /\ new.id = sgSecret
    BY <1>1 DEF SgRecords
  <2> HIDE DEF new
  <2>3. MadeAt(new, sgMade, sgTokens)
    BY <1>1, <2>2 DEF MadeAt
  <2> QED
    BY <1>1, <1>2, <2>1, <2>3, MovesMade
<1> QED
  BY <1>3, <1>4, <1>5, <1>6 DEF WriteAddress

(* The saves.                                                               *)
LEMMA ActivateMade ==
    ASSUME SgInv, SgMadeInv, NEW p \in SgProcs, SaveActivated(p)
    PROVE  SgMadeInv'
<1> DEFINE s == sgProc[p]
           kind == s.req.kind
           new == ActivatedAs(s.doc, s.req, s.id)
           doc == Fields(sgDoc, s.doc, new)
<1>1. SgAt(p, "save") /\ s.req.op = "activate" /\ Store(p, doc, FALSE) /\ sgMade' = sgMade
  BY DEF SaveActivated
<1>2. /\ sgDoc \in SgDocuments /\ s.doc \in SgDocuments /\ s.id \in Nat /\ sgMade \in Nat
      /\ kind \in Kinds
  BY <1>1, AtSave DEF SgCheckedAt, Given
<1>3. Made(sgDoc, sgMade) /\ Made(s.doc, sgMade) /\ s.id <= sgMade
  BY <1>1 DEF SgMadeInv, MadeAt, SgAt
<1>4. /\ new \in SgDocuments /\ new.half[kind].activeId = s.id
      /\ \A k \in Kinds : k # kind => new.half[k] = s.doc.half[k]
  <2>1. new = ActivatedAs(s.doc, s.req, s.id)
    OBVIOUS
  <2> HIDE DEF new
  <2>2. s.doc \in SgDocuments /\ s.id \in Nat /\ s.req.kind \in Kinds
    BY <1>2
  <2> HIDE DEF s
  <2>3. new \in SgDocuments /\ new.half[kind].activeId = s.id
    BY <2>1, <2>2, ActivatedGives
  <2>4. \A k \in Kinds : k # kind => new.half[k] = s.doc.half[k]
    BY <2>1, <2>2, ActivatedGives
  <2> QED
    BY <2>3, <2>4
<1> HIDE DEF new
<1>5. \A k \in Kinds : new.half[k].activeId <= sgMade
  BY <1>3, <1>4 DEF Made
<1>6. Made(doc, sgMade)
  <2> HIDE DEF s
  <2> QED
    BY <1>2, <1>3, <1>4, <1>5, FieldsMade
<1> HIDE DEF doc
<1> QED
  BY <1>1, <1>6, StoresSame

LEMMA CreateMade ==
    ASSUME SgInv, SgMadeInv, NEW p \in SgProcs, SaveCreated(p)
    PROVE  SgMadeInv'
<1> DEFINE s == sgProc[p]
           kind == s.req.kind
           id == sgMade + 1
           c == [id |-> id, on |-> s.req.flag, map |-> s.map]
           new == CreatedIn(s.doc, kind, id)
           kept == Fields(sgDoc, s.doc, new)
           held == Append(sgDoc.half[kind].held, c)
           doc == [kept EXCEPT !.half[kind].held = Append(@, c)]
<1>1. SgAt(p, "save") /\ s.req.op = "create" /\ Store(p, doc, FALSE) /\ sgMade' = id
  BY DEF SaveCreated
<1>2. /\ sgDoc \in SgDocuments /\ s.doc \in SgDocuments /\ s.req \in SgCalls
      /\ sgMade \in Nat /\ id \in Nat /\ sgMade <= id /\ kind \in Kinds /\ s.map \in GoodMaps
  <2>1. /\ sgDoc \in SgDocuments /\ s.doc \in SgDocuments /\ s.req \in SgCalls
        /\ sgMade \in Nat /\ SgCheckedAt(s)
    BY <1>1, AtSave
  <2>2. kind \in Kinds /\ s.map \in GoodMaps
    BY <1>1, <2>1 DEF SgCheckedAt, Given, SgAt
  <2> QED
    BY <2>1, <2>2
<1>3. c \in SgConnectors /\ c.id = id
  BY <1>2 DEF SgConnectors, SgCalls
<1> HIDE DEF c, id
<1>4. Made(sgDoc, id) /\ Made(s.doc, id)
  <2>1. Made(sgDoc, sgMade) /\ Made(s.doc, sgMade)
    BY DEF SgMadeInv, MadeAt
  <2> HIDE DEF s
  <2> QED
    BY <1>2, <2>1, MadeMore
<1>5. /\ new \in SgDocuments /\ new.half[kind].activeId \in {s.doc.half[kind].activeId, id}
      /\ \A k \in Kinds : k # kind => new.half[k] = s.doc.half[k]
  <2>1. new = CreatedIn(s.doc, kind, id)
    OBVIOUS
  <2> HIDE DEF new
  <2>2. s.doc \in SgDocuments /\ id \in Nat
    BY <1>2
  <2> HIDE DEF s
  <2>3. new \in SgDocuments
    BY <1>2, <2>1, <2>2, CreatedGives
  <2>4. new.half[kind].activeId \in {s.doc.half[kind].activeId, id}
    BY <1>2, <2>1, <2>2, CreatedGives
  <2> DEFINE from == s.doc
  <2>5. \A k \in Kinds : k # kind => new.half[k] = from.half[k]
    <3>1. new = CreatedIn(from, kind, id) /\ from \in SgDocuments /\ id \in Nat /\ kind \in Kinds
      BY <1>2, <2>1, <2>2
    <3> HIDE DEF from, kind
    <3> QED
      BY <3>1, CreatedGives
  <2> QED
    BY <2>3, <2>4, <2>5
<1> HIDE DEF new
<1>6. \A k \in Kinds : new.half[k].activeId <= id
  BY <1>2, <1>4, <1>5 DEF Made
<1>7. /\ kept \in SgDocuments /\ Made(kept, id)
      /\ \A k \in Kinds : kept.half[k].held = sgDoc.half[k].held
  <2>1. sgDoc \in SgDocuments /\ s.doc \in SgDocuments /\ new \in SgDocuments
    BY <1>2, <1>5
  <2> HIDE DEF s
  <2>2. Made(kept, id)
    BY <1>2, <1>4, <1>6, <2>1, FieldsMade
  <2> QED
    BY <2>1, <2>2, FieldsGive
<1> HIDE DEF kept
<1>8. doc = [kept EXCEPT !.half[kind].held = held]
  <2>1. kept.half[kind].held = sgDoc.half[kind].held
    BY <1>2, <1>7
  <2>2. doc = [kept EXCEPT !.half[kind].held = Append(kept.half[kind].held, c)]
    OBVIOUS
  <2> QED
    BY <2>1, <2>2
<1>9. \A i \in DOMAIN held : held[i].id <= id
  <2>1. sgDoc.half[kind].held \in Seq(SgConnectors)
    BY <1>2, HalfIs
  <2>2. \A i \in DOMAIN sgDoc.half[kind].held : sgDoc.half[kind].held[i].id <= id
    BY <1>2, <1>4 DEF Made
  <2>3. \A i \in DOMAIN held : held[i] = c \/ (i \in DOMAIN sgDoc.half[kind].held
                                              /\ held[i] = sgDoc.half[kind].held[i])
    <3> DEFINE before == sgDoc.half[kind].held
    <3>1. before \in Seq(SgConnectors)
      BY <2>1
    <3> HIDE DEF before
    <3>2. \A i \in DOMAIN Append(before, c) :
              Append(before, c)[i] = c \/ (i \in DOMAIN before /\ Append(before, c)[i] = before[i])
      BY <1>3, <3>1
    <3> QED
      BY <3>2 DEF before
  <2>4. id <= id
    BY <1>2
  <2> HIDE DEF held
  <2> QED
    BY <1>3, <2>2, <2>3, <2>4
<1> HIDE DEF held
<1>10. Made(doc, id)
  <2>1. Made([kept EXCEPT !.half[kind].held = held], id)
    <3> HIDE DEF kind
    <3> QED
      BY <1>2, <1>7, <1>9, HeldMade
  <2> HIDE DEF doc
  <2> QED
    BY <1>8, <2>1
<1> HIDE DEF doc
<1>11. sgMade' \in Nat /\ sgMade <= sgMade' /\ Made(doc, sgMade')
  BY <1>1, <1>2, <1>10
<1> QED
  BY <1>1, <1>11, StoresMade

LEMMA UpdateMade ==
    ASSUME SgInv, SgMadeInv, NEW p \in SgProcs, SaveUpdated(p)
    PROVE  SgMadeInv'
<1> DEFINE s == sgProc[p]
           kind == s.req.kind
           loaded == s.doc.half[kind].held
           at == Place(loaded, s.req.id)
           old == loaded[at]
           new == [old EXCEPT !.on = s.req.flag, !.map = s.map]
           stored == sgDoc.half[kind].held
           c == Patched(stored[at], old, new)
           held == [stored EXCEPT ![at] = c]
           doc == [sgDoc EXCEPT !.half[kind].held = held]
<1>1. SgAt(p, "save") /\ s.req.op = "update"
  BY DEF SaveUpdated
<1>2. /\ sgDoc \in SgDocuments /\ sgMade \in Nat /\ sgMade <= sgMade /\ Made(sgDoc, sgMade)
      /\ sgTokens \in Nat /\ sgSecret <= sgTokens /\ sgTokens <= sgTokens /\ kind \in Kinds
  BY <1>1, AtSave DEF SgCheckedAt, Given, SgMadeInv, SgInv, SgShape
<1>3. CASE s.version # sgVersion
  <2>1. SgDone(p) /\ SgQuiet /\ UNCHANGED <<sgSecret, sgTokens>>
    BY <1>3 DEF SaveUpdated
  <2> QED
    BY <1>2, <2>1, EndsMade DEF SgQuiet
<1>4. CASE s.version = sgVersion /\ at \in DOMAIN stored
  <2>1. Store(p, [sgDoc EXCEPT !.half[kind].held[at] = Patched(@, old, new)], FALSE)
        /\ sgMade' = sgMade
    BY <1>4 DEF SaveUpdated
  <2>2. [sgDoc EXCEPT !.half[kind].held[at] = Patched(@, old, new)] = doc
    OBVIOUS
  <2> HIDE DEF old, new
  <2>3. stored[at] \in SgConnectors
    BY <1>2, <1>4, HalfIs
  <2>4. c.id = stored[at].id
    BY <2>3 DEF Patched, SgConnectors
  <2>5. \A i \in DOMAIN held : i \in DOMAIN stored /\ held[i].id = stored[i].id
    <3> HIDE DEF c, at, stored
    <3> QED
      BY <2>4
  <2>6. \A i \in DOMAIN held : held[i].id <= sgMade
    BY <1>2, <2>5 DEF Made
  <2> HIDE DEF held
  <2>7. Made(doc, sgMade)
    <3> HIDE DEF kind
    <3> QED
      BY <1>2, <2>6, HeldMade
  <2> HIDE DEF doc
  <2> QED
    BY <2>1, <2>2, <2>7, StoresSame
<1>5. CASE s.version = sgVersion /\ at \notin DOMAIN stored
  <2>1. Store(p, sgDoc, FALSE) /\ sgMade' = sgMade
    BY <1>5 DEF SaveUpdated
  <2> QED
    BY <1>2, <2>1, StoresSame
<1> QED
  BY <1>3, <1>4, <1>5

LEMMA ConnectMade ==
    ASSUME SgInv, SgMadeInv, NEW p \in SgProcs, SaveConnection(p)
    PROVE  SgMadeInv'
<1> DEFINE s == sgProc[p]
           new == [s.doc EXCEPT !.connected = TRUE, !.half["oauth"].on = TRUE]
           doc == Fields(sgDoc, s.doc, new)
<1>1. SgAt(p, "save") /\ s.req.op = "connect" /\ Store(p, doc, FALSE) /\ sgMade' = sgMade
  BY DEF SaveConnection
<1>2. /\ sgDoc \in SgDocuments /\ s.doc \in SgDocuments /\ sgMade \in Nat /\ sgMade <= sgMade
      /\ Made(sgDoc, sgMade) /\ Made(s.doc, sgMade)
  BY <1>1, AtSave DEF SgMadeInv, MadeAt
<1>3. /\ new \in SgDocuments
      /\ \A k \in Kinds : new.half[k].activeId = s.doc.half[k].activeId
  <2>1. "oauth" \in Kinds /\ s.doc.half["oauth"] \in SgHalves
    BY <1>2, HalfIs DEF Kinds
  <2>2. s.doc \in SgDocuments
    BY <1>2
  <2> HIDE DEF s
  <2> QED
    BY <2>1, <2>2 DEF SgDocuments, SgHalves
<1> HIDE DEF new
<1>4. Made(doc, sgMade)
  <2>1. \A k \in Kinds : new.half[k].activeId <= sgMade
    BY <1>2, <1>3 DEF Made
  <2> HIDE DEF s
  <2> QED
    BY <1>2, <1>3, <2>1, FieldsMade
<1> HIDE DEF doc
<1> QED
  BY <1>1, <1>4, StoresSame

(* A commit writes its container under an id of the document or a new one.  *)
LEMMA CommittedMade ==
    ASSUME NEW doc \in SgDocuments, NEW req \in SgCalls, req.kind \in Kinds, req.map \in GoodMaps,
           NEW n \in Nat, NEW new \in Nat, Made(doc, n),
           Fallback(doc.half[req.kind], req.id) = 0 => new <= n
    PROVE  Made(CommittedAs(doc, req, new), n)
<1> DEFINE kind == req.kind
           half == doc.half[kind]
           at == Fallback(half, req.id)
           id == IF at = 0 THEN new ELSE half.held[at].id
           connector == [id |-> id, on |-> TRUE, map |-> req.map]
           held == IF at = 0 THEN Append(half.held, connector) ELSE [half.held EXCEPT ![at] = connector]
           kept == [doc EXCEPT !.half[kind].held = held]
<1>1. half.held \in Seq(SgConnectors) /\ \A i \in DOMAIN half.held :
          half.held[i] \in SgConnectors /\ half.held[i].id <= n
  BY HalfIs DEF Made
<1>2. at # 0 => at \in DOMAIN half.held
  BY FallbackGives
<1> HIDE DEF at
<1>3. id \in Nat /\ id <= n
  BY <1>1, <1>2 DEF SgConnectors, at
<1> HIDE DEF id
<1>4. connector \in SgConnectors /\ connector.id = id
  BY <1>3 DEF SgConnectors
<1> HIDE DEF connector, half
<1>5. \A i \in DOMAIN held : held[i] = connector \/ (i \in DOMAIN half.held /\ held[i] = half.held[i])
  <2>1. CASE at = 0
    <3>1. held = Append(half.held, connector)
      BY <2>1
    <3> HIDE DEF held
    <3> QED
      BY <1>1, <1>4, <3>1
  <2>2. CASE at # 0
    <3>1. held = [half.held EXCEPT ![at] = connector]
      BY <2>2
    <3> HIDE DEF held
    <3> QED
      BY <1>1, <1>4, <3>1
  <2> QED
    BY <2>1, <2>2
<1> HIDE DEF held
<1>6. \A i \in DOMAIN held : held[i].id <= n
  BY <1>1, <1>3, <1>4, <1>5
<1>7. Made(kept, n)
  <2>1. kind \in Kinds
    OBVIOUS
  <2> HIDE DEF kind
  <2> QED
    BY <1>6, <2>1, HeldMade
<1>8. kept \in SgDocuments
  <2>1. held \in Seq(SgConnectors)
    <3>1. CASE at = 0
      BY <1>1, <1>4, <3>1 DEF held
    <3>2. CASE at # 0
      BY <1>1, <1>2, <1>4, <3>2 DEF held
    <3> QED
      BY <3>1, <3>2
  <2>2. doc.half[kind] \in SgHalves
    BY HalfIs
  <2> QED
    BY <2>1, <2>2 DEF SgDocuments, SgHalves
<1>9. CommittedAs(doc, req, new) = IF req.flag THEN ActivatedAs(kept, req, id) ELSE kept
  BY DEF CommittedAs, kept, held, connector, id, at, half
<1> HIDE DEF kept
<1>10. Made(ActivatedAs(kept, req, id), n)
  <2> DEFINE done == ActivatedAs(kept, req, id)
  <2>1. done = ActivatedAs(kept, req, id)
    OBVIOUS
  <2> HIDE DEF done
  <2>2. /\ done.half[kind].activeId = id
        /\ \A k \in Kinds : done.half[k].held = kept.half[k].held
        /\ \A k \in Kinds : k # kind => done.half[k] = kept.half[k]
    BY <1>3, <1>8, <2>1, ActivatedGives
  <2>3. Made(done, n)
    <3> SUFFICES ASSUME NEW k \in Kinds
                 PROVE  /\ done.half[k].activeId <= n
                        /\ \A i \in DOMAIN done.half[k].held : done.half[k].held[i].id <= n
      BY DEF Made
    <3>1. kept.half[k].activeId <= n /\ \A i \in DOMAIN kept.half[k].held : kept.half[k].held[i].id <= n
      BY <1>7 DEF Made
    <3>2. done.half[k].held = kept.half[k].held
      BY <2>2
    <3>3. done.half[k].activeId <= n
      <4>1. CASE k = kind
        BY <1>3, <2>2, <4>1
      <4>2. CASE k # kind
        BY <2>2, <3>1, <4>2
      <4> QED
        BY <4>1, <4>2
    <3> QED
      BY <3>1, <3>2, <3>3
  <2> QED
    BY <2>1, <2>3
<1> QED
  BY <1>7, <1>9, <1>10

LEMMA WritesMade ==
    ASSUME SgInv, SgMadeInv, NEW p \in SgProcs,
           SaveCommitted(p) \/ SaveDeleted(p) \/ SaveReset(p) \/ SaveOlder(p) \/ SaveCleaned(p)
    PROVE  SgMadeInv'
<1> DEFINE s == sgProc[p]
<1>1. /\ sgDoc \in SgDocuments /\ s.doc \in SgDocuments /\ s.req \in SgCalls
      /\ sgMade \in Nat /\ sgMade + 1 \in Nat /\ SgCheckedAt(s) /\ Made(s.doc, sgMade)
  <2>1. SgAt(p, "save") /\ s.req.op \notin {"debug", "import", "disconnect"}
    BY DEF SaveCommitted, SaveDeleted, SaveReset, SaveOlder, SaveCleaned, SaveWhole, SgOp
  <2> QED
    BY <2>1, AtSave DEF SgMadeInv, MadeAt
<1>2. CASE SaveCommitted(p)
  <2> DEFINE doc == CommittedAs(s.doc, s.req, sgMade + 1)
             fresh == Fallback(s.doc.half[s.req.kind], s.req.id) = 0
  <2>1. /\ Store(p, doc, TRUE) /\ sgMade' = IF fresh THEN sgMade + 1 ELSE sgMade
        /\ s.pc = "save" /\ s.req.op = "commit"
    BY <1>2 DEF SaveCommitted, SaveWhole, SgAt, SgOp
  <2>2. s.req.kind \in Kinds /\ s.req.map \in GoodMaps
    BY <1>1, <2>1 DEF SgCheckedAt, Given
  <2>3. sgMade' \in Nat /\ sgMade <= sgMade' /\ (fresh => sgMade + 1 <= sgMade')
    BY <1>1, <2>1
  <2> HIDE DEF s
  <2>4. Made(s.doc, sgMade')
    BY <1>1, <2>3, MadeMore
  <2>5. Made(doc, sgMade')
    BY <1>1, <2>2, <2>3, <2>4, CommittedMade
  <2> HIDE DEF doc
  <2> QED
    BY <2>1, <2>3, <2>5, StoresMade
<1>3. CASE SaveDeleted(p)
  BY <1>1, <1>3, IdleIsMade, StoresSame DEF SaveDeleted, SaveWhole
<1>4. CASE SaveReset(p)
  <2> DEFINE doc == [Cleared EXCEPT !.active = Written(sgDoc.active, s.doc.active, NoKind)]
  <2>1. Store(p, doc, TRUE) /\ sgMade' = sgMade
    BY <1>4 DEF SaveReset, SaveWhole
  <2>2. doc.half = Cleared.half
    BY DEF Cleared
  <2> HIDE DEF doc
  <2>3. Made(doc, sgMade)
    BY <1>1, <2>2, IdleIsMade DEF Made
  <2> QED
    BY <2>1, <2>3, StoresSame
<1>5. CASE SaveOlder(p)
  BY <1>1, <1>5, StoresSame DEF SaveOlder, SaveWhole
<1>6. CASE SaveCleaned(p)
  <2> DEFINE doc == Cleaned(s.doc)
  <2>1. Store(p, doc, TRUE) /\ sgMade' = sgMade
    BY <1>6 DEF SaveCleaned, SaveWhole
  <2>2. \A k \in Kinds : /\ doc.half[k].activeId \in {0, s.doc.half[k].activeId}
                         /\ doc.half[k].held = s.doc.half[k].held
    <3> SUFFICES ASSUME NEW k \in Kinds
                 PROVE  /\ doc.half[k].activeId \in {0, s.doc.half[k].activeId}
                        /\ doc.half[k].held = s.doc.half[k].held
      OBVIOUS
    <3>1. s.doc.half[k] \in SgHalves /\ s.doc \in SgDocuments
      BY <1>1, HalfIs
    <3> HIDE DEF s
    <3> QED
      BY <3>1 DEF Cleaned, SgHalves, SgDocuments
  <2> HIDE DEF doc
  <2>3. Made(doc, sgMade)
    BY <1>1, <2>2 DEF Made
  <2> QED
    BY <2>1, <2>3, StoresSame
<1> QED
  BY <1>2, <1>3, <1>4, <1>5, <1>6

LEMMA InitiallyMade ==
    ASSUME SgInit
    PROVE  SgMadeInv
<1>1. sgMade \in Nat /\ sgProc = [p \in SgProcs |-> SgIdle] /\ sgSecret <= sgTokens
  <2>1. sgMade \in Nat
    BY SgInitially DEF SgInv, SgShape
  <2>2. sgProc = [p \in SgProcs |-> SgIdle] /\ sgSecret = 1 /\ sgTokens = 1
    BY DEF SgInit
  <2> QED
    BY <2>1, <2>2
<1>2. Made(sgDoc, sgMade)
  <2> SUFFICES ASSUME NEW k \in Kinds
               PROVE  /\ sgDoc.half[k].activeId <= sgMade
                      /\ \A i \in DOMAIN sgDoc.half[k].held : sgDoc.half[k].held[i].id <= sgMade
    BY DEF Made
  <2>1. sgMade = Containers(sgDoc) /\ sgScript \in SgScripts /\ sgDoc = sgScript.start
    BY DEF SgInit
  <2>2. /\ sgDoc.half[k].activeId <= Containers(sgDoc)
        /\ \A i \in DOMAIN sgDoc.half[k].held : sgDoc.half[k].held[i].id \in 1 .. Containers(sgDoc)
    BY <2>1, SheetsStartAssumption
  <2> QED
    BY <1>1, <2>1, <2>2
<1> QED
  BY <1>1, <1>2, IdleIsMade DEF SgMadeInv

LEMMA SgStepKeepsMade ==
    ASSUME SgInv, SgMadeInv, [SgNext]_sgVars
    PROVE  SgMadeInv'
<1>1. CASE UNCHANGED sgVars
  BY <1>1 DEF sgVars, SgMadeInv
<1>2. ASSUME NEW p \in SgProcs, SgStep(p)
      PROVE  SgMadeInv'
  BY <1>2, LoadMade, ResolveMade, ReadsMade, TokensMade, ActivateMade, CreateMade, UpdateMade,
     WritesMade, ConnectMade, Zenon DEF SgStep
<1>3. ASSUME NEW p \in SgProcs, NEW req \in Requests, Begin(p, req)
      PROVE  SgMadeInv'
  BY <1>3, BeginMade
<1> QED
  BY <1>1, <1>2, <1>3 DEF SgNext

(* Documents whose ids were all made.                                       *)
LEMMA MadeIsDocument ==
    ASSUME SgInv, NEW doc \in SgDocuments, Made(doc, sgMade)
    PROVE  Document(doc)
<1>0. sgMade \in Nat /\ GoodMaps \subseteq Maps
  BY SheetsSettingsAssumption DEF SgInv, SgShape
<1>1. doc.active \in Kinds \cup {NoKind} /\ doc.connected \in BOOLEAN
  BY DEF SgDocuments
<1>2. ASSUME NEW k \in Kinds
      PROVE  /\ doc.half[k].on \in BOOLEAN /\ doc.half[k].activeId \in 0 .. sgMade
             /\ doc.half[k].held \in Seq(Container)
  <2> DEFINE held == doc.half[k].held
  <2>1. /\ doc.half[k].on \in BOOLEAN /\ doc.half[k].activeId \in Nat /\ held \in Seq(SgConnectors)
        /\ doc.half[k].activeId <= sgMade
    BY HalfIs DEF Made
  <2>2. \A i \in DOMAIN held : held[i] \in Container
    <3> SUFFICES ASSUME NEW i \in DOMAIN held PROVE held[i] \in Container
      OBVIOUS
    <3>1. held[i] \in SgConnectors /\ held[i].id <= sgMade
      BY HalfIs DEF Made
    <3> HIDE DEF held
    <3> QED
      BY <1>0, <3>1 DEF SgConnectors, Container
  <2> HIDE DEF held
  <2>3. held \in Seq(Container)
    BY <2>1, <2>2
  <2> QED
    BY <1>0, <2>1, <2>3 DEF held
<1> QED
  BY <1>1, <1>2 DEF Document

LEMMA SgInvTypes ==
    ASSUME SgInv, SgMadeInv
    PROVE  SgTypeOK
<1>1. Document(sgDoc)
  BY MadeIsDocument DEF SgInv, SgShape, SgMadeInv
<1>2. sgVersion \in Nat /\ sgSecret \in 0 .. sgTokens /\ sgRaced \in BOOLEAN
  BY DEF SgInv, SgShape, SgMadeInv
<1>3. ASSUME NEW p \in SgProcs
      PROVE  LET s == sgProc[p] IN
             /\ s.pc \in {"idle", "load", "resolve", "read", "save", "rows", "exchange", "drop",
                          "peek", "back"}
             /\ s.req.op \in SgOps \cup {"none"} /\ Document(s.doc)
             /\ s.map \in Maps \cup {SameMap} /\ s.behind \in BOOLEAN /\ s.wiped \in BOOLEAN
  <2>1. sgProc[p] \in SgRecords /\ sgProc[p].req \in SgCalls
    BY RecordIs
  <2>2. Document(sgProc[p].doc)
    BY RecordIs, MadeIsDocument DEF SgMadeInv, MadeAt
  <2> QED
    BY <2>1, <2>2 DEF SgRecords, SgPcs, SgCalls
<1> QED
  BY <1>1, <1>2, <1>3 DEF SgTypeOK

(* The stored settings and every request have their types; in particular no *)
(* document, stored or loaded, names a container that was never made, and   *)
(* the tokens kept are ones that Google issued.                             *)
THEOREM SettingsTypes == SgSpec => []SgTypeOK
<1>1. SgInit => SgInv /\ SgMadeInv
  BY SgInitially, InitiallyMade
<1>2. SgInv /\ SgMadeInv /\ [SgNext]_sgVars => SgInv' /\ SgMadeInv'
  BY SgStepKeeps, SgStepKeepsMade
<1>3. SgInv /\ SgMadeInv => SgTypeOK
  BY SgInvTypes
<1> QED
  BY <1>1, <1>2, <1>3, PTL DEF SgSpec
=============================================================================
