--------------------------------- MODULE Paging ---------------------------------
(***************************************************************************)
(* Lists read page by page while they grow: memory (newest first, within a *)
(* bounded scan), receipts (in the order of their chain) and operational   *)
(* entities (the latest version of each, in the order of their ids).  Each *)
(* page is a transaction of its own, and nothing holds the list still      *)
(* between two pages.  The walk over receipts and entities is loadPage of  *)
(* lyte/ui/app.js; memory is walked by any client that follows next_offset *)
(* (lyte/api/routes_ask.py).  No page reads two of the lists, so that a    *)
(* behaviour is about one.                                                 *)
(***************************************************************************)
EXTENDS Integers, Sequences, FiniteSets

CONSTANTS Client,      \* the clients that follow a list from page to page
          Subject,     \* one dimension's values
          LastEntity,  \* the entities are 1 .. LastEntity, in the order of their ids
          Limit,       \* rows of a page
          ScanLimit,   \* memory rows examined for a page
          LoadPages,   \* pages that loadPage reads at most
          MaxRows, MaxVersions  \* bounds on appended rows and on versions

ASSUME PagesAssumption == Limit \in Nat \ {0} /\ ScanLimit \in Nat /\ LastEntity \in Nat

Kind == {"OBSERVATION", "APPROVED_KNOWLEDGE"}
AnyOf == "any"

VARIABLES list,      \* the list that this behaviour is about
          memoryRows,    \* rows in the order of their sequence
          receiptCount,  \* the last sequence of the receipt chain
          version,   \* the latest version of each entity, 0 before its first
          walk

pagingVars == <<list, memoryRows, receiptCount, version, walk>>
lists == <<memoryRows, receiptCount, version>>

-----------------------------------------------------------------------------
(* Writers. *)

AppendMemory(kind, subject) ==
  /\ list = "memory" /\ Len(memoryRows) < MaxRows
  /\ memoryRows' = memoryRows \o <<[kind |-> kind, subject |-> subject]>>
  /\ UNCHANGED <<list, receiptCount, version, walk>>

AppendChain ==
  /\ list = "receipts" /\ receiptCount < MaxRows
  /\ receiptCount' = receiptCount + 1
  /\ UNCHANGED <<list, memoryRows, version, walk>>

Upsert(e) ==
  /\ list = "entities" /\ version[e] < MaxVersions
  /\ version' = [version EXCEPT ![e] = @ + 1]
  /\ UNCHANGED <<list, memoryRows, receiptCount, walk>>

-----------------------------------------------------------------------------
(* One page: its items, whether the scan was cut, and next_offset. *)

End == -1

\* How many rows stand before row e: memory is listed newest first, the others in their order.
Place(rows, e) == Cardinality({x \in rows : IF list = "memory" THEN x > e ELSE x < e})
Foremost(rows, n) == {e \in rows : Place(rows, e) < n}
PageAt(rows, offset) == {e \in rows : offset <= Place(rows, e) /\ Place(rows, e) < offset + Limit}

\* Defect: as many rows are read as are examined, so that no cut is noticed.
ScanRead_Exact == ScanLimit
\* One row more than is examined.
ScanRead == ScanLimit + 1

\* list_memory: the kind is part of the query, the subject is looked up in the rows read.
Wanted(w, r) == w.kind \in {AnyOf, r.kind}
About(w, r) == w.subject \in {AnyOf, r.subject}
MemoryPage(w) ==
  LET candidates == Foremost({n \in DOMAIN memoryRows : Wanted(w, memoryRows[n])}, ScanRead)
      scanned == Foremost(candidates, ScanLimit)
      matched == {n \in scanned : About(w, memoryRows[n])}
      page == PageAt(matched, w.offset)
      reached == w.offset + Cardinality(page)
  IN  [items |-> page, cut |-> Cardinality(candidates) > ScanLimit,
       next |-> IF Cardinality(matched) > reached THEN reached ELSE End]

\* The other lists name a next offset whenever the page is full.
FullPage(w, page) ==
  [items |-> page, cut |-> FALSE, next |-> IF Cardinality(page) = Limit THEN w.offset + Limit ELSE End]

ReceiptPage(w) == FullPage(w, PageAt(1 .. receiptCount, w.offset))

Listed == {e \in 1 .. LastEntity : version[e] > 0}
EntityPage(w) == FullPage(w, {<<e, version[e]>> : e \in PageAt(Listed, w.offset)})

PageOf(w) ==
  CASE list = "memory" -> MemoryPage(w)
    [] list = "receipts" -> ReceiptPage(w)
    [] list = "entities" -> EntityPage(w)

\* All that a walk of the list asks for, as it is now.
Matching(w) ==
  CASE list = "memory" -> {n \in DOMAIN memoryRows : Wanted(w, memoryRows[n]) /\ About(w, memoryRows[n])}
    [] list = "receipts" -> 1 .. receiptCount
    [] list = "entities" -> Listed

-----------------------------------------------------------------------------
(* Clients. *)

Fresh(kind, subject) ==
  [kind |-> kind, subject |-> subject, offset |-> 0, pages |-> 0,
   items |-> {}, cut |-> FALSE, state |-> "walking", due |-> {}]

BeginWalk(c, kind, subject) ==
  /\ walk[c].state = "idle"
  /\ list # "memory" => kind = AnyOf /\ subject = AnyOf
  /\ walk' = [walk EXCEPT ![c] = Fresh(kind, subject)]
  /\ UNCHANGED <<list, lists>>

\* loadPage gives up after LoadPages and says so; it keeps one of the items with one hash.
LastRead(w, page) == page.next = End \/ (list # "memory" /\ w.pages + 1 = LoadPages)

Step(c) ==
  LET w == walk[c]
      page == PageOf(w)
  IN  /\ w.state = "walking"
      /\ walk' = [walk EXCEPT ![c] =
           [w EXCEPT !.offset = page.next,
                     !.pages = @ + 1,
                     !.items = @ \cup page.items,
                     !.cut = @ \/ page.cut \/ (LastRead(w, page) /\ page.next # End),
                     !.state = IF LastRead(w, page) THEN "done" ELSE "walking",
                     !.due = IF w.pages = 0 THEN Matching(w) ELSE @]]
      /\ UNCHANGED <<list, lists>>

\* A page that is refused or late rejects the whole list.
Reject(c) ==
  /\ walk[c].state = "walking"
  /\ walk' = [walk EXCEPT ![c].state = "rejected"]
  /\ UNCHANGED <<list, lists>>

PagingInit ==
  /\ list \in {"memory", "receipts", "entities"}
  /\ memoryRows = <<>> /\ receiptCount = 0 /\ version = [e \in 1 .. LastEntity |-> 0]
  /\ walk = [c \in Client |-> [Fresh(AnyOf, AnyOf) EXCEPT !.state = "idle"]]

ListsGrow ==
  \/ \E kind \in Kind, s \in Subject : AppendMemory(kind, s)
  \/ AppendChain
  \/ \E e \in 1 .. LastEntity : Upsert(e)
WalksMove ==
  \E c \in Client :
    \/ \E kind \in Kind \cup {AnyOf}, s \in Subject \cup {AnyOf} : BeginWalk(c, kind, s)
    \/ Step(c)
    \/ Reject(c)
PagingNext == ListsGrow \/ WalksMove
PagingSpec == PagingInit /\ [][PagingNext]_pagingVars

-----------------------------------------------------------------------------
(* Properties. *)

Names(w) == IF list = "entities" THEN {i[1] : i \in w.items} ELSE w.items

\* A walk that ends with no page cut has every row, receipt or entity that it asks for and
\* that was there at its first page, although rows were appended, inserted and changed between
\* its pages; a list that is incomplete always says so (list_memory: "callers receive an
\* explicit truncation signal instead of an incomplete result disguised as an exhaustive query").
WalksComplete ==
  \A c \in Client : LET w == walk[c] IN (w.state = "done" /\ ~w.cut) => w.due \subseteq Names(w)

=============================================================================
