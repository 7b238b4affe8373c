------------------------------ MODULE PagedListing ------------------------------
(***************************************************************************)
(* Reading a listing page by page: list_documents, search_documents,       *)
(* query_documents and list_collections (src/src/document.rs),             *)
(* list_graphs, list_nodes, neighbors_out and neighbors_in                 *)
(* (src/src/graph.rs), list_buckets and list_files (src/src/file.rs),      *)
(* list_tenants (src/src/tenant.rs).                                       *)
(*                                                                         *)
(* Each call reads one page, and the application's loop passes its cursor  *)
(* back, while other tasks put and delete what is listed.  Every entry has *)
(* a place in the listing: its id's, or in a sorted query the one that the *)
(* values it is sorted by give it, and that a rewrite may change.  The     *)
(* server answers a page from one state of its store, and a cursor is the  *)
(* place where the page ended; its index may name entries that are no      *)
(* longer there, which makes pages short or empty.  What a loop over       *)
(* documents, nodes or edges has listed may then be read by its id:        *)
(* get_document, get_node and get_edge.  A call by unary, its deadline and *)
(* its replay included, is one request and one answer or failure here.     *)
(***************************************************************************)
EXTENDS Naturals, FiniteSets, SequencesExt

CONSTANTS
  Keys,                 \* the ids of the entries, in their order
  Places,               \* in the index of a listing
  Limits,               \* the limits the application asks for
  NoLimit,              \* it leaves the limit to the SDK
  DEFAULT_PAGE_SIZE,
  max_page_size,        \* the server's limits.max_page_size
  MaxWrites, MaxCalls   \* bounds: on the writes, on the calls

ASSUME KeysAssumption ==
  Keys \subseteq Places /\ Places \subseteq Nat \ {0} /\ IsFiniteSet(Places)
ASSUME LimitsAssumption == Limits \subseteq Nat \cup {NoLimit} /\ NoLimit \notin Nat
ASSUME PageSizeAssumption ==
  /\ DEFAULT_PAGE_SIZE \in Nat \ {0} /\ max_page_size \in Nat \ {0}
  /\ MaxWrites \in Nat /\ MaxCalls \in Nat

VARIABLES
  listing,              \* which listing is read, and how
  limit,
  store,                \* entry -> "absent", "good", or "bad": a document of another
                        \* shape, or "elsewhere": there, but not in this listing
  place,                \* entry -> where it is in the listing
  reader,               \* where the application's loop stands
  position,             \* the cursor it holds: a place
  request,              \* the PageRequest sent
  listed,               \* the entries collected
  lookup,               \* the id being read, or Nothing
  missing,              \* the ids that were answered with NOT_FOUND
  present, absent,      \* history: in the listing, or not, since the loop began
  settled,              \* history: in no more than one place since the loop began
  writes, calls

server == <<store, place, present, absent, settled, writes>>
loop == <<listing, limit, reader, position, request, listed, calls>>
lookups == <<lookup, missing>>
reading == <<server, loop, lookups>>

\* On the wire the cursor of the first page is the empty string, 0 here.
Nothing == 0

NoRequest == [limit |-> 0, cursor |-> Nothing]

-------------------------------------------------------------------------------
(* Mutated forms of the definitions below, each a bug this code could have;   *)
(* no specification uses them.                                                *)

\* The cursor is left out of the request.
FromTheFirst(l, c) ==
  [limit |-> IF l = NoLimit THEN DEFAULT_PAGE_SIZE ELSE l, cursor |-> Nothing]

-------------------------------------------------------------------------------
(* The listings *)

\* Documents are decoded, item by item; a searched or filtered value is encoded first.
\* A listing of what fulfils a condition selects: a rewrite may take an entry out of it.
list_documents == [of |-> "document", decodes |-> TRUE, encodes |-> FALSE, selects |-> FALSE, sorts |-> FALSE]
search_documents == [list_documents EXCEPT !.encodes = TRUE, !.selects = TRUE]
build_query_filters == TRUE
query_documents(sort) == [search_documents EXCEPT !.encodes = build_query_filters, !.sorts = sort]

\* Ids and counts are passed on as they come.
Ids(kind) == [list_documents EXCEPT !.of = kind, !.decodes = FALSE]

list_nodes == Ids("node")
neighbors_out == [Ids("edge") EXCEPT !.selects = TRUE]
neighbors_in == neighbors_out
list_collections == Ids("name")
list_graphs == Ids("name")
list_buckets == Ids("name")
list_files == Ids("name")
list_tenants == Ids("name")

Listings ==
  {list_documents, search_documents, list_nodes, neighbors_out, neighbors_in, list_collections,
   list_graphs, list_buckets, list_files, list_tenants}
  \cup {query_documents(sort) : sort \in BOOLEAN}

\* What is in the listing may be of two kinds only where it is decoded.
Values == IF listing.decodes THEN {"good", "bad"} ELSE {"good"}

ListingTypeOK ==
  /\ listing \in Listings
  /\ limit \in Limits
  /\ store \in [Keys -> {"absent", "good", "bad", "elsewhere"}]
  /\ place \in Injection(Keys, Places)
  /\ reader \in {"idle", "calling", "asked", "done", "failed"}
  /\ position \in Places \cup {Nothing}
  /\ request \in [limit: Nat, cursor: Places \cup {Nothing}]
  /\ listed \in Seq(Keys)
  /\ lookup \in Keys \cup {Nothing} /\ missing \subseteq Keys
  /\ present \subseteq Keys /\ absent \subseteq Keys /\ settled \subseteq Keys
  /\ writes \in 0..MaxWrites /\ calls \in 0..MaxCalls

ListingInit ==
  /\ listing \in Listings /\ limit \in Limits
  /\ store \in [Keys -> Values \cup {"absent"} \cup IF listing.selects THEN {"elsewhere"} ELSE {}]
  /\ place \in IF listing.sorts THEN Injection(Keys, Places) ELSE {[k \in Keys |-> k]}
  /\ reader = "idle" /\ position = Nothing /\ request = NoRequest /\ listed = <<>>
  /\ lookup = Nothing /\ missing = {}
  /\ present = {} /\ absent = {} /\ settled = {} /\ writes = 0 /\ calls = 0

-------------------------------------------------------------------------------
(* The request *)

Here(k) == store[k] \in {"good", "bad"}

\* The loop begins: from now on it matters what is there, and what is not.
BeginLoop ==
  /\ reader = "idle"
  /\ reader' = "calling"
  /\ present' = {k \in Keys : Here(k)} /\ absent' = Keys \ present' /\ settled' = Keys
  /\ UNCHANGED <<listing, limit, store, place, writes, position, request, listed, calls>>

\* page_request: a limit of zero is refused without a request.
PositiveLimit(l) == l # 0

page_request(l, c) ==
  [limit |-> IF l = NoLimit THEN DEFAULT_PAGE_SIZE ELSE l, cursor |-> c]

Ask ==
  /\ reader = "calling" /\ calls < MaxCalls /\ PositiveLimit(limit)
  /\ reader' = "asked" /\ calls' = calls + 1
  /\ request' = page_request(limit, position)
  /\ UNCHANGED <<server, listing, limit, position, listed>>

\* Validation, or before that Encode, for the value that is searched for.
RefuseRequest ==
  /\ reader = "calling"
  /\ ~PositiveLimit(limit) \/ listing.encodes
  /\ reader' = "failed"
  /\ UNCHANGED <<server, listing, limit, position, request, listed, calls>>

-------------------------------------------------------------------------------
(* The answer *)

\* The places of what is in the listing.
Taken == {place[k] : k \in {e \in Keys : Here(e)}}

\* The pages the index may give: the first places after the cursor, as many as fit.
Entries(index, r) ==
  {page \in SUBSET {k \in index : k > r.cursor} :
     /\ Cardinality(page) <= r.limit
     /\ \A k \in index \ page :
          k > r.cursor => Cardinality(page) = r.limit /\ \A e \in page : e < k}

\* The cursor is the last place of a full page, though none may follow it.
Nexts(index, r, page) ==
  IF Cardinality(page) < r.limit THEN {Nothing}
  ELSE {k \in page : \A e \in page : e <= k} \cup
       (IF \E k \in index : \A e \in page : k > e THEN {} ELSE {Nothing})

Items(page) == {k \in Keys : Here(k) /\ place[k] \in page}

\* The items of a page, in the order of the index.
Ordered(items) ==
  {s \in [1..Cardinality(items) -> items] :
     ToSet(s) = items /\ \A i, j \in DOMAIN s : i < j => place[s[i]] < place[s[j]]}

\* decode_document_page: the first bad item fails the page.
Decodes(items) == listing.decodes => \A k \in items : store[k] = "good"

\* non_empty, and the loop's match on next_cursor
IsLastPage(next) == next = Nothing

PageIsRead ==
  /\ reader = "asked" /\ request.limit \in 1..max_page_size
  /\ \E ghosts \in SUBSET (Places \ Taken) :
       LET index == Taken \cup ghosts
       IN  \E page \in Entries(index, request) : \E next \in Nexts(index, request, page) :
             /\ Decodes(Items(page))
             /\ \E items \in Ordered(Items(page)) : listed' = listed \o items
             /\ position' = next
             /\ reader' = IF IsLastPage(next) THEN "done" ELSE "calling"
  /\ UNCHANGED <<server, listing, limit, request, calls>>

\* An item of the page does not decode, the server refuses the limit or the cursor, the
\* call reaches its deadline or the connection breaks.
PageIsLost ==
  /\ reader = "asked"
  /\ reader' = "failed"
  /\ UNCHANGED <<server, listing, limit, position, request, listed, calls>>

\* The application asks for the same page again: it still has the cursor.
AskAgain ==
  /\ reader = "failed" /\ PositiveLimit(limit)
  /\ reader' = "calling"
  /\ UNCHANGED <<server, listing, limit, position, request, listed, calls>>

-------------------------------------------------------------------------------
(* Reading by id what was listed *)

AskFor(k) ==
  /\ reader = "done" /\ lookup = Nothing /\ calls < MaxCalls /\ k \in ToSet(listed)
  /\ lookup' = k /\ calls' = calls + 1
  /\ UNCHANGED <<server, listing, limit, reader, position, request, listed, missing>>

get_document(k) == listing.of = "document" /\ AskFor(k)

\* The listing has the ids of nodes and edges, not what they carry.
get_node(k) == listing.of = "node" /\ AskFor(k)
get_edge(k) == listing.of = "edge" /\ AskFor(k)

\* The value, or Decode for one of another shape; an edge wherever it leads.
ValueArrives ==
  /\ lookup # Nothing /\ store[lookup] # "absent"
  /\ lookup' = Nothing
  /\ UNCHANGED <<server, loop, missing>>

NotFound ==
  /\ lookup # Nothing /\ store[lookup] = "absent"
  /\ lookup' = Nothing /\ missing' = missing \cup {lookup}
  /\ UNCHANGED <<server, loop>>

\* The call reaches its deadline, or the connection breaks.
LookupFails ==
  /\ lookup # Nothing
  /\ lookup' = Nothing
  /\ UNCHANGED <<server, loop, missing>>

LookupNext ==
  \/ ValueArrives \/ NotFound \/ LookupFails
  \/ \E k \in Keys : get_document(k) \/ get_node(k) \/ get_edge(k)

-------------------------------------------------------------------------------
(* Other tasks *)

\* An entry that comes into the listing for the first time has been in no other place.
Note(k, value, p) ==
  /\ <<value, p>> # <<store[k], place[k]>>
  /\ writes < MaxWrites /\ writes' = writes + 1
  /\ store' = [store EXCEPT ![k] = value] /\ place' = [place EXCEPT ![k] = p]
  /\ present' = IF value \in {"good", "bad"} THEN present ELSE present \ {k}
  /\ absent' = IF value \in {"good", "bad"} THEN absent \ {k} ELSE absent
  /\ settled' = IF p = place[k] \/ k \in absent THEN settled ELSE settled \ {k}
  /\ UNCHANGED loop

\* Sorted by its values, an entry goes where they put it; ties are broken by the id, so
\* two never share a place.  Without a sort list it stays where its id is.
PlacesFor(k) ==
  IF listing.sorts THEN Places \ {place[e] : e \in Keys \ {k}} ELSE {place[k]}

\* It no longer fulfils the filters, has another value in the searched field, or is an
\* edge whose endpoints or label were changed: a read by its id still finds it.
Leaves(k) == listing.selects /\ Note(k, "elsewhere", place[k])

Upsert(k) ==
  Leaves(k) \/ \E value \in Values : \E p \in PlacesFor(k) : Note(k, value, p)

Edges == listing.of = "edge"

Put(k) == ~Edges /\ Upsert(k)

\* An edge that is refused changes nothing.
AddEdge(k) == Edges /\ Upsert(k)

\* Deleting what is not there succeeds and changes nothing.
Delete(k) == ~Edges /\ Note(k, "absent", place[k])
DeleteEdge(k) == Edges /\ Note(k, "absent", place[k])

-------------------------------------------------------------------------------
LoopNext ==
  \/ BeginLoop \/ Ask \/ RefuseRequest \/ PageIsRead \/ PageIsLost \/ AskAgain
  \/ \E k \in Keys : Put(k) \/ AddEdge(k) \/ Delete(k) \/ DeleteEdge(k)

ListingNext == (LoopNext /\ UNCHANGED lookups) \/ LookupNext

ListingSpec == ListingInit /\ [][ListingNext]_reading

-------------------------------------------------------------------------------
(* Properties *)

\* What kept its place since the loop began: without a sort list, everything.
Kept == IF listing.sorts THEN settled ELSE Keys

\* A loop that ends with the last page has listed every entry that was in the listing
\* all the while and kept its place, whatever was written meanwhile, however short the
\* pages were and whichever of them was lost and asked for again; and none that was not
\* in the listing at any time.  What kept its place is listed once, and in the order of
\* the places.  (Only a document whose values a query sorts by are rewritten does not: it
\* may jump the cursor, and be passed over or listed twice.)  A bad item fails its page,
\* it is not left out.  And what was listed and is not found by its id did not stay: it
\* was deleted.
ListsWhatStayed ==
  /\ \A i, j \in DOMAIN listed :
       i < j /\ {listed[i], listed[j]} \subseteq Kept => place[listed[i]] < place[listed[j]]
  /\ reader = "done" => /\ present \cap Kept \subseteq ToSet(listed)
                        /\ ToSet(listed) \cap absent = {}
  /\ missing \subseteq ToSet(listed) /\ missing \cap present = {}

=============================================================================
