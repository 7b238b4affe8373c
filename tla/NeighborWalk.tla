----------------------------- MODULE NeighborWalk -----------------------------
(***************************************************************************)
(* Reading the neighbors of a node with their payloads (src/src/graph.rs): *)
(* get_neighbor_nodes, which walks every page of the listing, and          *)
(* neighbor_nodes_out and neighbor_nodes_in, which read one page; both end *)
(* in fetch_neighbor_nodes, which gets the nodes of the listed neighbors,  *)
(* up to CONCURRENT_REQUESTS at a time, in the order of the listing.       *)
(*                                                                         *)
(* The server answers each page with any items and any next cursor: pages  *)
(* may be empty, and cursors may lead back to pages already read.  A call  *)
(* by unary, its deadline and its replay included, is one request and one  *)
(* answer here.                                                            *)
(***************************************************************************)
EXTENDS Naturals, FiniteSets, SequencesExt

CONSTANTS
  Cursors,              \* the cursors the server can come back with
  None,                 \* no cursor
  CONCURRENT_REQUESTS,
  RequestTimeout,       \* RociaDbBuilder::request_timeout is set
  MaxItems              \* bound: on the items of a page

ASSUME NoneAssumption == None \notin Cursors
ASSUME LimitAssumption == CONCURRENT_REQUESTS \in Nat \ {0} /\ MaxItems \in Nat
ASSUME OptionAssumption == RequestTimeout \in BOOLEAN

VARIABLES
  pc,
  whole,                \* get_neighbor_nodes, not one page
  cursor,
  seen_cursors,
  neighbors,            \* what the pages listed
  asks,                 \* history: how often each page was asked for
  pointed,              \* history: the cursors the server came back with
  started,              \* how many of the neighbors' GetNode calls were made
  answered,             \* those the server answered with a node
  refused,              \* those that failed
  result                \* the nodes collected

walk == <<whole, cursor, seen_cursors, asks, pointed>>
fetch == <<started, answered, refused, result>>
vars == <<pc, walk, neighbors, fetch>>

Pages == Cursors \cup {None}

\* A neighbor is the item of a page.
Neighbors == Pages \X (1..MaxItems)

TypeOK ==
  /\ pc \in {"idle", "asking", "asked", "fetching", "ok", "failed", "gone"}
  /\ whole \in BOOLEAN /\ cursor \in Pages /\ seen_cursors \subseteq Cursors
  /\ neighbors \in Seq(Neighbors) /\ result \in Seq(Neighbors)
  /\ asks \in [Pages -> Nat] /\ pointed \subseteq Cursors
  /\ started \in 0..Len(neighbors)
  /\ answered \subseteq 1..started /\ refused \subseteq 1..started
  /\ Len(result) <= started

Init ==
  /\ pc = "idle" /\ whole \in BOOLEAN
  /\ cursor = None /\ seen_cursors = {}
  /\ neighbors = <<>> /\ result = <<>>
  /\ asks = [c \in Pages |-> 0] /\ pointed = {}
  /\ started = 0 /\ answered = {} /\ refused = {}

-------------------------------------------------------------------------------
(* Mutated forms of the definitions below, each a bug this code could have;   *)
(* no specification uses them.                                                *)

\* An empty page is taken for the last one.
StopsAtAnEmptyPage(n, next) ==
  IF whole /\ n > 0 /\ next # None /\ next \notin seen_cursors
  THEN pc' = "asking" /\ cursor' = next
  ELSE pc' = "fetching" /\ UNCHANGED cursor

\* buffer_unordered: the nodes are collected as they arrive.
CollectUnordered ==
  /\ pc = "fetching"
  /\ \E i \in answered :
       /\ neighbors[i] \notin ToSet(result)
       /\ result' = Append(result, neighbors[i])
  /\ UNCHANGED <<pc, walk, neighbors, started, answered, refused>>

\* Nothing ends a GetNode call the server does not answer.
NoTimeout == FALSE /\ UNCHANGED vars

-------------------------------------------------------------------------------
(* The pages *)

\* The application reads a page of its choice, or all of them from the first.
Begin ==
  /\ pc = "idle"
  /\ pc' = "asking"
  /\ cursor' \in IF whole THEN {None} ELSE Pages
  /\ UNCHANGED <<whole, seen_cursors, asks, pointed, neighbors, fetch>>

AskPage ==
  /\ pc = "asking"
  /\ pc' = "asked"
  /\ seen_cursors' = IF whole THEN seen_cursors \cup ({cursor} \ {None}) ELSE seen_cursors
  /\ asks' = [asks EXCEPT ![cursor] = @ + 1]
  /\ UNCHANGED <<whole, cursor, pointed, neighbors, fetch>>

\* next_pagination_cursor
Fresh(next) == next # None /\ next \notin seen_cursors

GoOn(n, next) ==
  IF whole /\ Fresh(next)
  THEN pc' = "asking" /\ cursor' = next
  ELSE pc' = "fetching" /\ UNCHANGED cursor

PageArrives ==
  /\ pc = "asked"
  /\ \E n \in 0..MaxItems, next \in Pages :
       /\ neighbors' = neighbors \o [k \in 1..n |-> <<cursor, k>>]
       /\ pointed' = pointed \cup ({next} \ {None})
       /\ GoOn(n, next)
  /\ UNCHANGED <<whole, seen_cursors, asks, fetch>>

End(how) ==
  /\ pc' = how
  /\ UNCHANGED <<walk, neighbors, fetch>>

\* The server refuses the page (the node is gone, the cursor is not its own), or
\* the connection breaks.
PageFails == pc = "asked" /\ End("failed")

PageDeadline == RequestTimeout /\ PageFails

-------------------------------------------------------------------------------
(* fetch_neighbor_nodes *)

HasNext == started < Len(neighbors)

HasPlace == started - Len(result) < CONCURRENT_REQUESTS

\* buffered: a place is taken from the call to the moment its node is collected.
StartGet ==
  /\ pc = "fetching" /\ HasNext /\ HasPlace
  /\ started' = started + 1
  /\ UNCHANGED <<pc, walk, neighbors, answered, refused, result>>

InFlight == {i \in 1..started : i \notin answered \cup refused}

NodeArrives(i) ==
  /\ pc = "fetching"
  /\ answered' = answered \cup {i}
  /\ UNCHANGED <<pc, walk, neighbors, started, refused, result>>

\* The node was deleted since the page listed it, its payload does not decode,
\* the connection breaks.
GetFails(i) ==
  /\ pc = "fetching"
  /\ refused' = refused \cup {i}
  /\ UNCHANGED <<pc, walk, neighbors, started, answered, result>>

GetDeadline == RequestTimeout /\ \E i \in InFlight : GetFails(i)

Collect ==
  /\ pc = "fetching" /\ Len(result) + 1 \in answered
  /\ result' = Append(result, neighbors[Len(result) + 1])
  /\ UNCHANGED <<pc, walk, neighbors, started, answered, refused>>

\* try_collect: the first error in the order of the listing is the call's.
Abort == pc = "fetching" /\ Len(result) + 1 \in refused /\ End("failed")

Finish == pc = "fetching" /\ Len(result) = Len(neighbors) /\ End("ok")

\* The future of the call is dropped.
Cancel == pc \in {"asked", "fetching"} /\ End("gone")

-------------------------------------------------------------------------------
Next ==
  \/ Begin \/ AskPage \/ PageArrives \/ PageFails \/ PageDeadline
  \/ StartGet \/ Collect \/ Abort \/ Finish \/ GetDeadline \/ Cancel
  \/ \E i \in InFlight : NodeArrives(i) \/ GetFails(i)

\* The executor polls the call and its timers fire.  The server need not answer.
Fairness ==
  /\ WF_vars(AskPage) /\ WF_vars(PageDeadline) /\ WF_vars(StartGet)
  /\ WF_vars(GetDeadline) /\ WF_vars(Collect \/ Abort \/ Finish)

Spec == Init /\ [][Next]_vars
FairSpec == Spec /\ Fairness

-------------------------------------------------------------------------------
(* Properties *)

\* No page is asked for twice, whatever cycle the cursors form.
NoPageTwice == \A c \in Pages : asks[c] <= 1

\* The walk ends with every page the server pointed to read: an empty page or a
\* short one does not end it.
WholeWalk ==
  whole /\ pc \in {"fetching", "ok"} => \A c \in pointed \cup {None} : asks[c] >= 1

\* A whole walk reads every page the server points to once: neither twice, whatever
\* cycle the cursors form, nor not at all, because a page before it was empty or short.
EachPageOnce == NoPageTwice /\ WholeWalk

\* The nodes are collected in the order the server listed the neighbors in, however
\* the calls that get them overtake each other.
InServerOrder == IsPrefix(result, neighbors)

\* At most CONCURRENT_REQUESTS nodes are asked for, or held back for an earlier
\* one, at a time.
FanOutBound == started - Len(result) <= CONCURRENT_REQUESTS

\* Over finitely many cursors every walk ends, whatever the server answers or leaves
\* unanswered, with a request_timeout.
WalkEnds == pc \in {"asking", "asked", "fetching"} ~> pc \in {"ok", "failed", "gone"}

===============================================================================
