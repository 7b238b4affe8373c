------------------------------- MODULE ReadProofs -------------------------------
(***************************************************************************)
(* Proofs about NeighborWalk, for any set of cursors, any limit and pages  *)
(* of any size; and about PagedListing, for any entries, limits, writes    *)
(* and calls.                                                              *)
(***************************************************************************)
EXTENDS NeighborWalk, PagedListing, SequenceTheorems, FiniteSetTheorems, TLAPS


-------------------------------------------------------------------------------
(* Type correctness *)

LEMMA TypeInit == Init => TypeOK
<1> SUFFICES ASSUME Init PROVE TypeOK
  OBVIOUS
<1>1. neighbors = <<>> /\ result = <<>> /\ Len(<<>>) = 0
  BY DEF Init
<1>2. neighbors \in Seq(Neighbors) /\ result \in Seq(Neighbors)
  BY <1>1
<1>3. asks \in [Pages -> Nat] /\ cursor \in Pages
  BY DEF Init, Pages
<1>4. started \in 0..Len(neighbors) /\ Len(result) <= started
  BY <1>1 DEF Init
<1> QED BY <1>2, <1>3, <1>4 DEF Init, TypeOK

\* A step that leaves the two sequences and what was started alone.
LEMMA PageType ==
  ASSUME TypeOK, UNCHANGED <<neighbors, fetch>>,
         pc' \in {"idle", "asking", "asked", "fetching", "ok", "failed", "gone"},
         whole' \in BOOLEAN, cursor' \in Pages, seen_cursors' \subseteq Cursors,
         asks' \in [Pages -> Nat], pointed' \subseteq Cursors
  PROVE  TypeOK'
BY DEF TypeOK, fetch

LEMMA PageArrivesType == ASSUME TypeOK, PageArrives PROVE TypeOK'
<1>1. PICK n \in 0..MaxItems, next \in Pages :
        /\ neighbors' = neighbors \o [k \in 1..n |-> <<cursor, k>>]
        /\ pointed' = pointed \cup ({next} \ {None})
        /\ GoOn(n, next)
  BY DEF PageArrives
<1> DEFINE new == [k \in 1..n |-> <<cursor, k>>]
<1>2. n \in Nat /\ 1..n \subseteq 1..MaxItems /\ cursor \in Pages
  BY LimitAssumption DEF TypeOK
<1>3. new \in Seq(Neighbors)
  <2>1. new \in [1..n -> Neighbors]
    BY <1>2 DEF Neighbors
  <2> QED BY <1>2, <2>1
<1>4. neighbors \in Seq(Neighbors)
  BY DEF TypeOK
<1>5. neighbors' \in Seq(Neighbors) /\ Len(neighbors') >= Len(neighbors)
  <2> HIDE DEF new
  <2>1. neighbors' = neighbors \o new
    BY <1>1 DEF new
  <2>2. Len(new) \in Nat /\ Len(neighbors) \in Nat
    BY <1>3, <1>4
  <2>3. neighbors \o new \in Seq(Neighbors) /\ Len(neighbors \o new) = Len(neighbors) + Len(new)
    BY <1>3, <1>4
  <2> QED BY <2>1, <2>2, <2>3
<1>6. /\ pc' \in {"asking", "fetching"} /\ cursor' \in Pages
      /\ pointed' \subseteq Cursors
  BY <1>1, <1>2 DEF GoOn, Pages, TypeOK
<1>7. UNCHANGED <<whole, seen_cursors, asks, started, answered, refused, result>>
  BY DEF PageArrives, fetch
<1>8. started \in 0..Len(neighbors')
  <2>1. started \in 0..Len(neighbors) /\ Len(neighbors) \in Nat /\ Len(neighbors') \in Nat
    BY <1>4, <1>5 DEF TypeOK
  <2> QED BY <1>5, <2>1
<1> QED BY <1>5, <1>6, <1>7, <1>8 DEF TypeOK

LEMMA FetchType ==
  ASSUME TypeOK, StartGet \/ Collect \/ \E i \in InFlight : NodeArrives(i) \/ GetFails(i)
  PROVE  TypeOK'
<1>1. /\ UNCHANGED <<pc, whole, cursor, seen_cursors, asks, pointed, neighbors>>
      /\ neighbors \in Seq(Neighbors) /\ result \in Seq(Neighbors)
      /\ Len(neighbors) \in Nat /\ Len(result) \in Nat
      /\ started \in 0..Len(neighbors) /\ started \in Nat /\ Len(result) <= started
      /\ answered \subseteq 1..started /\ refused \subseteq 1..started
  BY DEF TypeOK, StartGet, Collect, NodeArrives, GetFails, walk
<1>2. ASSUME StartGet PROVE TypeOK'
  <2>1. started' = started + 1 /\ started < Len(neighbors)
        /\ UNCHANGED <<answered, refused, result>>
    BY <1>2 DEF StartGet, HasNext
  <2>2. started' \in 0..Len(neighbors) /\ Len(result) <= started' /\ 1..started \subseteq 1..started'
    BY <1>1, <2>1
  <2> QED BY <1>1, <2>1, <2>2 DEF TypeOK
<1>3. ASSUME Collect PROVE TypeOK'
  <2>1. result' = Append(result, neighbors[Len(result) + 1])
        /\ Len(result) + 1 \in answered /\ UNCHANGED <<started, answered, refused>>
    BY <1>3 DEF Collect
  <2>2. Len(result) + 1 \in 1..started
    BY <1>1, <2>1
  <2>3. neighbors[Len(result) + 1] \in Neighbors
    BY <1>1, <2>2
  <2>4. result' \in Seq(Neighbors) /\ Len(result') = Len(result) + 1
    BY <1>1, <2>1, <2>3
  <2>5. Len(result') <= started
    BY <1>1, <2>2, <2>4
  <2> QED BY <1>1, <2>1, <2>4, <2>5 DEF TypeOK
<1>4. ASSUME NEW i \in InFlight, NodeArrives(i) \/ GetFails(i) PROVE TypeOK'
  <2>1. i \in 1..started
    BY DEF InFlight
  <2>2. /\ answered' \subseteq 1..started /\ refused' \subseteq 1..started
        /\ UNCHANGED <<started, result>>
    BY <1>1, <1>4, <2>1 DEF NodeArrives, GetFails
  <2> QED BY <1>1, <2>2 DEF TypeOK
<1> QED BY <1>2, <1>3, <1>4

\* GetDeadline is one of the ways a GetNode call fails.
LEMMA Steps ==
  [Next]_vars =>
    \/ UNCHANGED vars \/ Begin \/ AskPage \/ PageArrives \/ StartGet \/ Collect
    \/ \E how \in {"ok", "failed", "gone"} : pc \in {"asked", "fetching"} /\ End(how)
    \/ \E i \in InFlight : NodeArrives(i) \/ GetFails(i)
BY DEF Next, PageFails, PageDeadline, Abort, Finish, Cancel, GetDeadline

LEMMA TypeStep == TypeOK /\ [Next]_vars => TypeOK'
<1> SUFFICES ASSUME TypeOK, [Next]_vars PROVE TypeOK'
  OBVIOUS
<1>1. CASE UNCHANGED vars
  BY <1>1 DEF vars, walk, fetch, TypeOK
<1>2. CASE Begin
  <2>1. cursor' \in Pages
    BY <1>2 DEF Begin, Pages
  <2> QED BY <1>2, <2>1, PageType DEF Begin, TypeOK
<1>3. CASE AskPage
  <2>1. asks' \in [Pages -> Nat]
    BY <1>3 DEF AskPage, TypeOK
  <2>2. seen_cursors' \subseteq Cursors
    BY <1>3 DEF AskPage, TypeOK, Pages
  <2> QED BY <1>3, <2>1, <2>2, PageType DEF AskPage, TypeOK
<1>4. ASSUME NEW how \in {"ok", "failed", "gone"}, End(how) PROVE TypeOK'
  BY <1>4, PageType DEF End, TypeOK, walk
<1> QED BY <1>1, <1>2, <1>3, <1>4, PageArrivesType, FetchType, Steps

\* Every variable keeps its type, for any cursors, limit and pages: no call is made
\* for a neighbor that was not listed.
THEOREM TypeCorrect == Spec => []TypeOK
BY TypeInit, TypeStep, PTL DEF Spec

-------------------------------------------------------------------------------
(* The walk *)

\* What get_neighbor_nodes has asked for is what it has seen, and the first page.
WalkInv ==
  /\ \A c \in Cursors : (c \in seen_cursors => asks[c] = 1) /\ (c \notin seen_cursors => asks[c] = 0)
  /\ pc = "idle" => asks[None] = 0 /\ pointed = {} /\ cursor = None
  /\ pc = "asking" =>
       /\ cursor \notin seen_cursors /\ pointed \subseteq seen_cursors \cup {cursor}
       /\ (cursor = None => asks[None] = 0) /\ (cursor # None => asks[None] = 1)
  /\ pc \notin {"idle", "asking"} => asks[None] = 1 /\ pointed \subseteq seen_cursors

\* One page is asked for once.
PageInv ==
  \A c \in Pages : asks[c] <= 1 /\ (pc \in {"idle", "asking"} => asks[c] = 0)

AsksInv == (whole => WalkInv) /\ (~whole => PageInv)

LEMMA AsksInit == Init => AsksInv
BY NoneAssumption DEF Init, AsksInv, WalkInv, PageInv, Pages

LEMMA AsksStep == TypeOK /\ AsksInv /\ [Next]_vars => AsksInv'
<1> SUFFICES ASSUME TypeOK, AsksInv, [Next]_vars PROVE AsksInv'
  OBVIOUS
<1>1. whole' = whole
  BY Steps DEF vars, walk, Begin, AskPage, PageArrives, StartGet, Collect, End, NodeArrives,
               GetFails
<1>2. CASE Begin
  <2>1. pc = "idle" /\ pc' = "asking" /\ UNCHANGED <<seen_cursors, asks, pointed>>
        /\ cursor' \in IF whole THEN {None} ELSE Pages
    BY <1>2 DEF Begin
  <2>2. None \notin seen_cursors
    BY NoneAssumption DEF TypeOK
  <2>3. whole => WalkInv'
    BY <2>1, <2>2 DEF AsksInv, WalkInv
  <2>4. ~whole => PageInv'
    BY <2>1 DEF AsksInv, PageInv
  <2> QED BY <1>1, <2>3, <2>4 DEF AsksInv
<1>3. CASE AskPage
  <2>1. /\ pc = "asking" /\ pc' = "asked" /\ UNCHANGED <<cursor, pointed>>
        /\ asks' = [asks EXCEPT ![cursor] = @ + 1] /\ cursor \in Pages /\ asks \in [Pages -> Nat]
        /\ seen_cursors' = IF whole THEN seen_cursors \cup ({cursor} \ {None}) ELSE seen_cursors
        /\ pointed \subseteq Cursors
    BY <1>3 DEF AskPage, TypeOK
  <2>2. asks'[cursor] = asks[cursor] + 1 /\ \A c \in Pages : c # cursor => asks'[c] = asks[c]
    BY <2>1
  <2>3. None \in Pages /\ Cursors \subseteq Pages /\ None \notin Cursors
    BY NoneAssumption DEF Pages
  <2>4. ASSUME whole PROVE WalkInv'
    <3>1. CASE cursor = None
      BY <2>1, <2>2, <2>3, <2>4, <3>1 DEF AsksInv, WalkInv
    <3>2. CASE cursor # None
      BY <2>1, <2>2, <2>3, <2>4, <3>2 DEF AsksInv, WalkInv, Pages
    <3> QED BY <3>1, <3>2
  <2>5. ~whole => PageInv'
    BY <2>1, <2>2 DEF AsksInv, PageInv
  <2> QED BY <1>1, <2>4, <2>5 DEF AsksInv
<1>4. CASE PageArrives
  <2>1. PICK n \in 0..MaxItems, next \in Pages :
          /\ pointed' = pointed \cup ({next} \ {None})
          /\ GoOn(n, next)
    BY <1>4 DEF PageArrives
  <2>2. pc = "asked" /\ UNCHANGED <<seen_cursors, asks>>
    BY <1>4 DEF PageArrives
  <2>3. ASSUME whole PROVE WalkInv'
    <3>1. CASE Fresh(next)
      BY <2>1, <2>2, <2>3, <3>1 DEF AsksInv, WalkInv, GoOn, Fresh
    <3>2. CASE ~Fresh(next)
      BY <2>1, <2>2, <2>3, <3>2 DEF AsksInv, WalkInv, GoOn, Fresh
    <3> QED BY <3>1, <3>2
  <2>4. ~whole => PageInv'
    BY <2>1, <2>2 DEF AsksInv, PageInv, GoOn
  <2> QED BY <1>1, <2>3, <2>4 DEF AsksInv
<1>5. ASSUME \/ pc' = pc
             \/ pc' \in {"ok", "failed", "gone"} /\ pc \in {"asked", "fetching"},
             UNCHANGED walk
      PROVE  AsksInv'
  <2>1. UNCHANGED <<whole, cursor, seen_cursors, asks, pointed>>
    BY <1>5 DEF walk
  <2> QED BY <1>5, <2>1 DEF AsksInv, WalkInv, PageInv
<1>6. CASE UNCHANGED vars \/ StartGet \/ Collect \/ \E i \in InFlight : NodeArrives(i) \/ GetFails(i)
  <2>1. pc' = pc /\ UNCHANGED walk
    BY <1>6 DEF vars, StartGet, Collect, NodeArrives, GetFails
  <2> QED BY <1>5, <2>1
<1>7. ASSUME NEW how \in {"ok", "failed", "gone"}, pc \in {"asked", "fetching"}, End(how)
      PROVE  AsksInv'
  <2>1. pc' = how /\ UNCHANGED walk
    BY <1>7 DEF End
  <2> QED BY <1>5, <1>7, <2>1
<1> QED BY <1>2, <1>3, <1>4, <1>6, <1>7, Steps

\* A page is asked for at most once, whatever cycle the server's cursors form, so a
\* walk over finitely many cursors makes finitely many calls.
THEOREM NoPageIsReadTwice == Spec => []NoPageTwice
<1>1. TypeOK /\ AsksInv => NoPageTwice
  BY DEF TypeOK, AsksInv, WalkInv, PageInv, NoPageTwice, Pages
<1> QED BY <1>1, TypeInit, TypeStep, AsksInit, AsksStep, PTL DEF Spec

\* When get_neighbor_nodes turns to the nodes it has read the first page and each
\* page a page pointed to.
THEOREM NoPageIsMissed == Spec => []WholeWalk
<1>1. TypeOK /\ AsksInv => WholeWalk
  BY DEF TypeOK, AsksInv, WalkInv, WholeWalk
<1> QED BY <1>1, TypeInit, TypeStep, AsksInit, AsksStep, PTL DEF Spec

-------------------------------------------------------------------------------
(* The fan-out *)

FetchInv ==
  /\ pc \in {"idle", "asking", "asked"} => started = 0
  /\ \A k \in 1..Len(result) : result[k] = neighbors[k]
  /\ started - Len(result) <= CONCURRENT_REQUESTS

LEMMA FetchInit == Init => FetchInv
<1> SUFFICES ASSUME Init PROVE FetchInv
  OBVIOUS
<1>1. result = <<>> /\ Len(<<>>) = 0 /\ started = 0
  BY DEF Init
<1> QED BY <1>1, LimitAssumption DEF FetchInv

LEMMA FetchStep == TypeOK /\ FetchInv /\ [Next]_vars => FetchInv'
<1> SUFFICES ASSUME TypeOK, FetchInv, [Next]_vars PROVE FetchInv'
  OBVIOUS
<1>1. /\ neighbors \in Seq(Neighbors) /\ result \in Seq(Neighbors)
      /\ Len(neighbors) \in Nat /\ Len(result) \in Nat /\ started \in Nat
      /\ Len(result) <= started /\ started <= Len(neighbors)
      /\ answered \subseteq 1..started
  BY DEF TypeOK
<1>2. CASE PageArrives
  <2>1. pc = "asked" /\ UNCHANGED <<started, result>>
    BY <1>2 DEF PageArrives, fetch
  <2>2. started = 0 /\ Len(result) = 0
    BY <1>1, <2>1 DEF FetchInv
  <2>3. 1..Len(result) = {}
    BY <2>2
  <2> QED BY <2>1, <2>2, <2>3, LimitAssumption DEF FetchInv
<1>3. CASE StartGet
  <2>1. /\ pc = "fetching" /\ UNCHANGED <<pc, neighbors, result>> /\ started' = started + 1
        /\ started - Len(result) < CONCURRENT_REQUESTS
    BY <1>3 DEF StartGet, HasPlace
  <2>2. started' - Len(result) <= CONCURRENT_REQUESTS
    BY <1>1, <2>1, LimitAssumption
  <2> QED BY <2>1, <2>2 DEF FetchInv
<1>4. CASE Collect
  <2>1. /\ pc = "fetching" /\ UNCHANGED <<pc, neighbors, started>>
        /\ result' = Append(result, neighbors[Len(result) + 1])
        /\ Len(result) + 1 \in 1..started
    BY <1>1, <1>4 DEF Collect
  <2>2. neighbors[Len(result) + 1] \in Neighbors
    BY <1>1, <2>1
  <2>3. /\ Len(result') = Len(result) + 1 /\ result'[Len(result) + 1] = neighbors[Len(result) + 1]
        /\ \A k \in 1..Len(result) : result'[k] = result[k]
    BY <1>1, <2>1, <2>2
  <2>4. \A k \in 1..Len(result') : result'[k] = neighbors[k]
    <3>1. \A k \in 1..Len(result') : k \in 1..Len(result) \/ k = Len(result) + 1
      BY <1>1, <2>3
    <3> QED BY <2>3, <3>1 DEF FetchInv
  <2>5. started - Len(result') <= CONCURRENT_REQUESTS
    BY <1>1, <2>3, LimitAssumption DEF FetchInv
  <2> QED BY <2>1, <2>4, <2>5 DEF FetchInv
<1>5. ASSUME UNCHANGED <<neighbors, started, result>>,
             pc' \in {"idle", "asking", "asked"} => pc \in {"idle", "asking", "asked"}
      PROVE  FetchInv'
  BY <1>5 DEF FetchInv
<1>6. \/ PageArrives \/ StartGet \/ Collect
      \/ /\ UNCHANGED <<neighbors, started, result>>
         /\ pc' \in {"idle", "asking", "asked"} => pc \in {"idle", "asking", "asked"}
  BY Steps DEF vars, fetch, Begin, AskPage, End, NodeArrives, GetFails
<1> QED BY <1>2, <1>3, <1>4, <1>5, <1>6

\* A whole walk reads every page the server points to exactly once.
THEOREM EachPageIsReadOnce == Spec => []EachPageOnce
<1>1. NoPageTwice /\ WholeWalk => EachPageOnce
  BY DEF EachPageOnce
<1> QED BY <1>1, NoPageIsReadTwice, NoPageIsMissed, PTL

\* The nodes are collected in the order of the listing, whichever answer comes first.
THEOREM NodesKeepTheirOrder == Spec => []InServerOrder
<1>1. ASSUME TypeOK, FetchInv PROVE InServerOrder
  <2>1. /\ neighbors \in Seq(Neighbors) /\ result \in Seq(Neighbors)
        /\ Len(neighbors) \in Nat /\ Len(result) \in Nat /\ started \in Nat
        /\ Len(result) <= started /\ started <= Len(neighbors)
    BY <1>1 DEF TypeOK
  <2>2. Len(result) <= Len(neighbors)
    BY <2>1
  <2>3. SubSeq(result, 1, Len(result)) = SubSeq(neighbors, 1, Len(result))
    <3>1. \A k \in 1..Len(result) : result[k] = neighbors[k]
      BY <1>1 DEF FetchInv
    <3>2. /\ SubSeq(result, 1, Len(result)) = [k \in 1..Len(result) |-> result[k]]
          /\ SubSeq(neighbors, 1, Len(result)) = [k \in 1..Len(result) |-> neighbors[k]]
      BY <2>1, <2>2
    <3> QED BY <3>1, <3>2
  <2> QED BY <2>2, <2>3 DEF InServerOrder, IsPrefix
<1> QED BY <1>1, TypeInit, TypeStep, FetchInit, FetchStep, PTL DEF Spec

\* buffered lets no more than CONCURRENT_REQUESTS calls run or wait to be collected.
THEOREM FanOutIsBounded == Spec => []FanOutBound
<1>1. FetchInv => FanOutBound
  BY DEF FetchInv, FanOutBound
<1> QED BY <1>1, TypeInit, TypeStep, FetchInit, FetchStep, PTL DEF Spec

-------------------------------------------------------------------------------
(* Listings *)

\* Entries that have been in one place only are listed in the order of their places.
InOrder(s) ==
  \A i, j \in DOMAIN s : i < j /\ {s[i], s[j]} \subseteq settled => place[s[i]] < place[s[j]]

Readers == {"idle", "calling", "asked", "done", "failed"}

LoopType ==
  /\ listing \in Listings /\ limit \in Limits
  /\ reader \in Readers /\ position \in Places \cup {Nothing}
  /\ request \in [limit : Nat, cursor : Places \cup {Nothing}]
  /\ listed \in Seq(Keys) /\ calls \in 0..MaxCalls

ServerType ==
  /\ store \in [Keys -> {"absent", "good", "bad", "elsewhere"}]
  /\ place \in Injection(Keys, Places)
  /\ present \subseteq Keys /\ absent \subseteq Keys /\ settled \subseteq Keys
  /\ writes \in 0..MaxWrites

\* What was there all the while is there, what was there never is not, and without a sort
\* list nothing was in two places.
HistoryInv ==
  reader # "idle" =>
    /\ \A k \in present : Here(k)
    /\ \A k \in absent : ~Here(k)
    /\ listing.sorts \/ settled = Keys

\* Of what has been in one place only, the loop has listed everything up to its cursor
\* that was there all the while, in order, and nothing beyond it.
LoopInv ==
  /\ InOrder(listed)
  /\ reader = "idle" => listed = <<>> /\ position = Nothing
  /\ reader = "asked" => request.cursor = position
  /\ reader # "done" =>
       \A i \in DOMAIN listed : listed[i] \in settled => place[listed[i]] <= position
  /\ reader # "idle" =>
       /\ \A k \in present \cap settled :
            place[k] <= position \/ reader = "done" => k \in ToSet(listed)
       /\ ToSet(listed) \cap absent = {}

ListingInv == LoopType /\ ServerType /\ HistoryInv /\ LoopInv

\* Only what was listed is read by its id, and what is missing did not stay.
LookupInv ==
  /\ lookup \in Keys \cup {Nothing}
  /\ lookup # Nothing => reader = "done" /\ lookup \in ToSet(listed)
  /\ missing \subseteq ToSet(listed) /\ missing \cap present = {}

LEMMA PlacesAreNumbers == Places \subseteq Nat \ {0} /\ Nothing = 0
BY KeysAssumption DEF Nothing

LEMMA PlaceOfAKey == ASSUME ServerType, NEW k \in Keys PROVE place[k] \in Places
BY DEF ServerType, Injection

LEMMA ListingStart == ListingInit => ListingInv /\ LookupInv
<1> SUFFICES ASSUME ListingInit PROVE ListingInv /\ LookupInv
  OBVIOUS
<1>2. LoopType
  BY PageSizeAssumption DEF ListingInit, LoopType, Readers, NoRequest, Nothing
<1>3. ServerType /\ HistoryInv
  <2>1. [k \in Keys |-> k] \in Injection(Keys, Places)
    BY KeysAssumption DEF Injection, IsInjective
  <2>2. place \in Injection(Keys, Places)
    BY <2>1 DEF ListingInit
  <2>3. store \in [Keys -> {"absent", "good", "bad", "elsewhere"}]
    BY DEF ListingInit, Values
  <2> QED BY <2>2, <2>3, PageSizeAssumption DEF ListingInit, ServerType, HistoryInv
<1>4. LoopInv
  BY DEF ListingInit, LoopInv, InOrder
<1>5. LookupInv
  BY DEF ListingInit, LookupInv
<1> QED BY <1>2, <1>3, <1>4, <1>5 DEF ListingInv

\* A page of the index and its cursor: everything between the old cursor and the new
\* one is on it, and everything after the old one when there is no new one.
LEMMA PageCovers ==
  ASSUME NEW index \in SUBSET Places, NEW r, r.limit \in Nat, r.cursor \in Places \cup {Nothing},
         NEW page \in Entries(index, r), NEW next \in Nexts(index, r, page)
  PROVE  /\ page \subseteq index /\ \A k \in page : k > r.cursor
         /\ next \in page \cup {Nothing}
         /\ next # Nothing => \A k \in page : k <= next
         /\ \A k \in index : k > r.cursor /\ (next = Nothing \/ k <= next) => k \in page
<1>1. page \subseteq index /\ \A k \in page : k > r.cursor
  BY DEF Entries
<1>2. page \subseteq Places /\ Places \subseteq Nat \ {0} /\ Nothing = 0
  BY <1>1, PlacesAreNumbers
<1>3. CASE Cardinality(page) < r.limit
  <2>1. next = Nothing
    BY <1>3 DEF Nexts
  <2>2. ASSUME NEW k \in index, k > r.cursor, k \notin page PROVE FALSE
    <3>1. Cardinality(page) = r.limit
      BY <2>2 DEF Entries
    <3> QED BY <1>3, <3>1
  <2> QED BY <1>1, <1>2, <2>1, <2>2
<1>4. CASE ~ (Cardinality(page) < r.limit)
  <2>1. \/ next \in page /\ \A e \in page : e <= next
        \/ next = Nothing /\ ~ \E k \in index : \A e \in page : k > e
    BY <1>4 DEF Nexts
  <2>2. \A k \in index \ page : k > r.cursor => \A e \in page : e < k
    BY DEF Entries
  <2>3. CASE next \in page /\ \A e \in page : e <= next
    <3>1. next \in Nat \ {0}
      BY <1>2, <2>3
    <3>2. ASSUME NEW k \in index, k > r.cursor, k <= next, k \notin page PROVE FALSE
      <4>1. next < k /\ k \in Nat
        BY <1>2, <2>2, <2>3, <3>2
      <4> QED BY <3>1, <3>2, <4>1
    <3> QED BY <1>1, <1>2, <2>3, <3>1, <3>2
  <2>4. CASE next = Nothing /\ ~ \E k \in index : \A e \in page : k > e
    <3>1. ASSUME NEW k \in index, k > r.cursor, k \notin page PROVE FALSE
      <4>1. \A e \in page : e < k /\ e \in Nat /\ k \in Nat
        BY <1>2, <2>2, <3>1
      <4>2. \A e \in page : k > e
        BY <4>1
      <4> QED BY <2>4, <4>2
    <3> QED BY <1>1, <2>4, <3>1
  <2> QED BY <2>1, <2>3, <2>4
<1> QED BY <1>3, <1>4

\* Items that continue a list in order.
LEMMA ItemsJoin ==
  ASSUME NEW items \in SUBSET Keys, NEW s \in Ordered(items), NEW l \in Seq(Keys), InOrder(l),
         ServerType,
         NEW c \in Nat, \A i \in DOMAIN l : l[i] \in settled => place[l[i]] <= c,
         \A k \in items : place[k] > c
  PROVE  /\ l \o s \in Seq(Keys) /\ InOrder(l \o s)
         /\ ToSet(l \o s) = ToSet(l) \cup items
         /\ \A i \in DOMAIN (l \o s) :
              (l \o s)[i] \in items \/ ((l \o s)[i] \in settled => place[(l \o s)[i]] <= c)
<1>1. /\ s \in [1..Cardinality(items) -> items] /\ ToSet(s) = items
      /\ \A i, j \in DOMAIN s : i < j => place[s[i]] < place[s[j]]
  BY DEF Ordered
<1>2. Cardinality(items) \in Nat
  BY KeysAssumption, FS_Subset, FS_CardinalityType
<1>3. s \in Seq(Keys) /\ s \in Seq(items) /\ Len(s) = Cardinality(items) /\ DOMAIN s = 1..Len(s)
  BY <1>1, <1>2
<1>4. /\ l \o s \in Seq(Keys) /\ Len(l \o s) = Len(l) + Len(s) /\ Len(l) \in Nat /\ Len(s) \in Nat
      /\ \A i \in 1..Len(l) : (l \o s)[i] = l[i]
      /\ \A i \in 1..Len(s) : (l \o s)[Len(l) + i] = s[i]
      /\ DOMAIN l = 1..Len(l) /\ DOMAIN (l \o s) = 1..(Len(l) + Len(s))
  BY <1>3
<1>5. \A i \in DOMAIN (l \o s) :
        \/ i \in 1..Len(l) /\ (l \o s)[i] = l[i]
        \/ i - Len(l) \in 1..Len(s) /\ (l \o s)[i] = s[i - Len(l)]
  <2>1. ASSUME NEW i \in 1..(Len(l) + Len(s)), i \notin 1..Len(l)
        PROVE  i - Len(l) \in 1..Len(s) /\ Len(l) + (i - Len(l)) = i
    BY <1>4, <2>1
  <2> QED BY <1>4, <2>1
<1>6. \A i \in 1..Len(s) : s[i] \in items /\ place[s[i]] > c /\ place[s[i]] \in Nat
  BY <1>1, <1>3, PlaceOfAKey, PlacesAreNumbers
<1>7. \A i \in 1..Len(l) : (l[i] \in settled => place[l[i]] <= c) /\ place[l[i]] \in Nat
  <2>1. \A i \in 1..Len(l) : l[i] \in Keys
    BY ElementOfSeq
  <2> QED BY <1>4, <2>1, PlaceOfAKey, PlacesAreNumbers
<1> DEFINE z == l \o s
<1> HIDE DEF z
<1>8. InOrder(z)
  <2> SUFFICES ASSUME NEW i \in DOMAIN z, NEW j \in DOMAIN z, i < j, {z[i], z[j]} \subseteq settled
               PROVE  place[z[i]] < place[z[j]]
    BY DEF InOrder
  <2>1. CASE i \in 1..Len(l) /\ j \in 1..Len(l)
    <3>1. z[i] = l[i] /\ z[j] = l[j] /\ i \in DOMAIN l /\ j \in DOMAIN l
      BY <1>4, <2>1 DEF z
    <3> QED BY <3>1 DEF InOrder
  <2>2. CASE i \in 1..Len(l) /\ j \notin 1..Len(l)
    <3>1. z[i] = l[i] /\ j - Len(l) \in 1..Len(s) /\ z[j] = s[j - Len(l)]
      BY <1>4, <1>5, <2>2 DEF z
    <3> QED BY <1>6, <1>7, <2>2, <3>1
  <2>3. CASE i \notin 1..Len(l) /\ j \notin 1..Len(l)
    <3>1. /\ i - Len(l) \in 1..Len(s) /\ z[i] = s[i - Len(l)]
          /\ j - Len(l) \in 1..Len(s) /\ z[j] = s[j - Len(l)]
      BY <1>5, <2>3 DEF z
    <3>2. i - Len(l) < j - Len(l)
      BY <1>4 DEF z
    <3> QED BY <1>1, <1>3, <3>1, <3>2
  <2>4. ~ (i \notin 1..Len(l) /\ j \in 1..Len(l))
    BY <1>4 DEF z
  <2> QED BY <2>1, <2>2, <2>3, <2>4
<1>9. ToSet(z) = ToSet(l) \cup items
  <2>1. \A x \in ToSet(z) : x \in ToSet(l) \cup items
    BY <1>4, <1>5, <1>6 DEF z, ToSet
  <2>2. \A x \in ToSet(l) : x \in ToSet(z)
    BY <1>4 DEF z, ToSet
  <2>3. \A x \in ToSet(s) : x \in ToSet(z)
    <3>1. \A i \in 1..Len(s) : Len(l) + i \in DOMAIN z /\ z[Len(l) + i] = s[i]
      BY <1>4 DEF z
    <3> QED BY <1>3, <3>1 DEF ToSet
  <2> QED BY <1>1, <2>1, <2>2, <2>3
<1> QED BY <1>4, <1>5, <1>6, <1>7, <1>8, <1>9 DEF z

LEMMA LoopSteps ==
  ASSUME ListingInv, BeginLoop \/ Ask \/ RefuseRequest \/ PageIsLost \/ AskAgain
  PROVE  ListingInv'
<1> USE DEF server, LoopType, ServerType, Readers
<1>0. LoopType /\ ServerType /\ HistoryInv /\ LoopInv /\ Places \subseteq Nat \ {0} /\ Nothing = 0
  BY PlacesAreNumbers DEF ListingInv
<1>1. CASE BeginLoop
  <2>1. /\ reader = "idle" /\ reader' = "calling" /\ listed = <<>>
        /\ present' = {k \in Keys : Here(k)} /\ absent' = Keys \ present' /\ settled' = Keys
        /\ UNCHANGED <<listing, limit, store, place, writes, position, request, listed, calls>>
    BY <1>0, <1>1 DEF BeginLoop, LoopInv
  <2>2. LoopType' /\ ServerType'
    BY <1>0, <2>1
  <2>3. HistoryInv'
    BY <1>0, <2>1 DEF HistoryInv, Here
  <2>4. LoopInv'
    <3>1. ToSet(listed) = {} /\ DOMAIN listed = {}
      BY <2>1 DEF ToSet
    <3>2. \A k \in present' : ~ (place'[k] <= position)
      <4>1. position = 0
        BY <1>0, <2>1 DEF LoopInv
      <4>2. \A k \in Keys : place[k] \in Nat \ {0}
        BY <1>0, PlaceOfAKey
      <4> QED BY <2>1, <4>1, <4>2
    <3> QED BY <2>1, <3>1, <3>2 DEF LoopInv, InOrder
  <2> QED BY <2>2, <2>3, <2>4 DEF ListingInv
<1>2. CASE Ask
  <2>1. /\ reader = "calling" /\ reader' = "asked" /\ calls' = calls + 1 /\ calls < MaxCalls
        /\ request' = page_request(limit, position)
        /\ UNCHANGED <<store, place, present, absent, settled, writes, listing, limit, position, listed>>
    BY <1>2 DEF Ask
  <2>2. request'.cursor = position /\ request' \in [limit : Nat, cursor : Places \cup {Nothing}]
    BY <1>0, <2>1, LimitsAssumption, PageSizeAssumption DEF page_request
  <2>3. LoopType' /\ ServerType'
    BY <1>0, <2>1, <2>2, PageSizeAssumption
  <2>4. HistoryInv' /\ LoopInv'
    BY <1>0, <2>1, <2>2 DEF HistoryInv, Here, LoopInv, InOrder
  <2> QED BY <2>3, <2>4 DEF ListingInv
<1>3. CASE RefuseRequest \/ PageIsLost \/ AskAgain
  <2>1. /\ reader \in {"calling", "asked", "failed"} /\ reader' \in {"calling", "failed"}
        /\ UNCHANGED <<store, place, present, absent, settled, writes, listing, limit, position, request, listed, calls>>
    BY <1>3 DEF RefuseRequest, PageIsLost, AskAgain
  <2>2. LoopType' /\ ServerType'
    BY <1>0, <2>1
  <2>3. HistoryInv' /\ LoopInv'
    BY <1>0, <2>1 DEF HistoryInv, Here, LoopInv, InOrder
  <2> QED BY <2>2, <2>3 DEF ListingInv
<1> QED BY <1>1, <1>2, <1>3

LEMMA PageStep ==
  ASSUME ListingInv, PageIsRead
  PROVE  ListingInv' /\ ToSet(listed) \subseteq ToSet(listed')
<1> USE DEF server, LoopType, ServerType, Readers
<1>0. LoopType /\ ServerType /\ HistoryInv /\ LoopInv /\ Places \subseteq Nat \ {0} /\ Nothing = 0
  BY PlacesAreNumbers DEF ListingInv
<1>1. PICK ghosts \in SUBSET (Places \ Taken) :
        \E page \in Entries(Taken \cup ghosts, request) :
        \E next \in Nexts(Taken \cup ghosts, request, page) :
          /\ \E items \in Ordered(Items(page)) : listed' = listed \o items
          /\ position' = next
          /\ reader' = IF IsLastPage(next) THEN "done" ELSE "calling"
  BY DEF PageIsRead
<1> DEFINE index == Taken \cup ghosts
<1>a. PICK page \in Entries(index, request) : \E next \in Nexts(index, request, page) :
        /\ \E items \in Ordered(Items(page)) : listed' = listed \o items
        /\ position' = next
        /\ reader' = IF IsLastPage(next) THEN "done" ELSE "calling"
  BY <1>1
<1>b. PICK next \in Nexts(index, request, page) :
        /\ \E items \in Ordered(Items(page)) : listed' = listed \o items
        /\ position' = next
        /\ reader' = IF IsLastPage(next) THEN "done" ELSE "calling"
  BY <1>a
<1>2. PICK s \in Ordered(Items(page)) :
        /\ listed' = listed \o s /\ position' = next
        /\ reader' = IF next = Nothing THEN "done" ELSE "calling"
  BY <1>b DEF IsLastPage
<1>3. /\ reader = "asked" /\ request.cursor = position /\ request.limit \in Nat
      /\ UNCHANGED <<store, place, present, absent, settled, writes, listing, limit, request, calls>>
  BY <1>0 DEF PageIsRead, LoopInv
<1>4. index \subseteq Places /\ \A k \in Keys : Here(k) => place[k] \in index
  BY <1>0, PlaceOfAKey DEF Taken
<1> HIDE DEF index
<1>5. /\ page \subseteq index /\ \A p \in page : p > position
      /\ next \in page \cup {Nothing}
      /\ next # Nothing => \A p \in page : p <= next
      /\ \A p \in index : p > position /\ (next = Nothing \/ p <= next) => p \in page
  <2>1. request.cursor \in Places \cup {Nothing} /\ index \in SUBSET Places
    BY <1>0, <1>3, <1>4
  <2>2. /\ page \subseteq index /\ \A p \in page : p > request.cursor
        /\ next \in page \cup {Nothing}
        /\ next # Nothing => \A p \in page : p <= next
        /\ \A p \in index : p > request.cursor /\ (next = Nothing \/ p <= next) => p \in page
    <3> HIDE DEF LoopType
    <3> QED BY <1>3, <2>1, PageCovers
  <2> QED BY <1>3, <2>2
<1>6. /\ Items(page) \subseteq Keys
      /\ \A k \in Items(page) : Here(k) /\ place[k] \in page /\ place[k] > position
  BY <1>5 DEF Items
<1>7. position \in Nat /\ \A k \in Keys : place[k] \in Nat
  <2>1. position \in Nat
    BY <1>0
  <2>2. \A k \in Keys : place[k] \in Places
    BY <1>0, PlaceOfAKey
  <2> QED BY <1>0, <2>1, <2>2
<1>8. /\ listed' \in Seq(Keys) /\ InOrder(listed')
      /\ ToSet(listed') = ToSet(listed) \cup Items(page)
      /\ \A i \in DOMAIN listed' :
           listed'[i] \in Items(page) \/ (listed'[i] \in settled => place[listed'[i]] <= position)
  <2>1. \A i \in DOMAIN listed : listed[i] \in settled => place[listed[i]] <= position
    BY <1>0, <1>3 DEF LoopInv
  <2>2. InOrder(listed) /\ listed \in Seq(Keys) /\ ServerType
    BY <1>0 DEF LoopInv
  <2> HIDE DEF ServerType
  <2> QED BY <1>2, <1>6, <1>7, <2>1, <2>2, ItemsJoin
<1>9. LoopType' /\ ServerType' /\ HistoryInv'
  <2>1. next \in Places \cup {Nothing}
    BY <1>4, <1>5
  <2> QED BY <1>0, <1>2, <1>3, <1>8, <2>1 DEF HistoryInv, Here
<1>10. ASSUME reader' # "done", NEW i \in DOMAIN listed', listed'[i] \in settled
       PROVE  place[listed'[i]] <= position'
  <2>1. next # Nothing /\ next \in page /\ next > position /\ next \in Nat
    BY <1>0, <1>2, <1>4, <1>5, <1>10
  <2>2. listed'[i] \in Keys
    <3>1. listed' \in Seq(Keys) /\ i \in 1..Len(listed')
      BY <1>8, <1>10
    <3> QED BY <3>1, ElementOfSeq
  <2>3. place[listed'[i]] <= next \/ place[listed'[i]] <= position
    BY <1>5, <1>6, <1>8, <1>10, <2>1
  <2>4. place[listed'[i]] \in Nat
    BY <1>7, <2>2
  <2> QED BY <1>2, <1>7, <2>1, <2>3, <2>4
<1>11. ASSUME NEW k \in present \cap settled, place[k] <= next \/ next = Nothing
       PROVE  k \in ToSet(listed')
  <2>1. Here(k) /\ k \in Keys
    BY <1>0, <1>3 DEF HistoryInv
  <2>2. place[k] \in index /\ place[k] \in Nat
    BY <1>4, <1>7, <2>1
  <2>3. CASE place[k] <= position
    BY <1>0, <1>3, <1>8, <2>3 DEF LoopInv
  <2>4. CASE place[k] > position
    <3>1. place[k] \in page
      BY <1>5, <1>11, <2>2, <2>4
    <3> QED BY <1>8, <2>1, <3>1 DEF Items
  <2> QED BY <1>7, <2>2, <2>3, <2>4
<1>12. ToSet(listed') \cap absent = {}
  <2>1. \A k \in absent : ~Here(k)
    BY <1>0, <1>3 DEF HistoryInv
  <2>2. ToSet(listed) \cap absent = {}
    BY <1>0, <1>3 DEF LoopInv
  <2> QED BY <1>6, <1>8, <2>1, <2>2
<1>13. LoopInv'
  <2>1. reader' = "calling" \/ (reader' = "done" /\ next = Nothing)
    BY <1>2
  <2>2. InOrder(listed)'
    BY <1>3, <1>8 DEF InOrder
  <2> QED BY <1>2, <1>3, <1>10, <1>11, <1>12, <2>1, <2>2 DEF LoopInv
<1> QED BY <1>8, <1>9, <1>13 DEF ListingInv

\* A place of its own for every entry: what moves takes a free one.
LEMMA PlacesStayApart ==
  ASSUME ServerType, NEW k \in Keys, NEW p \in PlacesFor(k)
  PROVE  [place EXCEPT ![k] = p] \in Injection(Keys, Places)
<1>1. place \in [Keys -> Places] /\ \A d, e \in Keys : place[d] = place[e] => d = e
  BY DEF ServerType, Injection, IsInjective
<1>2. p \in Places /\ \A e \in Keys \ {k} : p # place[e]
  BY <1>1 DEF PlacesFor
<1> QED BY <1>1, <1>2 DEF Injection, IsInjective

LEMMA NoteStep ==
  ASSUME ListingInv, NEW k \in Keys, NEW value \in {"absent", "good", "bad", "elsewhere"},
         NEW p \in PlacesFor(k), Note(k, value, p)
  PROVE  ListingInv'
<1> USE DEF LoopType, Readers
<1>0. LoopType /\ ServerType /\ HistoryInv /\ LoopInv
  BY DEF ListingInv
<1>1. /\ writes < MaxWrites /\ writes' = writes + 1 /\ store' = [store EXCEPT ![k] = value]
      /\ place' = [place EXCEPT ![k] = p]
      /\ present' \subseteq present /\ absent' \subseteq absent /\ settled' \subseteq settled
      /\ value \notin {"good", "bad"} => k \notin present'
      /\ value \in {"good", "bad"} => k \notin absent'
      /\ p # place[k] /\ k \notin absent => k \notin settled'
      /\ p = place[k] => settled' = settled
      /\ UNCHANGED <<listing, limit, reader, position, request, listed, calls>>
  BY DEF Note, loop
<1>2. LoopType' /\ ServerType'
  <2>1. place' \in Injection(Keys, Places)
    BY <1>0, <1>1, PlacesStayApart
  <2>2. store' \in [Keys -> {"absent", "good", "bad", "elsewhere"}]
    BY <1>0, <1>1 DEF ServerType
  <2> QED BY <1>0, <1>1, <2>1, <2>2, PageSizeAssumption DEF ServerType
<1>3. HistoryInv'
  <2>1. listing.sorts \/ p = place[k]
    BY DEF PlacesFor
  <2>2. \A e \in Keys : e # k => store'[e] = store[e]
    BY <1>0, <1>1 DEF ServerType
  <2>3. store'[k] = value
    BY <1>0, <1>1 DEF ServerType
  <2>4. reader # "idle" => (\A e \in present' : Here(e)') /\ (\A e \in absent' : ~Here(e)')
    BY <1>0, <1>1, <2>2, <2>3 DEF HistoryInv, Here, ServerType
  <2> QED BY <1>0, <1>1, <2>1, <2>4 DEF HistoryInv
<1>4. place \in [Keys -> Places]
  BY <1>0 DEF ServerType, Injection
<1>5. ASSUME NEW e \in Keys, e \in settled', e \notin absent PROVE place'[e] = place[e]
  BY <1>1, <1>4, <1>5
<1>6. ASSUME NEW i \in DOMAIN listed PROVE listed[i] \in Keys /\ listed[i] \notin absent
  <2>1. listed[i] \in Keys
    BY <1>0, ElementOfSeq
  <2>2. reader # "idle"
    BY <1>0 DEF LoopInv
  <2>3. listed[i] \in ToSet(listed)
    BY DEF ToSet
  <2> QED BY <1>0, <2>1, <2>2, <2>3 DEF LoopInv
<1>7. \A i \in DOMAIN listed :
        listed[i] \in settled' => listed[i] \in settled /\ place'[listed[i]] = place[listed[i]]
  BY <1>1, <1>5, <1>6
<1>8. InOrder(listed)'
  BY <1>0, <1>1, <1>7 DEF LoopInv, InOrder
<1>9. ASSUME reader # "idle", NEW e \in present' \cap settled'
      PROVE  e \in present \cap settled /\ place'[e] = place[e]
  <2>1. e \in present /\ e \in Keys
    BY <1>0, <1>1, <1>9 DEF ServerType
  <2>2. e \notin absent
    BY <1>0, <1>9, <2>1 DEF HistoryInv
  <2> QED BY <1>1, <1>5, <1>9, <2>1, <2>2
<1>10. LoopInv'
  BY <1>0, <1>1, <1>7, <1>8, <1>9 DEF LoopInv
<1> QED BY <1>2, <1>3, <1>10 DEF ListingInv

\* Every write of another task is one of an entry and a place that is its own or free.
LEMMA WriteStep ==
  ASSUME ListingInv, NEW k \in Keys, Put(k) \/ AddEdge(k) \/ Delete(k) \/ DeleteEdge(k)
  PROVE  ListingInv' /\ present' \subseteq present /\ UNCHANGED <<reader, listed>>
<1>1. place[k] \in PlacesFor(k)
  BY DEF ListingInv, ServerType, Injection, IsInjective, PlacesFor
<1>2. PICK value \in {"absent", "good", "bad", "elsewhere"}, p \in PlacesFor(k) : Note(k, value, p)
  <2>1. CASE Delete(k) \/ DeleteEdge(k)
    BY <1>1, <2>1 DEF Delete, DeleteEdge
  <2>2. CASE Put(k) \/ AddEdge(k)
    BY <1>1, <2>2 DEF Put, AddEdge, Upsert, Leaves, Values
  <2> QED BY <2>1, <2>2
<1>3. present' \subseteq present /\ UNCHANGED <<reader, listed>>
  BY <1>2 DEF Note, loop
<1> QED BY <1>2, <1>3, NoteStep

\* A read by id makes a call and changes nothing else of the loop or of the store.
LEMMA LookupKeepsTheLoop == ASSUME ListingInv, LookupNext PROVE ListingInv'
<1>1. /\ UNCHANGED <<store, place, present, absent, settled, writes>>
      /\ UNCHANGED <<listing, limit, reader, position, request, listed>>
      /\ calls' = calls \/ (calls < MaxCalls /\ calls' = calls + 1)
  BY DEF LookupNext, get_document, get_node, get_edge, AskFor, ValueArrives, NotFound, LookupFails, server,
         loop
<1>2. calls \in 0..MaxCalls
  BY DEF ListingInv, LoopType
<1>3. calls' \in 0..MaxCalls
  BY <1>1, <1>2, PageSizeAssumption
<1> QED BY <1>1, <1>3 DEF ListingInv, LoopType, ServerType, HistoryInv, LoopInv, InOrder,
       Here

LEMMA LookupStep ==
  ASSUME ListingInv, LookupInv, LookupNext
  PROVE  LookupInv'
<1>1. UNCHANGED <<present, reader, listed>>
  BY DEF LookupNext, get_document, get_node, get_edge, AskFor, ValueArrives, NotFound, LookupFails, server,
         loop
<1>2. ASSUME NEW k \in Keys, AskFor(k) PROVE LookupInv'
  BY <1>1, <1>2 DEF AskFor, LookupInv
<1>3. CASE NotFound
  <2>1. reader # "idle" /\ lookup \in ToSet(listed) /\ store[lookup] = "absent"
    BY <1>3 DEF NotFound, LookupInv
  <2>2. lookup \notin present
    BY <2>1 DEF ListingInv, HistoryInv, Here
  <2> QED BY <1>1, <1>3, <2>1, <2>2 DEF NotFound, LookupInv
<1>4. CASE ValueArrives \/ LookupFails
  BY <1>1, <1>4 DEF ValueArrives, LookupFails, LookupInv
<1> QED BY <1>2, <1>3, <1>4 DEF LookupNext, get_document, get_node, get_edge

\* The lists only grow and what stayed only shrinks, once the loop has begun.
LEMMA LoopKeepsTheLookups ==
  ASSUME ListingInv, LookupInv, LoopNext, UNCHANGED lookups
  PROVE  LookupInv'
<1>1. CASE BeginLoop
  <2>1. reader = "idle" /\ listed' = listed /\ listed = <<>>
    BY <1>1 DEF BeginLoop, ListingInv, LoopInv
  <2>2. ToSet(listed) = {}
    BY <2>1 DEF ToSet
  <2>3. missing = {} /\ lookup = Nothing
    BY <2>1, <2>2 DEF LookupInv
  <2> QED BY <2>3 DEF LookupInv, lookups
<1>2. CASE Ask \/ RefuseRequest \/ PageIsRead \/ PageIsLost \/ AskAgain
  <2>1. reader # "done" /\ UNCHANGED present
    BY <1>2 DEF Ask, RefuseRequest, PageIsRead, PageIsLost, AskAgain, server
  <2>2. ToSet(listed) \subseteq ToSet(listed')
    BY <1>2, PageStep DEF Ask, RefuseRequest, PageIsLost, AskAgain
  <2> QED BY <2>1, <2>2 DEF LookupInv, lookups
<1>3. ASSUME NEW k \in Keys, Put(k) \/ AddEdge(k) \/ Delete(k) \/ DeleteEdge(k) PROVE LookupInv'
  <2>1. present' \subseteq present /\ UNCHANGED <<reader, listed>>
    BY <1>3, WriteStep
  <2> QED BY <2>1 DEF LookupInv, lookups
<1> QED BY <1>1, <1>2, <1>3 DEF LoopNext

LEMMA ListingAlways == ListingSpec => [](ListingInv /\ LookupInv)
<1>1. ListingInv /\ LookupInv /\ [ListingNext]_reading => ListingInv' /\ LookupInv'
  <2> SUFFICES ASSUME ListingInv, LookupInv, [ListingNext]_reading
               PROVE  ListingInv' /\ LookupInv'
    OBVIOUS
  <2>1. CASE UNCHANGED reading
    BY <2>1 DEF reading, server, loop, lookups, ListingInv, LoopType, ServerType, HistoryInv,
       LoopInv, LookupInv, InOrder, Here
  <2>2. ASSUME NEW k \in Keys, Put(k) \/ AddEdge(k) \/ Delete(k) \/ DeleteEdge(k) PROVE ListingInv'
    BY <2>2, WriteStep
  <2>3. CASE LoopNext /\ UNCHANGED lookups
    <3>1. ListingInv'
      BY <2>2, <2>3, LoopSteps, PageStep DEF LoopNext
    <3> QED BY <2>3, <3>1, LoopKeepsTheLookups
  <2>4. CASE LookupNext
    BY <2>4, LookupKeepsTheLoop, LookupStep
  <2> QED BY <2>1, <2>3, <2>4 DEF ListingNext
<1> QED BY <1>1, ListingStart, PTL DEF ListingSpec

\* The loop, its request and the store keep their types.
THEOREM ListingTypeCorrect == ListingSpec => []ListingTypeOK
<1>1. ListingInv /\ LookupInv => ListingTypeOK
  <2> SUFFICES ASSUME ListingInv, LookupInv PROVE ListingTypeOK
    OBVIOUS
  <2>1. ToSet(listed) \subseteq Keys
    BY ElementOfSeq DEF ListingInv, LoopType, ToSet
  <2> QED BY <2>1 DEF ListingInv, LoopType, ServerType, LookupInv, Readers, ListingTypeOK
<1> QED BY <1>1, ListingAlways, PTL

\* Whatever is written while the pages are read, and whichever pages are short, empty or
\* asked for again, a loop that ends has listed what stayed where it was, once and in
\* order, and nothing that never was there; and what it lists and a read by its id does
\* not find did not stay.
THEOREM ListingIsWhole == ListingSpec => []ListsWhatStayed
<1>1. ListingInv /\ LookupInv => ListsWhatStayed
  <2> SUFFICES ASSUME ListingInv, LookupInv PROVE ListsWhatStayed
    OBVIOUS
  <2>1. InOrder(listed) /\ (reader = "idle" => listed = <<>>) /\ listed \in Seq(Keys) /\ present \subseteq Keys
    BY DEF ListingInv, LoopInv, LoopType, ServerType
  <2>2. reader # "idle" => Kept = settled
    BY DEF Kept, ListingInv, HistoryInv
  <2>3. \A i, j \in DOMAIN listed :
          i < j /\ {listed[i], listed[j]} \subseteq Kept => place[listed[i]] < place[listed[j]]
    BY <2>1, <2>2 DEF InOrder
  <2>4. reader = "done" => present \cap Kept \subseteq ToSet(listed) /\ ToSet(listed) \cap absent = {}
    BY <2>2 DEF ListingInv, LoopInv
  <2>5. missing \subseteq ToSet(listed) /\ missing \cap present = {}
    BY DEF LookupInv
  <2> QED BY <2>3, <2>4, <2>5 DEF ListsWhatStayed
<1> QED BY <1>1, ListingAlways, PTL

===============================================================================
