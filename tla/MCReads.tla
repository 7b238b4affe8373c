--------------------------------- MODULE MCReads --------------------------------
(***************************************************************************)
(* The two ways to read many pages, in one run: a behaviour is one walk    *)
(* over the neighbors of a node, or one loop over a listing.               *)
(***************************************************************************)
EXTENDS NeighborWalk, PagedListing

VARIABLE reads

MCvars == <<vars, reading, reads>>

\* Where a loop over a listing may begin, up to what its properties tell apart: only the
\* places of a sorted listing distinguish its entries, so they may be in the order of the
\* keys; and until an entry comes into the listing no page and no read by id tells
\* whether it is elsewhere or absent.
Representative ==
  /\ \A j, k \in Keys : j < k => place[j] < place[k]
  /\ \A k \in Keys : store[k] # "elsewhere"

MCInit ==
  /\ Init
  /\ \/ reads = "neighbors"
        /\ listing = list_nodes /\ limit = NoLimit
        /\ store = [k \in Keys |-> "absent"] /\ place = [k \in Keys |-> k] /\ reader = "idle" /\ position = Nothing
        /\ request = NoRequest /\ listed = <<>> /\ present = {} /\ absent = {} /\ settled = {}
        /\ lookup = Nothing /\ missing = {}
        /\ writes = 0 /\ calls = 0
     \/ reads = "listing" /\ whole = FALSE /\ ListingInit /\ Representative

MCNext ==
  \/ reads = "neighbors" /\ Next /\ UNCHANGED <<reading, reads>>
  \/ reads = "listing" /\ ListingNext /\ UNCHANGED <<vars, reads>>

MCSpec == MCInit /\ [][MCNext]_MCvars /\ Fairness

===============================================================================
