------------------------------- MODULE PageMap -------------------------------
(***************************************************************************)
(* What the kernel expects of its page tables, with no word about tables:  *)
(* one entry for every virtual page, changed one page at a time.  A call   *)
(* takes effect at a single moment, for its own page only; all other pages *)
(* keep their entries at every moment.  Once memory for tables has run     *)
(* out nothing is promised any more.                                       *)
(***************************************************************************)
VARIABLES
  map,                    \* virtual page -> entry, 0 if it is not mapped
  request,                \* the call in progress: the page and its new entry
  lapsed                  \* memory has run out

vars == <<map, request, lapsed>>

Idle == << >>

Init == request = Idle /\ lapsed = FALSE

Ask ==
  /\ request = Idle
  /\ request' # Idle
  /\ UNCHANGED <<map, lapsed>>

Map ==
  /\ request # Idle
  /\ request' = Idle
  /\ UNCHANGED lapsed
  /\ map' = [map EXCEPT ![request[1]] = request[2]]

Lapse == lapsed' = TRUE

Next == Lapse \/ Ask \/ Map

Spec == Init /\ [][Next]_vars
=============================================================================
