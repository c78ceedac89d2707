--------------------------- MODULE PageAllocator ----------------------------
(***************************************************************************)
(* What the kernel expects of its physical page allocator, with no word    *)
(* about lists: a pool of whole usable pages, each of them either free or  *)
(* held by exactly one owner.  The pool is filled once, then pages are     *)
(* handed out and taken back one at a time; a request is refused only when *)
(* nothing is free.                                                        *)
(***************************************************************************)
EXTENDS Integers

CONSTANT NoPage           \* the answer that means "out of memory"

VARIABLES
  pool,                   \* every page the allocator is to manage
  free,                   \* pages it can hand out
  held,                   \* pages owned by someone else
  answer,                 \* what the latest request returned
  filling                 \* the pool is still being filled

vars == <<pool, free, held, answer, filling>>

Init ==
  /\ free = {}
  /\ held = {}
  /\ answer = NoPage
  /\ filling = TRUE

(* A page of the pool enters service, once. *)
Add ==
  /\ filling
  /\ \E p \in pool \ free : free' = free \cup {p}
  /\ UNCHANGED <<pool, held, answer, filling>>

(* Requests are served once every page of the pool is in service. *)
Open ==
  /\ filling
  /\ free = pool
  /\ filling' = FALSE
  /\ UNCHANGED <<pool, free, held, answer>>

Allocate ==
  /\ ~ filling
  /\ \E p \in free :
       /\ p # NoPage
       /\ answer' = p
       /\ free' = free \ {p}
       /\ held' = held \cup {p}
  /\ UNCHANGED <<pool, filling>>

Refuse ==
  /\ ~ filling
  /\ free = {}
  /\ answer' = NoPage
  /\ UNCHANGED <<pool, free, held, filling>>

Release ==
  /\ ~ filling
  /\ \E p \in held :
       /\ free' = free \cup {p}
       /\ held' = held \ {p}
  /\ UNCHANGED <<pool, answer, filling>>

Next == Add \/ Open \/ Allocate \/ Refuse \/ Release

Spec == Init /\ [][Next]_vars
=============================================================================
