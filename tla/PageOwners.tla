----------------------------- MODULE PageOwners -----------------------------
(***************************************************************************)
(* What the extended-memory allocator promises the drivers that share it   *)
(* (hardware/memory.cpp, used by ints/xms.cpp and ints/ems.cpp): no page   *)
(* has two holders, and a page changes hands only by being given back      *)
(* first.  One call serves one holder: it may take pages nobody holds and  *)
(* give back pages of its own, and it leaves all other holders alone.      *)
(***************************************************************************)
CONSTANTS Pages, Owners
VARIABLE held

TypeOK == held \in [Owners -> SUBSET Pages]

Exclusive == \A o, q \in Owners : o # q => held[o] \cap held[q] = {}

Init == TypeOK /\ Exclusive

\* One call on behalf of o: what it holds afterwards was its own or free.
Serve(o) ==
    /\ held'[o] \subseteq Pages
    /\ \A q \in Owners \ {o} :
         /\ held'[q] = held[q]
         /\ held'[o] \cap held[q] = {}

Next == \E o \in Owners : Serve(o)

Spec == Init /\ [][Next]_held
=============================================================================
