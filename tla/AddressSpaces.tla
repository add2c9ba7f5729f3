---------------------------- MODULE AddressSpaces ----------------------------
(***************************************************************************)
(* What the memory manager promises, without its tables: every address     *)
(* space owns a set of page frames, no frame has two owners, and a frame   *)
(* reserved for the kernel has none.  Paging.tla, the model of paging.c,   *)
(* is shown to implement this specification.                               *)
(***************************************************************************)
CONSTANTS Spaces,      \* address spaces
          UserFrames   \* the page frames that may be given to a process

VARIABLE owned         \* owned[s]: the frames mapped in address space s

\* No frame belongs to any address space.
Init == owned = [s \in Spaces |-> {}]

\* The frames no address space owns.
Available == {f \in UserFrames : \A s \in Spaces : f \notin owned[s]}

\* An empty address space receives frames F.
Grant(s, F) ==
    /\ owned[s] = {}
    /\ F # {}
    /\ owned' = [owned EXCEPT ![s] = F]

\* An address space gives back every frame it owns.
Revoke(s) == owned' = [owned EXCEPT ![s] = {}]

Next == \E s \in Spaces :
            \/ \E F \in SUBSET Available : Grant(s, F)
            \/ Revoke(s)

Spec == Init /\ [][Next]_owned
=============================================================================
