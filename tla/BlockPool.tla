----------------------------- MODULE BlockPool -----------------------------
(***************************************************************************)
(* What the files may expect of the allocator: extents are handed out from *)
(* blocks nobody holds, an extent grows only into blocks nobody holds, and *)
(* only its holder's own calls, or the loss of an unfinished transaction,  *)
(* take a block away.  How the blocks are found is left open.              *)
(***************************************************************************)
EXTENDS Integers

CONSTANT NumBlocks

VARIABLES
    held,      \* the extents in use
    stable     \* the extents in use in the last committed transaction

vars == <<held, stable>>

Region == [offset : 0 .. NumBlocks - 1, length : 1 .. NumBlocks]

Apart(a, b) == a.offset + a.length <= b.offset \/ b.offset + b.length <= a.offset

Unused(e) ==
    /\ e.offset + e.length <= NumBlocks
    /\ \A a \in held : Apart(a, e)

Init == held = {} /\ stable = {}

Take(e) ==
    /\ Unused(e)
    /\ held' = held \cup {e}
    /\ UNCHANGED stable

Grow(e, n) ==
    /\ Unused([offset |-> e.offset + e.length, length |-> n])
    /\ held' = (held \ {e}) \cup {[e EXCEPT !.length = @ + n]}
    /\ UNCHANGED stable

Shrink(e, n) ==
    /\ held' = (held \ {e}) \cup {[e EXCEPT !.length = n]}
    /\ UNCHANGED stable

Drop(e) ==
    /\ held' = held \ {e}
    /\ UNCHANGED stable

Commit == stable' = held /\ UNCHANGED held

Rollback == held' = stable /\ UNCHANGED stable

Next ==
    \/ \E e \in Region : Take(e)
    \/ \E e \in held, n \in 1 .. NumBlocks : Grow(e, n)
    \/ \E e \in held : \E n \in 1 .. e.length : Shrink(e, n)
    \/ \E e \in held : Drop(e)
    \/ Commit
    \/ Rollback

Spec == Init /\ [][Next]_vars
============================================================================
