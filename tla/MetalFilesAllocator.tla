------------------------ MODULE MetalFilesAllocator ------------------------
(***************************************************************************)
(* The files of module MetalFiles use the allocator as module              *)
(* ExtentAllocator has it.                                                 *)
(***************************************************************************)
EXTENDS MetalFiles

Alloc ==
    INSTANCE ExtentAllocator WITH
        Sizes <- Sizes,
        held <- Held,
        saved <- [extents |-> saved.extents, heap |-> saved.heap,
                  held |-> ListedIn(saved.inodes), missteps |-> saved.missteps],
        running <- stopped # "allocator"

(* Every step of every call is a step of the allocator on the extents that *)
(* the files list, or none: expand, truncate and unlink give back what     *)
(* they list, once each, and what is committed is what the inodes list.    *)
ImplementsAllocator == Alloc!Spec
============================================================================
