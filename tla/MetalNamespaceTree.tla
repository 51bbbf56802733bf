------------------------- MODULE MetalNamespaceTree -------------------------
(* The databases of MetalNamespace seen as the tree of paths of PathTree. *)
EXTENDS MetalNamespace

TreePaths == UNION {[1 .. n -> Names] : n \in 0 .. MaxInodes}

PathsOf(db) ==
    LET resolved == [p \in TreePaths |-> Resolve(db, p)]
    IN  [p \in {q \in TreePaths : resolved[q].res = "SUCCESS"} |-> db[resolved[p].id].type]

Tree ==
    INSTANCE PathTree WITH
        Paths <- CallPaths,
        tree <- PathsOf(inodes)

(* Each call does to the tree of paths, and returns, what module PathTree  *)
(* says: also a call that removes an entry before it finds out that it has *)
(* to fail leaves every path as it was, and a rename takes all paths below *)
(* a directory along.                                                      *)
ImplementsPathTree == Tree!Spec
============================================================================
