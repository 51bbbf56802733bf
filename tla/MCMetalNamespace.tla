-------------------------- MODULE MCMetalNamespace --------------------------
(* An instance of MetalNamespace for TLC: two names, a short and a long one *)
EXTENDS MetalNamespaceTree, TLC

MCNames == {"a", "long"}
MCNameLen == ("a" :> 1) @@ ("long" :> 4) @@ ("." :> 1) @@ (".." :> 2)

\* No action reads the last call and its result: states that differ in these
\* only have the same successors, and each step is examined all the same.
Databases == <<inodes, nextId>>
============================================================================
