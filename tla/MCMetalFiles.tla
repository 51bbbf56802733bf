---------------------------- MODULE MCMetalFiles ----------------------------
(* Instances of MetalFiles for TLC.                                        *)
EXTENDS MetalFilesAllocator, TLC

\* runs that follow the allocator only until it loses track
OnTrack == missteps = {}

Interchangeable == Permutations(Threads)
============================================================================
