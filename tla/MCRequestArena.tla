-------------------------- MODULE MCRequestArena --------------------------
(* The request loop for TLC: any number of requests, each of up to three    *)
(* allocations that fill a default region, part of it, or more than it.    *)
EXTENDS RequestArena

MCSizes == {2, 6, 12}
=============================================================================
