-------------------------- MODULE MCOnebotRequest --------------------------
(* OnebotRequest for TLC.  The calls are interchangeable and so are the    *)
(* sockets: none is named by the specification or by a safety property.    *)
EXTENDS OnebotRequest, TLC

Symmetry == Permutations(Calls) \cup Permutations(Conns)
=============================================================================
