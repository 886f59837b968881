----------------------------- MODULE MCRegistry -----------------------------
(* Tables of up to three structures over two cells: handles 0 and 2 share a  *)
(* cell, 3 is reserved.  Structures of two types share a type number, as the *)
(* ones a vendor's module tells apart by their signature do.  The run also    *)
(* evaluates what MCTable assumes of tables of bytes and of their checks.    *)
EXTENDS RegistryIter, MCTable

CONSTANTS tA, tB, tE

MCStructures ==
  [handle : {0, 2}, type : {tA, tB}, id : {1}]
    \cup {[handle |-> 3, type |-> tA, id |-> 1], [handle |-> 1, type |-> tE, id |-> 127]}
MCReferences == {0, 2, 3}
MCReserved   == {3}
MCTypeLists  == {{}, {tA}, {tA, tB}}
MCLimits     == {0, 2}
=============================================================================
