---------------------------- MODULE MCStructures ----------------------------
(* Structures of every role that the stages tell apart, in tables of up to   *)
(* three: firmware and processors that decode or do not, additional          *)
(* information that mends or breaks the first structures, refers to what is  *)
(* not there or does not fit, and references to each of the positions and    *)
(* past the table.                                                           *)
EXTENDS Structures

Good    == "good"
Better  == "better"   \* another value, which names a processor vendor
Bad     == "bad"

Plain(role, value)    == [role |-> role, long |-> TRUE, value |-> value,
                          entries |-> <<>>, refs |-> <<>>]
Refers(role, refs)    == [Plain(role, Good) EXCEPT !.refs = refs]
Gives(to, value)      == [to |-> to, fits |-> TRUE, value |-> value]

MCValues == {Good, Better, Bad}

MCShapes ==
  {Plain("firmware", Good), Plain("firmware", Bad), Plain("system", Bad),
   Plain("processor", Good), Plain("processor", Better),
   [Plain("processor", Bad) EXCEPT !.long = FALSE], Plain("opaque", Good),
   [Plain("info", Good) EXCEPT !.entries = <<Gives(1, Better), Gives(1, Bad)>>],
   [Plain("info", Good) EXCEPT !.entries = <<Gives(4, Bad), Gives(2, Better)>>],
   [Plain("info", Bad) EXCEPT !.entries = <<Gives(1, Good)>>],
   [Plain("info", Good) EXCEPT !.entries = <<[Gives(3, Bad) EXCEPT !.fits = FALSE]>>],
   Refers("other", <<4, 1>>), Refers("other", <<0, 3>>),
   Refers("property", <<1>>), Refers("property", <<3>>)}

MCRoles == {"firmware", "system", "baseboard", "processor", "info", "property",
            "opaque", "other"}

=============================================================================
