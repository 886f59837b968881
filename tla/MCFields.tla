------------------------------ MODULE MCFields ------------------------------
(* Every specification the library declares, with bodies of every length   *)
(* there is something to tell of: from one byte less than the minimum, to  *)
(* one more than the fields and two elements take.                         *)
EXTENDS Fields, Entities

MCSpecs == EntitySpecs
Names   == LET all == EntitySpecs IN {n \in DOMAIN all : IsDescribed(all[n])}

HasField(s, Is(_)) == \E f \in FieldsOf(s) : Is(f)
ArraysOf(s)        == {f \in FieldsOf(s) : f.kind = "array"}

(* Numbers of the elements of an array, and their lengths: none, the       *)
(* smallest of use, one less, and one more.                                *)
Counts(s)   == IF HasField(s, LAMBDA f : f.count_length # 0) THEN {0, 2} ELSE {0}
Strides(s)  ==
  {0} \union UNION {(f.stride_minimum - 1 .. f.stride_minimum + 1) \ {-1} :
                      f \in {g \in ArraysOf(s) : g.stride_length # 0}}
Promises(s) == IF HasField(s, LAMBDA f : f.length = Declared) THEN {0, 3} ELSE {0}
Decimals(s) == IF HasField(s, LAMBDA f : f.kind = "bcd") THEN BOOLEAN ELSE {TRUE}
Keys(s)     == {f.when : f \in {g \in FieldsOf(s) : g.extended}}

(* Byte at which the fields end in a body without elements.                *)
Size(f) ==
  CASE f.kind = "array"                                -> f.count_length + f.stride_length
    [] f.kind \in {"bits", "pad"} \/ f.length = Rest -> 0
    [] f.length = Declared                             -> 3
    [] OTHER                                           -> Total(ElementEnds(<<f>>))
FieldsEnd(s) ==
  LET begin[k \in 0 .. Len(s.fields)] ==
        IF k = 0 THEN FirstBegins
        ELSE LET f == s.fields[k] IN Begin(begin[k - 1], f, V(3, 9), Size(f))
  IN BytesOf(begin[Len(s.fields)].bit)
Elements2(s) ==
  {0} \union {2 * Larger(Total(ElementEnds(f.fields)), f.stride) : f \in ArraysOf(s)}
Lengths(s) ==
  Larger(s.minimum - 1, HeaderLength) .. FieldsEnd(s) + Max(Elements2(s)) + 1

MCBodies ==
  LET all == EntitySpecs
  IN [n \in Names |->
       LET s == all[n]
       IN [length : Lengths(s), count : Counts(s), stride : Strides(s),
           declared : Promises(s), extended : {{}, Keys(s)}, decimal : Decimals(s)]]

(* Versions around the ones bits come and go in, and the ones groups begin *)
(* in.                                                                     *)
IsVersioned(s) == HasField(s, LAMBDA f : f.from # NoVersion \/ f.before # NoVersion)
Sinces(s)      == {f.since : f \in FieldsOf(s)} \ {NoVersion}

MCTableVersions ==
  LET all == EntitySpecs
  IN [n \in Names |-> IF IsVersioned(all[n]) THEN {V(2, 6), V(3, 9)} ELSE {V(3, 2)}]
MCWrittenVersions ==
  LET all == EntitySpecs
  IN [n \in Names |-> Sinces(all[n]) \union {all[n].since}]
=============================================================================
