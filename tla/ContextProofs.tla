---------------------------- MODULE ContextProofs ---------------------------
(***************************************************************************)
(* Theorems about the life of a context, for every set of modules and      *)
(* platforms and every number of allocations and failures: whatever step   *)
(* of opening, anonymizing or closing fails, nothing is leaked, and a      *)
(* context is empty or whole between two calls; and about the map of types *)
(* it goes by, which holds what the enabled modules ask to have mapped.    *)
(***************************************************************************)
EXTENDS Context, Recursions, FiniteSetTheorems

-----------------------------------------------------------------------------
(* Sequences made by At and FlattenSeq                                       *)

\* The members at some places of a sequence.
LEMMA AtMembers ==
  ASSUME NEW S, NEW seq \in Seq(S), NEW places
  PROVE  /\ At(seq, places) \in Seq(S)
         /\ \A x : x \in Range(At(seq, places)) <=>
                     \E j \in DOMAIN seq : j \in places /\ x = seq[j]
<1> DEFINE n == Len(seq)
           piece(k) == IF k \in places THEN <<seq[k]>> ELSE <<>>
           step == [p \in Seq(S) \X (1 .. n) |-> p[1] \o piece(p[2])]
<1>1. n \in Nat /\ DOMAIN seq = 1 .. n /\ \A k \in 1 .. n : seq[k] \in S
  OBVIOUS
<1>2. \A k \in 1 .. n : piece(k) \in Seq(S)
  BY <1>1
<1>3. <<>> \in Seq(S)
  OBVIOUS
<1>4. \E f : f = [k \in 0 .. n |-> IF k = 0 THEN <<>> ELSE f[k - 1] \o piece(k)]
  <2>1. \A s \in Seq(S), k \in 1 .. n : step[<<s, k>>] = s \o piece(k) /\ s \o piece(k) \in Seq(S)
    <3> HIDE DEF piece
    <3> TAKE s \in Seq(S), k \in 1 .. n
    <3>1. <<s, k>> \in Seq(S) \X (1 .. n) /\ <<s, k>>[1] = s /\ <<s, k>>[2] = k
      OBVIOUS
    <3>2. s \o piece(k) \in Seq(S)
      BY <1>2
    <3> QED BY <3>1, <3>2
  <2>2. step \in [Seq(S) \X (1 .. n) -> Seq(S)]
    BY <1>2
  <2> HIDE DEF step
  <2>3. PICK f : f \in Runs(Seq(S), <<>>, step, n)
    BY <1>1, <1>3, <2>2, RunExists
  <2>4. f \in [0 .. n -> Seq(S)] /\ f[0] = <<>> /\ \A k \in 1 .. n : f[k] = step[<<f[k - 1], k>>]
    BY <2>3 DEF Runs
  <2>5. \A k \in 1 .. n : f[k] = f[k - 1] \o piece(k)
    <3> TAKE k \in 1 .. n
    <3>1. k - 1 \in 0 .. n
      BY <1>1
    <3> HIDE DEF piece
    <3> QED BY <2>1, <2>4, <3>1
  <2> HIDE DEF piece
  <2>6. f = [k \in 0 .. n |-> IF k = 0 THEN <<>> ELSE f[k - 1] \o piece(k)]
    <3>1. \A k \in 0 .. n : k = 0 \/ k \in 1 .. n
      BY <1>1
    <3> QED BY <2>4, <2>5, <3>1
  <2> QED BY <2>6
<1> DEFINE f == CHOOSE g : g = [k \in 0 .. n |-> IF k = 0 THEN <<>> ELSE g[k - 1] \o piece(k)]
<1>5. f = [k \in 0 .. n |-> IF k = 0 THEN <<>> ELSE f[k - 1] \o piece(k)]
  BY <1>4
<1>6. At(seq, places) = f[n]
  BY DEF At
<1> HIDE DEF f
<1> DEFINE Good == {k \in 0 .. n : /\ f[k] \in Seq(S)
                                   /\ \A x : x \in Range(f[k]) <=>
                                               \E j \in 1 .. k : j \in places /\ x = seq[j]}
<1>7. 0 \in Good
  <2>1. f[0] = <<>> /\ Range(<<>>) = {}
    BY <1>1, <1>5 DEF Range
  <2>2. 0 \in 0 .. n /\ 1 .. 0 = {}
    BY <1>1
  <2>3. f[0] \in Seq(S) /\ Range(f[0]) = {}
    BY <1>3, <2>1
  <2> HIDE DEF piece, step
  <2> QED BY <2>2, <2>3
<1>8. ASSUME NEW k \in 1 .. n, k - 1 \in Good PROVE k \in Good
  <2>0. k \in 0 .. n /\ k # 0
    BY <1>1
  <2>1. k \in 0 .. n /\ k # 0 /\ f[k] = f[k - 1] \o piece(k)
    <3> HIDE DEF piece, step, n, Good
    <3> QED BY <2>0, <1>5
  <2>2. f[k - 1] \in Seq(S) /\ \A x : x \in Range(f[k - 1]) <=>
                                        \E j \in 1 .. (k - 1) : j \in places /\ x = seq[j]
    BY <1>8
  <2>3. Range(piece(k)) = IF k \in places THEN {seq[k]} ELSE {}
    BY DEF Range
  <2>4. f[k] \in Seq(S) /\ Range(f[k]) = Range(f[k - 1]) \cup Range(piece(k))
    <3> HIDE DEF piece
    <3> QED BY <1>2, <2>1, <2>2, RangeConcatenation
  <2>5. \A j \in 1 .. k : j = k \/ j \in 1 .. (k - 1)
    OBVIOUS
  <2>6. ASSUME NEW x PROVE x \in Range(f[k]) <=> \E j \in 1 .. k : j \in places /\ x = seq[j]
    <3> HIDE DEF piece
    <3>1. k \in 1 .. k /\ \A j \in 1 .. (k - 1) : j \in 1 .. k
      OBVIOUS
    <3> QED BY <2>2, <2>3, <2>4, <2>5, <3>1
  <2> QED BY <2>1, <2>4, <2>6
<1> HIDE DEF Good
<1>9. n \in Good
  <2>1. \A k \in 1 .. n : k - 1 \in Good => k \in Good
    BY <1>8
  <2>2. \A k \in 0 .. n : k \in Good
    BY <1>1, <1>7, <2>1, StepByStep
  <2> QED BY <1>1, <2>2
<1> QED BY <1>1, <1>6, <1>9 DEF Good

\* The members of sequences that follow one another.
LEMMA FlatMembers ==
  ASSUME NEW S, NEW ss \in Seq(Seq(S))
  PROVE  /\ FlattenSeq(ss) \in Seq(S)
         /\ \A x : x \in Range(FlattenSeq(ss)) <=> \E j \in DOMAIN ss : x \in Range(ss[j])
<1> DEFINE n == Len(ss)
           step == [p \in Seq(S) \X (1 .. n) |-> p[1] \o ss[p[2]]]
<1>1. n \in Nat /\ DOMAIN ss = 1 .. n /\ \A k \in 1 .. n : ss[k] \in Seq(S)
  OBVIOUS
<1>2. <<>> \in Seq(S) /\ \A s \in Seq(S) : <<>> \o s = s
  OBVIOUS
<1>3. CASE n = 0
  <2>1. FlattenSeq(ss) = ss /\ ss = <<>> /\ DOMAIN ss = {}
    BY <1>3 DEF FlattenSeq
  <2> QED BY <2>1, <1>2 DEF Range
<1>4. CASE n # 0
  <2>1. \E f : f = [i \in 1 .. n |-> IF i = 1 THEN ss[i] ELSE f[i - 1] \o ss[i]]
    <3>1. \A s \in Seq(S), k \in 1 .. n : step[<<s, k>>] = s \o ss[k] /\ s \o ss[k] \in Seq(S)
      <4> TAKE s \in Seq(S), k \in 1 .. n
      <4>1. <<s, k>> \in Seq(S) \X (1 .. n) /\ <<s, k>>[1] = s /\ <<s, k>>[2] = k
        OBVIOUS
      <4>2. s \o ss[k] \in Seq(S)
        BY <1>1
      <4> QED BY <4>1, <4>2
    <3>2. step \in [Seq(S) \X (1 .. n) -> Seq(S)]
      BY <1>1
    <3> HIDE DEF step
    <3>3. PICK g : g \in Runs(Seq(S), <<>>, step, n)
      <4> DEFINE V == Seq(S)
      <4>1. n \in Nat /\ <<>> \in V /\ step \in [V \X (1 .. n) -> V]
        BY <1>1, <1>2, <3>2
      <4> HIDE DEF V
      <4>2. Runs(V, <<>>, step, n) # {}
        BY <4>1, RunExists
      <4> QED BY <4>2 DEF V
    <3>4. g \in [0 .. n -> Seq(S)] /\ g[0] = <<>> /\ \A k \in 1 .. n : g[k] = step[<<g[k - 1], k>>]
      BY <3>3 DEF Runs
    <3>5. \A k \in 1 .. n : g[k] = g[k - 1] \o ss[k]
      <4> TAKE k \in 1 .. n
      <4>1. k - 1 \in 0 .. n
        BY <1>1
      <4> QED BY <3>1, <3>4, <4>1
    <3> DEFINE f == [i \in 1 .. n |-> g[i]]
    <3>6. \A i \in 1 .. n : g[i] = IF i = 1 THEN ss[i] ELSE f[i - 1] \o ss[i]
      <4> TAKE i \in 1 .. n
      <4>1. CASE i = 1
        <5>1. 1 \in 1 .. n /\ 1 - 1 = 0
          BY <4>1
        <5>2. g[1] = g[1 - 1] \o ss[1]
          BY <5>1, <3>5
        <5> QED BY <5>1, <5>2, <4>1, <3>4, <1>1, <1>2
      <4>2. CASE i # 1
        <5>1. i - 1 \in 1 .. n
          BY <1>1, <4>2
        <5> QED BY <5>1, <4>2, <3>5
      <4> QED BY <4>1, <4>2
    <3>7. f = [i \in 1 .. n |-> IF i = 1 THEN ss[i] ELSE f[i - 1] \o ss[i]]
      BY <3>6
    <3> QED BY <3>7
  <2> DEFINE f == CHOOSE g : g = [i \in 1 .. n |-> IF i = 1 THEN ss[i] ELSE g[i - 1] \o ss[i]]
  <2>2. f = [i \in 1 .. n |-> IF i = 1 THEN ss[i] ELSE f[i - 1] \o ss[i]]
    BY <2>1
  <2>3. FlattenSeq(ss) = f[n]
    BY <1>4 DEF FlattenSeq
  <2> HIDE DEF f
  <2> DEFINE Good == {0} \cup {k \in 1 .. n : /\ f[k] \in Seq(S)
                                   /\ \A x : x \in Range(f[k]) <=>
                                               \E j \in 1 .. k : x \in Range(ss[j])}
  <2>4. ASSUME NEW k \in 1 .. n, k - 1 \in Good PROVE k \in Good
    <3>1. CASE k = 1
      <4>1. f[1] = ss[1] /\ 1 .. 1 = {1} /\ 1 \in 1 .. n
        BY <3>1, <2>2
      <4> QED BY <4>1, <1>1, <3>1
    <3>2. CASE k # 1
      <4>0. k - 1 \in 1 .. n
        BY <3>2, <1>1
      <4>1. f[k] = f[k - 1] \o ss[k] /\ k - 1 \in 1 .. n
        BY <4>0, <3>2, <2>2
      <4>2. f[k - 1] \in Seq(S) /\ \A x : x \in Range(f[k - 1]) <=>
                                            \E j \in 1 .. (k - 1) : x \in Range(ss[j])
        BY <2>4, <4>1
      <4>3. f[k] \in Seq(S) /\ Range(f[k]) = Range(f[k - 1]) \cup Range(ss[k])
        BY <1>1, <4>1, <4>2, RangeConcatenation
      <4>4. (\A j \in 1 .. k : j = k \/ j \in 1 .. (k - 1)) /\ k \in 1 .. k
            /\ \A j \in 1 .. (k - 1) : j \in 1 .. k
        OBVIOUS
      <4>5. ASSUME NEW x PROVE x \in Range(f[k]) <=> \E j \in 1 .. k : x \in Range(ss[j])
        BY <4>2, <4>3, <4>4
      <4> QED BY <4>3, <4>5
    <3> QED BY <3>1, <3>2
  <2> HIDE DEF Good
  <2>5. 0 \in Good
    BY DEF Good
  <2>6. n \in Good
    <3>1. \A k \in 1 .. n : k - 1 \in Good => k \in Good
      BY <2>4
    <3>2. \A k \in 0 .. n : k \in Good
      BY <1>1, <2>5, <3>1, StepByStep
    <3> QED BY <1>1, <3>2
  <2> QED BY <1>1, <1>4, <2>3, <2>6 DEF Good
<1> QED BY <1>3, <1>4

-----------------------------------------------------------------------------
(* What modules ask to have mapped does not depend on their order            *)

IsList(s)   == s \in Seq(Range(s))
IsModule(m) == IsList(m.entities) /\ IsList(m.relocations)

SpecsOf(M)    == UNION {Range(m.entities) : m \in M}
MovesOf(M)    == UNION {Range(m.relocations) : m \in M}
Moved(M, spec) == {r \in MovesOf(M) : r.spec = spec}
NumbersOf(M)  == {s.type : s \in SpecsOf(M)} \cup {r.type : r \in MovesOf(M)}

\* The type numbers a specification is found at.
Numbers(M, spec) ==
  IF Moved(M, spec) = {} THEN {spec.type} ELSE {r.type : r \in Moved(M, spec)} \ {NoType}

Requests(M) == [spec : SpecsOf(M), type : NumbersOf(M), yield : {m.yield : m \in M}]

RequestedBy(M, m, host, x) ==
  \E s \in Range(m.entities) :
    /\ InGenerations(host, s)
    /\ \E t \in Numbers(M, s) : x = [spec |-> s, type |-> t, yield |-> m.yield]

Requested(M, host, x) == \E m \in M : RequestedBy(M, m, host, x)

LEMMA ListMembers ==
  ASSUME NEW S, NEW s \in Seq(S)
  PROVE  /\ DOMAIN s = 1 .. Len(s) /\ Len(s) \in Nat
         /\ \A k \in DOMAIN s : s[k] \in S /\ s[k] \in Range(s)
         /\ Range(s) \subseteq S
         /\ Range(s) = {} <=> s = <<>>
         /\ \A T : Range(s) \subseteq T => s \in Seq(T)
<1>1. /\ DOMAIN s = 1 .. Len(s) /\ Len(s) \in Nat
      /\ \A k \in DOMAIN s : s[k] \in S /\ s[k] \in Range(s)
      /\ Range(s) \subseteq S
  BY DEF Range
<1>2. Range(s) = {} <=> s = <<>>
  <2>1. s = <<>> => Range(s) = {}
    BY DEF Range
  <2>2. ASSUME s # <<>> PROVE Range(s) # {}
    <3>1. 1 \in DOMAIN s
      BY <2>2
    <3> QED BY <3>1, <1>1
  <2> QED BY <2>1, <2>2
<1>3. ASSUME NEW T, Range(s) \subseteq T PROVE s \in Seq(T)
  <2>1. \A k \in 1 .. Len(s) : s[k] \in T
    BY <1>1, <1>3
  <2> QED BY <1>1, <2>1
<1> QED BY <1>1, <1>2, <1>3

LEMMA RelocationMembers ==
  ASSUME NEW mods, IsList(mods), \A m \in Range(mods) : IsModule(m), NEW spec
  PROVE  /\ Relocations(mods, spec) \in Seq(MovesOf(Range(mods)))
         /\ Range(Relocations(mods, spec)) = Moved(Range(mods), spec)
<1> DEFINE M == Range(mods)
           places(i) == {k \in DOMAIN mods[i].relocations : mods[i].relocations[k].spec = spec}
           ss == [i \in DOMAIN mods |-> At(mods[i].relocations, places(i))]
<1>1. mods \in Seq(M) /\ DOMAIN mods = 1 .. Len(mods) /\ Len(mods) \in Nat
  BY ListMembers DEF IsList
<1>2. ASSUME NEW i \in DOMAIN mods
      PROVE  /\ ss[i] \in Seq(MovesOf(M))
             /\ \A x : x \in Range(ss[i]) <=> x \in Range(mods[i].relocations) /\ x.spec = spec
  <2>1. mods[i] \in M /\ mods[i].relocations \in Seq(Range(mods[i].relocations))
    BY <1>1 DEF IsModule, IsList, Range
  <2>2. Range(mods[i].relocations) \subseteq MovesOf(M)
    BY <2>1 DEF MovesOf
  <2>3. mods[i].relocations \in Seq(MovesOf(M))
    BY <2>1, <2>2, ListMembers
  <2>4. ss[i] = At(mods[i].relocations, places(i))
    OBVIOUS
  <2>5. /\ ss[i] \in Seq(MovesOf(M))
        /\ \A x : x \in Range(ss[i]) <=>
                    \E j \in DOMAIN mods[i].relocations : j \in places(i) /\ x = mods[i].relocations[j]
    <3> HIDE DEF ss, places
    <3> QED BY <2>3, <2>4, AtMembers
  <2> QED BY <2>5 DEF Range
<1>3. ss \in Seq(Seq(MovesOf(M)))
  <2>1. DOMAIN ss = 1 .. Len(mods)
    BY <1>1
  <2> HIDE DEF ss
  <2>2. ss = [i \in 1 .. Len(mods) |-> ss[i]]
    BY <2>1, <1>1 DEF ss
  <2> QED BY <1>1, <1>2, <2>1, <2>2
<1>4. Relocations(mods, spec) = FlattenSeq(ss)
  BY DEF Relocations, Only
<1>5. DOMAIN ss = DOMAIN mods
  OBVIOUS
<1> HIDE DEF ss
<1>6. /\ FlattenSeq(ss) \in Seq(MovesOf(M))
      /\ \A x : x \in Range(FlattenSeq(ss)) <=> \E i \in DOMAIN ss : x \in Range(ss[i])
  BY <1>3, FlatMembers
<1>7. ASSUME NEW x PROVE x \in Range(FlattenSeq(ss)) <=> x \in Moved(M, spec)
  <2>1. x \in MovesOf(M) <=> \E m \in M : x \in Range(m.relocations)
    BY DEF MovesOf
  <2>2. x \in MovesOf(M) <=> \E i \in DOMAIN mods : x \in Range(mods[i].relocations)
    <3>1. \A m : m \in M <=> \E i \in DOMAIN mods : m = mods[i]
      BY DEF Range
    <3> HIDE DEF M
    <3> QED BY <2>1, <3>1
  <2>3. x \in Range(FlattenSeq(ss)) <=>
          \E i \in DOMAIN mods : x \in Range(mods[i].relocations) /\ x.spec = spec
    BY <1>2, <1>5, <1>6
  <2>4. x \in Moved(M, spec) <=> x \in MovesOf(M) /\ x.spec = spec
    BY DEF Moved
  <2> HIDE DEF M
  <2> QED BY <2>2, <2>3, <2>4
<1> QED BY <1>4, <1>6, <1>7

LEMMA TypesOfMembers ==
  ASSUME NEW mods, IsList(mods), \A m \in Range(mods) : IsModule(m),
         NEW spec \in SpecsOf(Range(mods))
  PROVE  /\ TypesOf(mods, spec) \in Seq(NumbersOf(Range(mods)))
         /\ Range(TypesOf(mods, spec)) = Numbers(Range(mods), spec)
<1> DEFINE M     == Range(mods)
           moves == Relocations(mods, spec)
           kept  == At(moves, {k \in DOMAIN moves : moves[k].type # NoType})
           types == [k \in DOMAIN kept |-> kept[k].type]
<1>1. moves \in Seq(MovesOf(M)) /\ Range(moves) = Moved(M, spec)
  BY RelocationMembers
<1>2. TypesOf(mods, spec) = IF moves = <<>> THEN <<spec.type>> ELSE types
  BY DEF TypesOf, Only
<1> HIDE DEF moves, M
<1>3. moves = <<>> <=> Moved(M, spec) = {}
  BY <1>1, ListMembers
<1>4. CASE moves = <<>>
  <2>1. TypesOf(mods, spec) = <<spec.type>> /\ Numbers(M, spec) = {spec.type}
    BY <1>2, <1>3, <1>4 DEF Numbers
  <2>2. spec.type \in NumbersOf(M)
    BY DEF NumbersOf, M
  <2> QED BY <2>1, <2>2 DEF Range, M
<1>5. CASE moves # <<>>
  <2>1. /\ kept \in Seq(MovesOf(M))
        /\ \A x : x \in Range(kept) <=>
                    \E j \in DOMAIN moves : moves[j].type # NoType /\ x = moves[j]
    <3>1. /\ kept \in Seq(MovesOf(M))
          /\ \A x : x \in Range(kept) <=>
                      \E j \in DOMAIN moves :
                         j \in {k \in DOMAIN moves : moves[k].type # NoType} /\ x = moves[j]
      BY <1>1, AtMembers
    <3> QED BY <3>1
  <2> HIDE DEF kept
  <2>2. DOMAIN kept = 1 .. Len(kept) /\ Len(kept) \in Nat
        /\ \A k \in DOMAIN kept : kept[k] \in MovesOf(M)
    BY <2>1
  <2>3. \A k \in DOMAIN kept : kept[k].type \in NumbersOf(M)
    BY <2>2 DEF NumbersOf
  <2>4. types \in Seq(NumbersOf(M))
    BY <2>2, <2>3
  <2>5. ASSUME NEW t PROVE t \in Range(types) <=> t \in Numbers(M, spec)
    <3>1. t \in Range(types) <=> \E x \in Range(kept) : t = x.type
      BY DEF Range
    <3>2. \A x : x \in Range(kept) <=> x \in Moved(M, spec) /\ x.type # NoType
      BY <1>1, <2>1 DEF Range
    <3>3. Numbers(M, spec) = {r.type : r \in Moved(M, spec)} \ {NoType}
      BY <1>3, <1>5 DEF Numbers
    <3> HIDE DEF types
    <3> QED BY <3>1, <3>2, <3>3
  <2>6. TypesOf(mods, spec) = types
    BY <1>2, <1>5
  <2> HIDE DEF types
  <2> QED BY <2>4, <2>5, <2>6 DEF M
<1> QED BY <1>4, <1>5

LEMMA PlacementsMembers ==
  ASSUME NEW mods, IsList(mods), \A m \in Range(mods) : IsModule(m),
         NEW mod \in Range(mods), NEW spec \in Range(mod.entities)
  PROVE  /\ Placements(mods, mod, spec) \in Seq(Requests(Range(mods)))
         /\ \A x : x \in Range(Placements(mods, mod, spec)) <=>
                     \E t \in Numbers(Range(mods), spec) :
                        x = [spec |-> spec, type |-> t, yield |-> mod.yield]
<1> DEFINE types  == TypesOf(mods, spec)
           placed == [k \in DOMAIN types |->
                        [spec |-> spec, type |-> types[k], yield |-> mod.yield]]
<1>1. spec \in SpecsOf(Range(mods))
  BY DEF SpecsOf
<1>2. types \in Seq(NumbersOf(Range(mods))) /\ Range(types) = Numbers(Range(mods), spec)
  BY <1>1, TypesOfMembers
<1>3. Placements(mods, mod, spec) = placed
  BY DEF Placements
<1> HIDE DEF types
<1>4. DOMAIN types = 1 .. Len(types) /\ Len(types) \in Nat
      /\ \A k \in DOMAIN types : types[k] \in NumbersOf(Range(mods))
  BY <1>2
<1>5. \A k \in DOMAIN types :
        [spec |-> spec, type |-> types[k], yield |-> mod.yield] \in Requests(Range(mods))
  BY <1>1, <1>4 DEF Requests
<1>6. placed \in Seq(Requests(Range(mods)))
  BY <1>4, <1>5
<1>7. \A x : x \in Range(placed) <=>
               \E t \in Range(types) : x = [spec |-> spec, type |-> t, yield |-> mod.yield]
  BY DEF Range
<1> QED BY <1>2, <1>3, <1>6, <1>7

LEMMA ItemsOfMembers ==
  ASSUME NEW mods, IsList(mods), \A m \in Range(mods) : IsModule(m),
         NEW mod \in Range(mods), NEW host
  PROVE  /\ ItemsOf(mods, mod, host) \in Seq(Requests(Range(mods)))
         /\ \A x : x \in Range(ItemsOf(mods, mod, host)) <=>
                     RequestedBy(Range(mods), mod, host, x)
<1> DEFINE places == {k \in DOMAIN mod.entities : InGenerations(host, mod.entities[k])}
           specs  == At(mod.entities, places)
           ss     == [k \in DOMAIN specs |-> Placements(mods, mod, specs[k])]
<1>1. mod.entities \in Seq(Range(mod.entities))
  BY DEF IsModule, IsList
<1>2. /\ specs \in Seq(Range(mod.entities))
      /\ \A x : x \in Range(specs) <=> \E j \in DOMAIN mod.entities : j \in places /\ x = mod.entities[j]
  <2> HIDE DEF places
  <2> QED BY <1>1, AtMembers
<1>3. \A x : x \in Range(specs) <=> x \in Range(mod.entities) /\ InGenerations(host, x)
  BY <1>2 DEF Range
<1>4. ItemsOf(mods, mod, host) = FlattenSeq(ss)
  BY DEF ItemsOf, EntitiesFor, Only
<1> HIDE DEF specs
<1>5. DOMAIN specs = 1 .. Len(specs) /\ Len(specs) \in Nat
      /\ \A k \in DOMAIN specs : specs[k] \in Range(mod.entities)
  BY <1>2
<1>6. \A k \in DOMAIN specs : Placements(mods, mod, specs[k]) \in Seq(Requests(Range(mods)))
  BY <1>5, PlacementsMembers
<1>7. ss \in Seq(Seq(Requests(Range(mods)))) /\ DOMAIN ss = DOMAIN specs
  BY <1>5, <1>6
<1>8. \A k \in DOMAIN specs : ss[k] = Placements(mods, mod, specs[k])
  OBVIOUS
<1> HIDE DEF ss
<1>9. /\ FlattenSeq(ss) \in Seq(Requests(Range(mods)))
      /\ \A x : x \in Range(FlattenSeq(ss)) <=> \E k \in DOMAIN ss : x \in Range(ss[k])
  BY <1>7, FlatMembers
<1>10. ASSUME NEW x
       PROVE  x \in Range(FlattenSeq(ss)) <=> RequestedBy(Range(mods), mod, host, x)
  <2>1. x \in Range(FlattenSeq(ss)) <=>
          \E k \in DOMAIN specs : x \in Range(Placements(mods, mod, specs[k]))
    BY <1>7, <1>8, <1>9
  <2>2. \A s : s \in Range(specs) <=> \E k \in DOMAIN specs : s = specs[k]
    BY DEF Range
  <2>3. x \in Range(FlattenSeq(ss)) <=>
          \E s \in Range(specs) : x \in Range(Placements(mods, mod, s))
    BY <2>1, <2>2
  <2>4. \A s \in Range(mod.entities) :
          x \in Range(Placements(mods, mod, s)) <=>
            \E t \in Numbers(Range(mods), s) : x = [spec |-> s, type |-> t, yield |-> mod.yield]
    BY PlacementsMembers
  <2> QED BY <1>3, <2>3, <2>4 DEF RequestedBy
<1> QED BY <1>4, <1>9, <1>10

LEMMA ItemsMembers ==
  ASSUME NEW mods, IsList(mods), \A m \in Range(mods) : IsModule(m), NEW host
  PROVE  /\ Items(mods, host) \in Seq(Requests(Range(mods)))
         /\ \A x : x \in Range(Items(mods, host)) <=> Requested(Range(mods), host, x)
<1> DEFINE ss == [i \in DOMAIN mods |-> ItemsOf(mods, mods[i], host)]
<1>1. /\ DOMAIN mods = 1 .. Len(mods) /\ Len(mods) \in Nat
      /\ \A i \in DOMAIN mods : mods[i] \in Range(mods)
  BY ListMembers DEF IsList
<1>2. Items(mods, host) = FlattenSeq(ss)
  BY DEF Items
<1>3. \A i \in DOMAIN mods : ItemsOf(mods, mods[i], host) \in Seq(Requests(Range(mods)))
  BY <1>1, ItemsOfMembers
<1>4. ss \in Seq(Seq(Requests(Range(mods)))) /\ DOMAIN ss = DOMAIN mods
  BY <1>1, <1>3
<1>5. \A i \in DOMAIN mods : ss[i] = ItemsOf(mods, mods[i], host)
  OBVIOUS
<1> HIDE DEF ss
<1>6. /\ FlattenSeq(ss) \in Seq(Requests(Range(mods)))
      /\ \A x : x \in Range(FlattenSeq(ss)) <=> \E k \in DOMAIN ss : x \in Range(ss[k])
  BY <1>4, FlatMembers
<1>7. ASSUME NEW x PROVE x \in Range(FlattenSeq(ss)) <=> Requested(Range(mods), host, x)
  <2>1. x \in Range(FlattenSeq(ss)) <=>
          \E i \in DOMAIN mods : x \in Range(ItemsOf(mods, mods[i], host))
    BY <1>4, <1>5, <1>6
  <2>2. \A m : m \in Range(mods) <=> \E i \in DOMAIN mods : m = mods[i]
    BY DEF Range
  <2>3. x \in Range(FlattenSeq(ss)) <=>
          \E m \in Range(mods) : x \in Range(ItemsOf(mods, m, host))
    BY <2>1, <2>2
  <2>4. \A m \in Range(mods) : x \in Range(ItemsOf(mods, m, host)) <=>
                                 RequestedBy(Range(mods), m, host, x)
    BY ItemsOfMembers
  <2> QED BY <2>3, <2>4 DEF Requested
<1> QED BY <1>2, <1>6, <1>7

LEMMA PlanMembers ==
  ASSUME NEW S, NEW items \in Seq(S)
  PROVE  Plan(items) \in Seq(S) /\ Range(Plan(items)) = Range(items)
<1>1. \A places : /\ At(items, places) \in Seq(S)
                  /\ Range(At(items, places)) \subseteq Range(items)
  <2> TAKE places
  <2>1. /\ At(items, places) \in Seq(S)
        /\ \A x : x \in Range(At(items, places)) <=>
                    \E j \in DOMAIN items : j \in places /\ x = items[j]
    BY AtMembers
  <2>2. \A x : (\E j \in DOMAIN items : j \in places /\ x = items[j]) => x \in Range(items)
    BY DEF Range
  <2> QED BY <2>1, <2>2
<1>2. /\ Unyielding(items) \in Seq(S) /\ Range(Unyielding(items)) \subseteq Range(items)
      /\ Yielding(items) \in Seq(S) /\ Range(Yielding(items)) \subseteq Range(items)
  BY <1>1 DEF Unyielding, Yielding, Only
<1>3. Range(Plan(items)) = Range(Unyielding(items)) \cup Range(Yielding(items))
  BY <1>2, RangeConcatenation DEF Plan
<1>4. Plan(items) \in Seq(S)
  BY <1>2 DEF Plan
<1>5. Range(items) \subseteq Range(Unyielding(items)) \cup Range(Yielding(items))
  <2> SUFFICES ASSUME NEW j \in DOMAIN items
               PROVE  items[j] \in Range(Unyielding(items)) \cup Range(Yielding(items))
      BY DEF Range
  <2>1. \A places : j \in places => items[j] \in Range(At(items, places))
    BY AtMembers
  <2>2. CASE items[j].yield
    BY <2>1, <2>2 DEF Yielding, Only
  <2>3. CASE ~items[j].yield
    BY <2>1, <2>3 DEF Unyielding, Only
  <2> QED BY <2>2, <2>3
<1> QED BY <1>2, <1>3, <1>4, <1>5

-----------------------------------------------------------------------------
(* What is mapped has been asked for                                         *)

Cells(P)   == [plain : P, signed : Seq(P)]
Sofars(P)  == [ok : BOOLEAN, map : [Types -> Cells(P)]]
Bounded(m) == \A t \in Types : Len(m[t].signed) <= Signatures

LEMMA PlacedCell ==
  ASSUME NEW P, NEW cell \in Cells(P), NEW spec \in P, Len(cell.signed) <= Signatures
  PROVE  /\ Placed(cell, spec) \in Cells(P)
         /\ Len(Placed(cell, spec).signed) <= Signatures
         /\ Candidates(Placed(cell, spec)) \subseteq Candidates(cell) \cup {spec}
<1>1. CASE spec \in Candidates(cell) \/ ~Room(cell, spec)
  BY <1>1 DEF Placed
<1>2. CASE ~(spec \in Candidates(cell) \/ ~Room(cell, spec)) /\ spec.signed
  <2>1. Placed(cell, spec) = [cell EXCEPT !.signed = Append(@, spec)]
        /\ Len(cell.signed) < Signatures
    BY <1>2 DEF Placed, Room
  <2> DEFINE s == Append(cell.signed, spec)
  <2>2. /\ s \in Seq(P) /\ Len(s) = Len(cell.signed) + 1 /\ Len(cell.signed) \in Nat
        /\ DOMAIN s = 1 .. Len(s) /\ DOMAIN cell.signed = 1 .. Len(cell.signed)
        /\ \A k \in 1 .. Len(s) : s[k] = IF k <= Len(cell.signed) THEN cell.signed[k] ELSE spec
    BY DEF Cells
  <2>3. /\ Placed(cell, spec) \in Cells(P)
        /\ Placed(cell, spec).signed = s /\ Placed(cell, spec).plain = cell.plain
    BY <2>1, <2>2 DEF Cells
  <2> HIDE DEF s
  <2>4. Len(s) <= Signatures
    BY <2>1, <2>2, TypesAssumption
  <2>5. {s[k] : k \in DOMAIN s} \subseteq {cell.signed[k] : k \in DOMAIN cell.signed} \cup {spec}
    BY <2>2
  <2> QED BY <2>3, <2>4, <2>5 DEF Candidates
<1>3. CASE ~(spec \in Candidates(cell) \/ ~Room(cell, spec)) /\ ~spec.signed
  <2>1. Placed(cell, spec) = [cell EXCEPT !.plain = spec]
    BY <1>3 DEF Placed
  <2> QED BY <2>1 DEF Cells, Candidates
<1> QED BY <1>1, <1>2, <1>3

LEMMA MapOneKeeps ==
  ASSUME NEW P, NEW sofar \in Sofars(P), NEW item, item.spec \in P, Bounded(sofar.map)
  PROVE  /\ MapOne(sofar, item) \in Sofars(P)
         /\ Bounded(MapOne(sofar, item).map)
         /\ \A t \in Types : \A s \in Candidates(MapOne(sofar, item).map[t]) :
              \/ s \in Candidates(sofar.map[t])
              \/ s = item.spec /\ t = item.type
<1> DEFINE next == MapOne(sofar, item)
<1>1. CASE ~sofar.ok
  BY <1>1 DEF MapOne
<1>2. CASE sofar.ok /\ Refused(sofar.map[item.type], item)
  <2>1. next = [sofar EXCEPT !.ok = FALSE]
    BY <1>2 DEF MapOne
  <2>2. next \in Sofars(P) /\ next.map = sofar.map
    BY <2>1 DEF Sofars
  <2> QED BY <2>2
<1>3. CASE sofar.ok /\ ~Refused(sofar.map[item.type], item)
  <2> DEFINE cell == Placed(sofar.map[item.type], item.spec)
  <2>1. next = [sofar EXCEPT !.map[item.type] = cell]
    BY <1>3 DEF MapOne
  <2>2. /\ sofar.map \in [Types -> Cells(P)] /\ sofar.ok \in BOOLEAN
        /\ next = [sofar EXCEPT !.map = [sofar.map EXCEPT ![item.type] = cell]]
    BY <2>1 DEF Sofars
  <2> HIDE DEF cell
  <2>3. next.map = [sofar.map EXCEPT ![item.type] = cell] /\ next.ok = sofar.ok
        /\ next = [ok |-> sofar.ok, map |-> [sofar.map EXCEPT ![item.type] = cell]]
    BY <2>2 DEF Sofars
  <2> HIDE DEF next
  <2>4. CASE item.type \notin Types
    <3>1. next.map = sofar.map
      BY <2>2, <2>3, <2>4
    <3>2. next \in Sofars(P)
      BY <2>2, <2>3, <3>1 DEF Sofars
    <3> QED BY <3>1, <3>2 DEF next
  <2>5. CASE item.type \in Types
    <3>1. /\ cell \in Cells(P) /\ Len(cell.signed) <= Signatures
          /\ Candidates(cell) \subseteq Candidates(sofar.map[item.type]) \cup {item.spec}
      BY <2>2, <2>5, PlacedCell DEF cell, Bounded
    <3>2. \A t \in Types : next.map[t] = IF t = item.type THEN cell ELSE sofar.map[t]
      BY <2>2, <2>3, <2>5
    <3>3. next \in Sofars(P)
      BY <2>2, <2>3, <3>1 DEF Sofars
    <3>4. Bounded(next.map)
      BY <3>1, <3>2 DEF Bounded
    <3> QED BY <3>1, <3>2, <3>3, <3>4 DEF next
  <2> QED BY <2>4, <2>5
<1> QED BY <1>1, <1>2, <1>3

\* How far dmi_types_map has come, whatever it maps.
SpecsIn(plan) == {BuiltIn[t] : t \in Types} \cup {plan[j].spec : j \in DOMAIN plan}
Fine(P)       == {v \in Sofars(P) : Bounded(v.map)}
Start         == [ok |-> TRUE, map |-> Base]

LEMMA StartIsFine ==
  ASSUME NEW P, \A t \in Types : BuiltIn[t] \in P
  PROVE  Start \in Fine(P) /\ \A t \in Types : Candidates(Start.map[t]) = {BuiltIn[t]}
<1>1. \A t \in Types : Base[t] = [plain |-> BuiltIn[t], signed |-> <<>>]
                       /\ Base[t].signed = <<>> /\ Len(<<>>) = 0
  BY DEF Base
<1>2. <<>> \in Seq(P)
  OBVIOUS
<1>3. \A t \in Types : Base[t] \in Cells(P)
  <2> TAKE t \in Types
  <2>1. BuiltIn[t] \in P /\ Base[t] = [plain |-> BuiltIn[t], signed |-> <<>>]
    BY <1>1
  <2>2. [plain |-> BuiltIn[t], signed |-> <<>>] \in [plain : P, signed : Seq(P)]
    BY <1>2, <2>1
  <2> QED BY <2>1, <2>2 DEF Cells
<1>4. Base \in [Types -> Cells(P)]
  BY <1>3 DEF Base
<1>5. Bounded(Base)
  <2>1. \A t \in Types : Len(Base[t].signed) = 0
    BY <1>1
  <2> QED BY <2>1, TypesAssumption DEF Bounded
<1>6. Start \in Sofars(P) /\ Start.map = Base
  BY <1>4 DEF Sofars, Start
<1>7. \A t \in Types : Candidates(Base[t]) = {BuiltIn[t]}
  BY DEF Base, Candidates
<1> QED BY <1>5, <1>6, <1>7 DEF Fine

LEMMA MapAllRuns ==
  ASSUME NEW S, NEW plan \in Seq(S)
  PROVE  \E f : /\ f[0] = Start /\ f[Len(plan)] = MapAll(plan)
                /\ \A k \in 0 .. Len(plan) : f[k] \in Fine(SpecsIn(plan))
                /\ \A k \in 1 .. Len(plan) : f[k] = MapOne(f[k - 1], plan[k])
<1> DEFINE n == Len(plan)
           P == SpecsIn(plan)
           V == Fine(P)
           step == [p \in V \X (1 .. n) |-> MapOne(p[1], plan[p[2]])]
<1>1. n \in Nat /\ \A k \in 1 .. n : plan[k].spec \in P
  BY DEF SpecsIn
<1>2. Start \in V
  BY StartIsFine DEF SpecsIn
<1>3. \A v \in V, k \in 1 .. n : MapOne(v, plan[k]) \in V
  BY <1>1, MapOneKeeps DEF Fine
<1> HIDE DEF P, V
<1>4. \A v \in V, k \in 1 .. n : step[<<v, k>>] = MapOne(v, plan[k])
  OBVIOUS
<1>5. step \in [V \X (1 .. n) -> V]
  BY <1>3
<1> HIDE DEF step
<1>6. PICK r : r \in Runs(V, Start, step, n)
  BY <1>1, <1>2, <1>5, RunExists
<1>7. r \in [0 .. n -> V] /\ r[0] = Start /\ \A k \in 1 .. n : r[k] = step[<<r[k - 1], k>>]
  BY <1>6 DEF Runs
<1>8. \A k \in 1 .. n : r[k] = MapOne(r[k - 1], plan[k])
  <2> TAKE k \in 1 .. n
  <2>1. k - 1 \in 0 .. n
    BY <1>1
  <2> QED BY <1>4, <1>7, <2>1
<1>9. \A k \in 0 .. n : k = 0 \/ k \in 1 .. n
  BY <1>1
<1>10. r = [k \in 0 .. n |-> IF k = 0 THEN Start ELSE MapOne(r[k - 1], plan[k])]
  BY <1>7, <1>8, <1>9
<1> DEFINE f == CHOOSE g : g = [k \in 0 .. n |-> IF k = 0 THEN Start ELSE MapOne(g[k - 1], plan[k])]
<1>11. f = [k \in 0 .. n |-> IF k = 0 THEN Start ELSE MapOne(f[k - 1], plan[k])]
  BY <1>10
<1>12. MapAll(plan) = f[n]
  BY DEF MapAll, Start
<1> HIDE DEF f, n
<1>13. 0 \in 0 .. n /\ \A k \in 1 .. n : k \in 0 .. n /\ k # 0
  BY <1>1
<1>14. f[0] = Start /\ \A k \in 1 .. n : f[k] = MapOne(f[k - 1], plan[k])
  BY <1>11, <1>13
<1> DEFINE Good == {k \in 0 .. n : f[k] \in V}
<1>15. ASSUME NEW k \in 1 .. n, k - 1 \in Good PROVE k \in Good
  BY <1>3, <1>13, <1>14, <1>15
<1>16. \A k \in 0 .. n : k \in Good
  <2>1. 0 \in Good /\ \A k \in 1 .. n : k - 1 \in Good => k \in Good
    BY <1>2, <1>13, <1>14, <1>15
  <2> HIDE DEF Good
  <2> QED BY <1>1, <2>1, StepByStep
<1> QED BY <1>12, <1>14, <1>16 DEF V, P, n

\* Whatever the map is made of, a cell holds what the library has built in, and
\* what the plan has brought to its type number.
FromPlan(m, plan) ==
  \A t \in Types : \A s \in Candidates(m[t]) :
    s = BuiltIn[t] \/ \E j \in DOMAIN plan : plan[j].spec = s /\ plan[j].type = t

LEMMA MapAllSound ==
  ASSUME NEW S, NEW plan \in Seq(S)
  PROVE  /\ DOMAIN MapAll(plan).map = Types
         /\ Bounded(MapAll(plan).map)
         /\ FromPlan(MapAll(plan).map, plan)
<1> DEFINE n == Len(plan)
<1>1. n \in Nat /\ DOMAIN plan = 1 .. n /\ \A k \in 1 .. n : plan[k].spec \in SpecsIn(plan)
  BY DEF SpecsIn
<1>2. PICK f : /\ f[0] = Start /\ f[n] = MapAll(plan)
               /\ \A k \in 0 .. n : f[k] \in Fine(SpecsIn(plan))
               /\ \A k \in 1 .. n : f[k] = MapOne(f[k - 1], plan[k])
  BY MapAllRuns
<1> HIDE DEF n
<1> DEFINE Good == {k \in 0 .. n : FromPlan(f[k].map, plan)}
<1>3. 0 \in Good
  <2>1. \A t \in Types : BuiltIn[t] \in SpecsIn(plan)
    BY DEF SpecsIn
  <2>2. \A t \in Types : Candidates(Start.map[t]) = {BuiltIn[t]}
    BY <2>1, StartIsFine
  <2>3. FromPlan(Start.map, plan)
    BY <2>2 DEF FromPlan
  <2> QED BY <1>1, <1>2, <2>3
<1>4. ASSUME NEW k \in 1 .. n, k - 1 \in Good PROVE k \in Good
  <2>1. k \in 0 .. n /\ k - 1 \in 0 .. n /\ k \in DOMAIN plan
    BY <1>1
  <2>2. f[k] = MapOne(f[k - 1], plan[k]) /\ f[k - 1] \in Fine(SpecsIn(plan))
        /\ FromPlan(f[k - 1].map, plan)
    BY <1>2, <1>4, <2>1
  <2>3. \A t \in Types : \A s \in Candidates(f[k].map[t]) :
          s \in Candidates(f[k - 1].map[t]) \/ (s = plan[k].spec /\ t = plan[k].type)
    <3> DEFINE P == SpecsIn(plan)
               v == f[k - 1]
    <3>1. v \in Sofars(P) /\ Bounded(v.map)
      BY <2>2 DEF Fine
    <3>2. plan[k].spec \in P
      BY <1>1
    <3> HIDE DEF P, v
    <3>3. \A t \in Types : \A s \in Candidates(MapOne(v, plan[k]).map[t]) :
            s \in Candidates(v.map[t]) \/ (s = plan[k].spec /\ t = plan[k].type)
      BY <3>1, <3>2, MapOneKeeps
    <3> QED BY <2>2, <3>3 DEF v
  <2>4. FromPlan(f[k].map, plan)
    BY <2>1, <2>2, <2>3 DEF FromPlan
  <2> QED BY <2>1, <2>4
<1>5. n \in Good
  <2>1. \A k \in 1 .. n : k - 1 \in Good => k \in Good
    BY <1>4
  <2> HIDE DEF Good
  <2>2. \A k \in 0 .. n : k \in Good
    BY <1>1, <1>3, <2>1, StepByStep
  <2> QED BY <1>1, <2>2
<1>6. MapAll(plan) \in Fine(SpecsIn(plan)) /\ FromPlan(MapAll(plan).map, plan)
  BY <1>1, <1>2, <1>5
<1> QED BY <1>6 DEF Fine, Sofars

\* A specification is a candidate, or its module has yielded the type number.
Settled(cell, x) == x.spec \in Candidates(cell) \/ (x.yield /\ ~Room(cell, x.spec))

LEMMA PlacedSettles ==
  ASSUME NEW P, NEW cell \in Cells(P), NEW item, ~Refused(cell, item)
  PROVE  Settled(Placed(cell, item.spec), item)
<1>1. CASE item.spec \in Candidates(cell) \/ ~Room(cell, item.spec)
  BY <1>1 DEF Placed, Settled, Refused
<1>2. CASE ~(item.spec \in Candidates(cell) \/ ~Room(cell, item.spec)) /\ item.spec.signed
  <2> DEFINE s == Append(cell.signed, item.spec)
  <2>1. Placed(cell, item.spec) = [cell EXCEPT !.signed = s]
    BY <1>2 DEF Placed
  <2>2. Placed(cell, item.spec).signed = s
    BY <2>1 DEF Cells
  <2>3. Len(s) \in DOMAIN s /\ s[Len(s)] = item.spec
    BY DEF Cells
  <2> QED BY <2>2, <2>3 DEF Settled, Candidates
<1>3. CASE ~(item.spec \in Candidates(cell) \/ ~Room(cell, item.spec)) /\ ~item.spec.signed
  <2>1. Placed(cell, item.spec).plain = item.spec
    BY <1>3 DEF Placed, Cells
  <2> QED BY <2>1 DEF Settled, Candidates
<1> QED BY <1>1, <1>2, <1>3

LEMMA PlacedKeeps ==
  ASSUME NEW P, NEW cell \in Cells(P), NEW spec \in P, Len(cell.signed) <= Signatures,
         NEW x, x.spec # NoSpec, Settled(cell, x)
  PROVE  Settled(Placed(cell, spec), x)
<1>1. CASE spec \in Candidates(cell) \/ ~Room(cell, spec)
  BY <1>1 DEF Placed
<1>2. CASE ~(spec \in Candidates(cell) \/ ~Room(cell, spec)) /\ spec.signed
  <2> DEFINE s == Append(cell.signed, spec)
             next == Placed(cell, spec)
  <2>1. next = [cell EXCEPT !.signed = s]
    BY <1>2 DEF Placed
  <2>2. next.signed = s /\ next.plain = cell.plain
    BY <2>1 DEF Cells
  <2>3. /\ Len(s) = Len(cell.signed) + 1 /\ Len(cell.signed) \in Nat
        /\ \A k \in DOMAIN cell.signed : k \in DOMAIN s /\ s[k] = cell.signed[k]
    BY DEF Cells
  <2> HIDE DEF s, next
  <2>4. Candidates(cell) \subseteq Candidates(next)
    BY <2>2, <2>3 DEF Candidates
  <2>5. Room(next, x.spec) => Room(cell, x.spec)
    BY <2>2, <2>3, TypesAssumption DEF Room
  <2> QED BY <2>4, <2>5 DEF Settled, next
<1>3. CASE ~(spec \in Candidates(cell) \/ ~Room(cell, spec)) /\ ~spec.signed
  <2> DEFINE next == Placed(cell, spec)
  <2>1. next = [cell EXCEPT !.plain = spec] /\ cell.plain = NoSpec /\ spec # NoSpec
    BY <1>3 DEF Placed, Room, Candidates
  <2>2. next.signed = cell.signed /\ next.plain = spec
    BY <2>1 DEF Cells
  <2> HIDE DEF next
  <2>3. x.spec \in Candidates(cell) => x.spec \in Candidates(next)
    BY <2>1, <2>2 DEF Candidates
  <2>4. Room(next, x.spec) => Room(cell, x.spec)
    BY <2>1, <2>2 DEF Room
  <2> QED BY <2>3, <2>4 DEF Settled, next
<1> QED BY <1>1, <1>2, <1>3

LEMMA MapOneFits ==
  ASSUME NEW P, NEW sofar \in Sofars(P), NEW item, item.spec \in P, item.type \in Types,
         MapOne(sofar, item).ok
  PROVE  /\ sofar.ok /\ ~Refused(sofar.map[item.type], item)
         /\ \A t \in Types : MapOne(sofar, item).map[t] =
                               IF t = item.type THEN Placed(sofar.map[t], item.spec)
                               ELSE sofar.map[t]
<1>1. sofar.ok
  BY DEF MapOne
<1>2. ~Refused(sofar.map[item.type], item)
  <2> SUFFICES ASSUME Refused(sofar.map[item.type], item) PROVE FALSE
      OBVIOUS
  <2>1. MapOne(sofar, item) = [sofar EXCEPT !.ok = FALSE]
    BY <1>1 DEF MapOne
  <2> QED BY <2>1 DEF Sofars
<1> DEFINE cell == Placed(sofar.map[item.type], item.spec)
<1>3. MapOne(sofar, item) = [sofar EXCEPT !.map = [sofar.map EXCEPT ![item.type] = cell]]
  BY <1>1, <1>2 DEF MapOne
<1> HIDE DEF cell
<1>4. MapOne(sofar, item).map = [sofar.map EXCEPT ![item.type] = cell]
      /\ DOMAIN sofar.map = Types
  BY <1>3 DEF Sofars
<1>5. \A t \in Types : MapOne(sofar, item).map[t] = IF t = item.type THEN cell ELSE sofar.map[t]
  BY <1>4
<1> QED BY <1>1, <1>2, <1>5 DEF cell

\* A plan that is mapped without a conflict is mapped to its last item, and what
\* has been settled once stays settled.
LEMMA MapAllSettles ==
  ASSUME NEW S, NEW plan \in Seq(S), MapAll(plan).ok,
         \A j \in DOMAIN plan : plan[j].spec # NoSpec /\ plan[j].type \in Types
  PROVE  \A j \in DOMAIN plan : Settled(MapAll(plan).map[plan[j].type], plan[j])
<1> DEFINE n == Len(plan)
           P == SpecsIn(plan)
<1>1. /\ n \in Nat /\ DOMAIN plan = 1 .. n
      /\ \A k \in 1 .. n : plan[k].spec \in P /\ plan[k].spec # NoSpec /\ plan[k].type \in Types
  BY DEF SpecsIn
<1>2. PICK f : /\ f[0] = Start /\ f[n] = MapAll(plan)
               /\ \A k \in 0 .. n : f[k] \in Fine(P)
               /\ \A k \in 1 .. n : f[k] = MapOne(f[k - 1], plan[k])
  BY MapAllRuns
<1> HIDE DEF n, P
<1> DEFINE Good == {k \in 0 .. n : f[k].ok =>
                      \A j \in 1 .. k : Settled(f[k].map[plan[j].type], plan[j])}
<1>3. 0 \in Good
  BY <1>1
<1>4. ASSUME NEW k \in 1 .. n, k - 1 \in Good PROVE k \in Good
  <2>1. k \in 0 .. n /\ k - 1 \in 0 .. n /\ k \in 1 .. n
    BY <1>1
  <2> SUFFICES ASSUME f[k].ok, NEW j \in 1 .. k
               PROVE  Settled(f[k].map[plan[j].type], plan[j])
      BY <2>1
  <2> DEFINE v == f[k - 1]
             item == plan[k]
             cell == v.map[item.type]
  <2>2. v \in Sofars(P) /\ Bounded(v.map) /\ f[k] = MapOne(v, item)
    BY <1>2, <2>1 DEF Fine
  <2>3. v.ok => \A i \in 1 .. (k - 1) : Settled(v.map[plan[i].type], plan[i])
    BY <1>4
  <2> HIDE DEF Good, v, item
  <2>4. item.spec \in P /\ item.type \in Types
    BY <1>1, <2>1 DEF item
  <2>5. /\ v.ok /\ ~Refused(cell, item)
        /\ \A t \in Types : f[k].map[t] = IF t = item.type THEN Placed(v.map[t], item.spec)
                                          ELSE v.map[t]
    BY <2>2, <2>4, MapOneFits
  <2>6. cell \in Cells(P) /\ Len(cell.signed) <= Signatures
    BY <2>2, <2>4 DEF Sofars, Bounded
  <2>7. f[k].map[item.type] = Placed(cell, item.spec)
    BY <2>4, <2>5
  <2> HIDE DEF cell
  <2>8. CASE j = k
    BY <2>5, <2>6, <2>7, <2>8, PlacedSettles DEF item
  <2>9. CASE j # k
    <3>1. j \in 1 .. (k - 1) /\ j \in 1 .. n
      BY <1>1, <2>1, <2>9
    <3> DEFINE x == plan[j]
    <3>2. Settled(v.map[x.type], x) /\ x.spec # NoSpec /\ x.type \in Types
      BY <1>1, <2>3, <2>5, <3>1
    <3> HIDE DEF x
    <3>3. CASE x.type = item.type
      <4>1. Settled(cell, x)
        BY <3>2, <3>3 DEF cell
      <4>2. Settled(Placed(cell, item.spec), x)
        BY <2>4, <2>6, <3>2, <4>1, PlacedKeeps
      <4> QED BY <2>7, <3>3, <4>2 DEF x
    <3>4. CASE x.type # item.type
      BY <2>5, <3>2, <3>4 DEF x
    <3> QED BY <3>3, <3>4
  <2> QED BY <2>8, <2>9
<1>5. n \in Good
  <2>1. \A k \in 1 .. n : k - 1 \in Good => k \in Good
    BY <1>4
  <2> HIDE DEF Good
  <2>2. \A k \in 0 .. n : k \in Good
    BY <1>1, <1>3, <2>1, StepByStep
  <2> QED BY <1>1, <2>2
<1> QED BY <1>1, <1>2, <1>5

\* The map made of the modules holds what the library has built in and what the
\* modules ask for.
FromModules(m, M, host) ==
  \A t \in Types : \A s \in Candidates(m[t]) :
    s = BuiltIn[t] \/ \E x : Requested(M, host, x) /\ x.spec = s /\ x.type = t

LEMMA MapOfSound ==
  ASSUME NEW mods, IsList(mods), \A m \in Range(mods) : IsModule(m), NEW host
  PROVE  /\ DOMAIN MapOf(mods, host).map = Types
         /\ Bounded(MapOf(mods, host).map)
         /\ FromModules(MapOf(mods, host).map, Range(mods), host)
<1> DEFINE items == Items(mods, host)
           plan  == Plan(items)
           S     == Requests(Range(mods))
<1>1. items \in Seq(S) /\ \A x : x \in Range(items) <=> Requested(Range(mods), host, x)
  BY ItemsMembers
<1> HIDE DEF items, S
<1>2. plan \in Seq(S) /\ Range(plan) \subseteq Range(items)
  BY <1>1, PlanMembers
<1>3. MapOf(mods, host) = MapAll(plan)
  BY DEF MapOf, items
<1> HIDE DEF plan
<1>4. /\ DOMAIN MapAll(plan).map = Types
      /\ Bounded(MapAll(plan).map)
      /\ FromPlan(MapAll(plan).map, plan)
  BY <1>2, MapAllSound
<1>5. \A j \in DOMAIN plan : Requested(Range(mods), host, plan[j])
  BY <1>1, <1>2 DEF Range
<1>6. FromModules(MapAll(plan).map, Range(mods), host)
  BY <1>4, <1>5 DEF FromPlan, FromModules
<1> QED BY <1>3, <1>4, <1>6

-----------------------------------------------------------------------------
(* What the context holds                                                    *)

Places == Buffers \cup {0}

\* What the context keeps is an allocation or nothing.
Shape(s) == DOMAIN s = DOMAIN Closed /\ \A k \in Kinds : s[k] \in Places

\* How far opening has got tells what the context holds: the stages that are
\* Gone have nothing, the stages that are Bare have no registry, and a
\* registry is that of the table there is.
Gone == {"closed", "destroyed"}
Bare == Gone \cup {"backend", "entry", "table", "scan", "copied"}

Steps ==
  /\ stage \in {"closed", "open", "destroyed"} \cup Opening \cup Anonymous
  /\ source \in [Buffers -> Places]
  /\ stage \in Gone => state = Closed
  /\ stage \notin Gone => state.table # 0
  /\ state.session = 0 <=> stage \in Gone \cup {"backend"}
  /\ stage \in {"backend", "entry"} => state.entry = 0
  /\ state.registry = 0 <=> stage \in Bare
  /\ stage \notin Bare => source[state.registry] = state.table
  /\ stage \in {"modules", "rebuild", "structures", "open"} => state.platform # NoPlatform

\* What dmi_anonymize_context keeps is whole and is put back as it is: it shares
\* the entry point and the session with the context, and nothing else.
Kept ==
  /\ stage \notin Anonymous => old = Closed
  /\ stage \in Anonymous =>
       /\ old.table # 0 /\ old.registry # 0
       /\ source[old.registry] = old.table
       /\ state.platform # NoPlatform
       /\ state.entry = old.entry /\ state.session = old.session
       /\ state.table # old.table /\ state.registry # old.registry

WholeInv == Shape(state) /\ Shape(old) /\ NothingLeaks /\ Steps /\ Kept

-----------------------------------------------------------------------------
\* What a context holds, by kind.
LEMMA HeldMembers ==
  ASSUME NEW s, Shape(s)
  PROVE  Held(s) = {x \in Kinds \X Buffers : s[x[1]] = x[2]}
<1>1. ASSUME NEW x \in Held(s)
      PROVE  x \in Kinds \X Buffers /\ s[x[1]] = x[2]
  <2>1. PICK k \in Kinds : s[k] # 0 /\ x = <<k, s[k]>>
    BY <1>1 DEF Held
  <2> QED BY <2>1 DEF Shape, Places
<1>2. ASSUME NEW x \in Kinds \X Buffers, s[x[1]] = x[2]
      PROVE  x \in Held(s)
  <2>1. x[1] \in Kinds /\ x = <<x[1], s[x[1]]>> /\ s[x[1]] # 0
    BY <1>2, BuffersAssumption
  <2> QED BY <2>1 DEF Held
<1> QED BY <1>1, <1>2

LEMMA HeldClosed == Shape(Closed) /\ Held(Closed) = {}
<1>1. Shape(Closed)
  BY DEF Shape, Closed, Kinds, Places
<1>2. \A k \in Kinds : Closed[k] = 0
  BY DEF Closed, Kinds
<1> QED BY <1>1, <1>2 DEF Held

\* An allocation is held from when it is kept.
LEMMA HeldGrows ==
  ASSUME NEW s, Shape(s), NEW kind \in Kinds, s[kind] = 0, NEW n \in Buffers
  PROVE  LET t == [s EXCEPT ![kind] = n]
         IN Shape(t) /\ Held(t) = Held(s) \cup {<<kind, n>>}
<1> DEFINE t == [s EXCEPT ![kind] = n]
<1>1. kind \in DOMAIN s
  BY DEF Shape, Kinds, Closed
<1>2. DOMAIN t = DOMAIN s /\ t[kind] = n /\ \A k \in Kinds \ {kind} : t[k] = s[k]
  BY <1>1 DEF Shape, Kinds, Closed
<1> HIDE DEF t
<1>3. Shape(t)
  BY <1>2 DEF Shape, Places
<1>4. Held(s) = {x \in Kinds \X Buffers : s[x[1]] = x[2]}
  BY HeldMembers
<1>5. Held(t) = {x \in Kinds \X Buffers : t[x[1]] = x[2]}
  BY <1>3, HeldMembers
<1>6. ASSUME NEW x PROVE x \in Held(t) <=> x \in Held(s) \cup {<<kind, n>>}
  <2>1. CASE x \in Kinds \X Buffers /\ x[1] # kind
    BY <2>1, <1>2, <1>4, <1>5
  <2>2. CASE x \in Kinds \X Buffers /\ x[1] = kind
    BY <2>2, <1>2, <1>4, <1>5, BuffersAssumption
  <2>3. CASE x \notin Kinds \X Buffers
    BY <2>3, <1>4, <1>5
  <2> QED BY <2>1, <2>2, <2>3
<1> QED BY <1>3, <1>6 DEF t

\* The vendor, the platform and the modules are not allocations.
LEMMA HeldKept ==
  ASSUME NEW s, Shape(s), NEW t, DOMAIN t = DOMAIN s, \A k \in Kinds : t[k] = s[k]
  PROVE  Shape(t) /\ Held(t) = Held(s)
BY DEF Shape, Held

LEMMA FieldsKept ==
  ASSUME NEW s, Shape(s), NEW v,
         NEW t, \/ t = [s EXCEPT !["vendor"] = v]
                \/ t = [s EXCEPT !["platform"] = v]
                \/ t = [s EXCEPT !["modules"] = v]
  PROVE  Shape(t) /\ Held(t) = Held(s)
<1>1. DOMAIN t = DOMAIN s /\ \A k \in Kinds : t[k] = s[k]
  BY DEF Shape, Kinds, Closed
<1> QED BY <1>1, HeldKept

\* Outside of dmi_anonymize_context all there is to free is what it holds.
LEMMA OnlyState ==
  ASSUME WholeInv, stage \notin Anonymous
  PROVE  heap = Held(state) /\ heap \ Held(state) = {} /\ old = Closed
BY HeldClosed DEF WholeInv, NothingLeaks, Kept

-----------------------------------------------------------------------------
\* The invariant is established, and kept by every action.
LEMMA WholeInit == Init => WholeInv
<1> SUFFICES ASSUME Init PROVE WholeInv
    OBVIOUS
<1>1. NothingLeaks /\ Shape(state) /\ Shape(old)
  BY HeldClosed DEF Init, NothingLeaks
<1>2. Steps
  BY DEF Init, Steps, Unread, Places, Closed, Gone, Bare
<1>3. Kept
  BY DEF Init, Kept, Anonymous
<1> QED BY <1>1, <1>2, <1>3 DEF WholeInv

\* What neither allocates, nor frees, nor opens.
LEMMA WholeUnchanged ==
  WholeInv /\ UNCHANGED <<stage, state, old, heap, source>> => WholeInv'
BY DEF WholeInv, NothingLeaks, Steps, Kept, Shape, Held

LEMMA WholeClosed ==
  ASSUME WholeInv, stage \notin Anonymous, stage' \in Gone, state' = Closed, old' = old,
         heap' = heap \ Held(state), source' = Unread
  PROVE  WholeInv'
<1>1. heap' = {} /\ old' = Closed
  BY OnlyState
<1>2. NothingLeaks' /\ Shape(state') /\ Shape(old')
  BY <1>1, HeldClosed DEF NothingLeaks
<1>3. Steps'
  BY DEF Steps, Unread, Places, Closed, Gone, Bare
<1>4. Kept'
  BY <1>1 DEF Kept, Anonymous, Gone
<1> QED BY <1>2, <1>3, <1>4 DEF WholeInv

\* A step of opening that allocates keeps what it has allocated.
LEMMA AllocationKept ==
  ASSUME WholeInv, NEW kind \in Kinds, NEW n \in Buffers, state[kind] = 0,
         Allocate(kind, n), Keep(kind, n), old' = old
  PROVE  NothingLeaks' /\ Shape(state') /\ Shape(old')
<1>1. Shape(state') /\ Held(state') = Held(state) \cup {<<kind, n>>}
  BY HeldGrows DEF WholeInv, Keep
<1>2. heap' = heap \cup {<<kind, n>>}
  BY DEF Allocate
<1> QED BY <1>1, <1>2 DEF WholeInv, NothingLeaks

LEMMA NothingAllocated ==
  ASSUME WholeInv, UNCHANGED <<heap, old>>, NEW v,
         \/ Keep("vendor", v) \/ Keep("platform", v) \/ Keep("modules", v)
         \/ UNCHANGED state
  PROVE  NothingLeaks' /\ Shape(state') /\ Shape(old')
<1>1. Shape(state') /\ Held(state') = Held(state)
  BY FieldsKept DEF WholeInv, Keep
<1> QED BY <1>1 DEF WholeInv, NothingLeaks

LEMMA WholeOpen == WholeInv /\ Open => WholeInv'
<1> SUFFICES ASSUME WholeInv, NEW n \in Buffers,
                    Proceed("closed", "backend"), Allocate("table", n), Keep("table", n),
                    UNCHANGED source
             PROVE  WholeInv'
    BY DEF Open
<1>1. n # 0 /\ state = Closed /\ old = Closed /\ old' = old /\ stage' = "backend"
  BY BuffersAssumption DEF WholeInv, Steps, Kept, Proceed, Gone, Anonymous
<1>2. NothingLeaks' /\ Shape(state') /\ Shape(old')
  BY <1>1, AllocationKept DEF Kinds, Closed
<1>3. Steps'
  BY <1>1 DEF WholeInv, Steps, Keep, Closed, Gone, Bare, Opening
<1>4. Kept'
  BY <1>1 DEF Kept, Anonymous
<1> QED BY <1>2, <1>3, <1>4 DEF WholeInv

LEMMA WholeOpenBackend == WholeInv /\ OpenBackend => WholeInv'
<1> SUFFICES ASSUME WholeInv, NEW n \in Buffers,
                    Proceed("backend", "entry"), Allocate("session", n), Keep("session", n),
                    UNCHANGED source
             PROVE  WholeInv'
    BY DEF OpenBackend
<1>1. n # 0 /\ state.session = 0 /\ old = Closed /\ old' = old /\ stage' = "entry"
      /\ stage = "backend"
  BY BuffersAssumption DEF WholeInv, Steps, Kept, Proceed, Gone, Anonymous
<1>2. NothingLeaks' /\ Shape(state') /\ Shape(old')
  BY <1>1, AllocationKept DEF Kinds
<1>3. Steps'
  BY <1>1 DEF WholeInv, Steps, Keep, Closed, Gone, Bare, Opening, Shape
<1>4. Kept'
  BY <1>1 DEF Kept, Anonymous
<1> QED BY <1>2, <1>3, <1>4 DEF WholeInv

LEMMA WholeReadEntry == WholeInv /\ ReadEntry => WholeInv'
<1> SUFFICES ASSUME WholeInv, ReadEntry PROVE WholeInv'
    OBVIOUS
<1>1. state.entry = 0 /\ old = Closed /\ old' = old /\ stage' = "table" /\ stage = "entry"
      /\ UNCHANGED source
  BY DEF WholeInv, Steps, Kept, ReadEntry, Proceed, Gone, Anonymous
<1>2. CASE UNCHANGED <<state, heap>>
  <2>1. NothingLeaks' /\ Shape(state') /\ Shape(old')
    BY <1>1, <1>2, NothingAllocated
  <2>2. Steps' /\ Kept'
    BY <1>1, <1>2 DEF WholeInv, Steps, Kept, Gone, Bare, Opening, Anonymous
  <2> QED BY <2>1, <2>2 DEF WholeInv
<1>3. ASSUME NEW n \in Buffers, Allocate("entry", n), Keep("entry", n) PROVE WholeInv'
  <2>1. NothingLeaks' /\ Shape(state') /\ Shape(old')
    BY <1>1, <1>3, AllocationKept DEF Kinds
  <2>2. Steps' /\ Kept'
    BY <1>1, <1>3 DEF WholeInv, Steps, Kept, Keep, Closed, Shape, Gone, Bare, Opening, Anonymous
  <2> QED BY <2>1, <2>2 DEF WholeInv
<1> QED BY <1>2, <1>3 DEF ReadEntry

LEMMA WholeReadTable == WholeInv /\ ReadTable => WholeInv'
BY DEF WholeInv, ReadTable, Proceed, NothingLeaks, Steps, Kept, Shape, Held,
       Gone, Bare, Opening, Anonymous

LEMMA WholeFinishOpen == WholeInv /\ FinishOpen => WholeInv'
BY DEF WholeInv, FinishOpen, Proceed, NothingLeaks, Steps, Kept, Shape, Held,
       Gone, Bare, Opening, Anonymous

LEMMA WholeRebuildTypes == WholeInv /\ RebuildTypes => WholeInv'
BY DEF WholeInv, RebuildTypes, Proceed, NothingLeaks, Steps, Kept, Shape, Held,
       Gone, Bare, Opening, Anonymous

LEMMA WholeScan == WholeInv /\ Scan => WholeInv'
<1> SUFFICES ASSUME WholeInv, NEW n \in Buffers, Proceed("scan", "vendor"), NewRegistry(n)
             PROVE  WholeInv'
    BY DEF Scan
<1>1. n # 0 /\ state.registry = 0 /\ old = Closed /\ old' = old /\ stage' = "vendor"
      /\ stage = "scan"
  BY BuffersAssumption DEF WholeInv, Steps, Kept, Proceed, Gone, Bare, Anonymous
<1>2. NothingLeaks' /\ Shape(state') /\ Shape(old')
  BY <1>1, AllocationKept DEF Kinds, NewRegistry
<1>3. Steps'
  BY <1>1 DEF WholeInv, Steps, Keep, Closed, Shape, Kinds, Places, Gone, Bare, Opening,
              NewRegistry
<1>4. Kept'
  BY <1>1 DEF Kept, Anonymous
<1> QED BY <1>2, <1>3, <1>4 DEF WholeInv

LEMMA WholeRescan == WholeInv /\ Rescan => WholeInv'
<1> SUFFICES ASSUME WholeInv, NEW n \in Buffers, Proceed("copied", "revendor"), NewRegistry(n)
             PROVE  WholeInv'
    BY DEF Rescan
<1>1. n # 0 /\ state.registry = 0 /\ old' = old /\ stage' = "revendor" /\ stage = "copied"
  BY BuffersAssumption DEF WholeInv, Steps, Proceed, Bare
<1>2. NothingLeaks' /\ Shape(state') /\ Shape(old')
  BY <1>1, AllocationKept DEF Kinds, NewRegistry
<1>3. DOMAIN state = DOMAIN Closed /\ state' = [state EXCEPT !["registry"] = n]
      /\ source' = [source EXCEPT ![n] = state.table]
  BY DEF WholeInv, Shape, NewRegistry, Keep
<1>4. Steps'
  BY <1>1, <1>3 DEF WholeInv, Steps, Closed, Shape, Kinds, Places, Gone, Bare, Opening, Anonymous
<1>5. old.registry # n
  <2>1. <<"registry", old.registry>> \in Held(old)
    BY <1>1 DEF WholeInv, Kept, Held, Kinds, Anonymous
  <2> QED BY <2>1 DEF WholeInv, NothingLeaks, NewRegistry, Allocate, Free
<1>6. Kept'
  BY <1>1, <1>3, <1>5 DEF WholeInv, Steps, Kept, Closed, Shape, Kinds, Anonymous, Places
<1> QED BY <1>2, <1>4, <1>6 DEF WholeInv

\* Telling the vendor and the platform allocates nothing.
LEMMA WholeTold ==
  ASSUME WholeInv, UNCHANGED <<heap, old, source>>, NEW v,
         \/ Keep("vendor", v)
         \/ Keep("modules", v)
         \/ v # NoPlatform /\ Keep("platform", v)
         \/ UNCHANGED state,
         \/ stage = "vendor" /\ stage' = "platform"
         \/ stage = "revendor" /\ stage' = "reread"
         \/ stage = "modules" /\ stage' = "rebuild"
         \/ stage = "platform" /\ stage' \in {"modules", "rebuild"} /\ state'.platform # NoPlatform
  PROVE  WholeInv'
<1>1. NothingLeaks' /\ Shape(state') /\ Shape(old')
  BY NothingAllocated
<1>2. /\ state'.table = state.table /\ state'.entry = state.entry
      /\ state'.session = state.session /\ state'.registry = state.registry
  BY DEF WholeInv, Shape, Keep, Closed
<1>3. state.platform # NoPlatform => state'.platform # NoPlatform
  BY DEF WholeInv, Shape, Keep, Closed
<1>4. Steps'
  BY <1>2, <1>3 DEF WholeInv, Steps, Gone, Bare, Opening, Anonymous
<1>5. Kept'
  BY <1>2, <1>3 DEF WholeInv, Steps, Kept, Anonymous
<1> QED BY <1>1, <1>4, <1>5 DEF WholeInv

LEMMA WholeSetupVendor == WholeInv /\ SetupVendor => WholeInv'
BY WholeTold DEF SetupVendor, Proceed, NameVendor

LEMMA WholeNameVendorAnew == WholeInv /\ NameVendorAnew => WholeInv'
BY WholeTold DEF NameVendorAnew, Proceed, NameVendor

LEMMA WholeEnableModules == WholeInv /\ EnableModules => WholeInv'
BY WholeTold DEF EnableModules, Proceed

LEMMA WholeDetectPlatform == WholeInv /\ DetectPlatform => WholeInv'
<1> SUFFICES ASSUME WholeInv, DetectPlatform PROVE WholeInv'
    OBVIOUS
<1>1. PICK p \in Platforms : Keep("platform", p)
  BY DEF DetectPlatform
<1>2. p # NoPlatform /\ state'.platform = p
  BY <1>1, PlatformsAssumption DEF WholeInv, Shape, Keep, Closed
<1> QED BY <1>1, <1>2, WholeTold DEF DetectPlatform, Proceed

LEMMA WholeFailOpen == WholeInv /\ FailOpen => WholeInv'
BY WholeClosed DEF FailOpen, CloseContext, Forget, Gone, Opening, Anonymous

LEMMA WholeClose == WholeInv /\ Close => WholeInv'
BY WholeClosed DEF Close, CloseContext, Forget, Idle, Gone, Anonymous

LEMMA WholeDestroy == WholeInv /\ Destroy => WholeInv'
BY WholeClosed DEF Destroy, Idle, Gone, Anonymous

LEMMA WholeAnonymize == WholeInv /\ Anonymize => WholeInv'
<1> SUFFICES ASSUME WholeInv, NEW n \in Buffers, stage = "open", stage' = "copied",
                    Allocate("table", n), old' = state,
                    state' = [state EXCEPT !.table = n, !.registry = 0], UNCHANGED source
             PROVE  WholeInv'
    BY DEF Anonymize
<1>1. n # 0 /\ old = Closed /\ heap = Held(state)
  BY BuffersAssumption, OnlyState DEF Anonymous
<1>2. DOMAIN state = DOMAIN Closed /\ \A k \in Kinds : state[k] \in Places
  BY DEF WholeInv, Shape
<1>3. /\ DOMAIN state' = DOMAIN Closed /\ state'.table = n /\ state'.registry = 0
      /\ state'.entry = state.entry /\ state'.session = state.session
      /\ state'.platform = state.platform
  BY <1>2 DEF Closed
<1>4. Shape(state') /\ Shape(old')
  BY <1>2, <1>3 DEF Shape, Kinds, Places
<1>5. NothingLeaks'
  <2>1. Held(state') = {x \in Kinds \X Buffers : state'[x[1]] = x[2]}
    BY <1>4, HeldMembers
  <2>2. Held(state) = {x \in Kinds \X Buffers : state[x[1]] = x[2]}
    BY <1>2, HeldMembers DEF Shape
  <2>3. heap' = Held(state) \cup {<<"table", n>>}
    BY <1>1 DEF Allocate
  <2>4. ASSUME NEW x \in Held(state') PROVE x \in heap'
    <3>1. x[1] = "table" => x = <<"table", n>>
      <4>1. x = <<x[1], x[2]>> /\ state'[x[1]] = x[2]
        BY <2>1, <2>4
      <4> QED BY <4>1, <1>3
    <3>2. x[1] # "registry"
      BY <2>1, <2>4, <1>3, BuffersAssumption
    <3> QED BY <2>1, <2>2, <2>3, <2>4, <1>3, <3>1, <3>2 DEF Kinds
  <2>5. <<"table", n>> \in Held(state')
    BY <2>1, <1>3 DEF Kinds
  <2> QED BY <2>3, <2>4, <2>5 DEF NothingLeaks
<1>6. n # state.table
  <2>1. state.table # 0
    BY DEF WholeInv, Steps, Gone
  <2>2. <<"table", state.table>> \in Held(state)
    BY <2>1 DEF Held, Kinds
  <2> QED BY <2>2, <1>1 DEF Allocate, Free
<1>7. Steps' /\ Kept'
  BY <1>1, <1>3, <1>6 DEF WholeInv, Steps, Kept, Gone, Bare, Anonymous, Opening
<1> QED BY <1>4, <1>5, <1>7 DEF WholeInv

LEMMA WholeFinishAnonymize == WholeInv /\ FinishAnonymize => WholeInv'
<1> SUFFICES ASSUME WholeInv, FinishAnonymize PROVE WholeInv'
    OBVIOUS
<1>1. /\ DOMAIN state = DOMAIN Closed /\ DOMAIN old = DOMAIN Closed
      /\ old.table # 0 /\ old.registry # 0 /\ state.entry = old.entry
      /\ state.session = old.session /\ state.table # old.table
      /\ state.registry # old.registry
  BY DEF WholeInv, Shape, Kept, FinishAnonymize, Anonymous
<1>2. Held(state) = {x \in Kinds \X Buffers : state[x[1]] = x[2]}
  BY HeldMembers DEF WholeInv
<1>3. Held(old) = {x \in Kinds \X Buffers : old[x[1]] = x[2]}
  BY HeldMembers DEF WholeInv
<1>4. heap' = Held(state)
  <2>1. heap' = (Held(state) \cup Held(old))
                  \ {<<"table", old.table>>, <<"registry", old.registry>>}
    BY DEF FinishAnonymize, WholeInv, NothingLeaks
  <2>2. ASSUME NEW x \in Held(old), x \notin Held(state)
        PROVE  x \in {<<"table", old.table>>, <<"registry", old.registry>>}
    <3>1. x = <<x[1], x[2]>> /\ x[1] \in Kinds /\ old[x[1]] = x[2] /\ state[x[1]] # x[2]
      BY <1>2, <1>3, <2>2
    <3> QED BY <3>1, <1>1 DEF Kinds
  <2>3. <<"table", old.table>> \notin Held(state) /\ <<"registry", old.registry>> \notin Held(state)
    BY <1>1, <1>2
  <2> QED BY <2>1, <2>2, <2>3
<1>5. state' = state /\ old' = Closed
  BY DEF FinishAnonymize
<1>6. NothingLeaks' /\ Shape(state') /\ Shape(old')
  BY <1>4, <1>5, HeldClosed DEF NothingLeaks, WholeInv
<1>7. Steps' /\ Kept'
  BY <1>1, <1>5 DEF FinishAnonymize, WholeInv, Steps, Kept, Shape, Kinds, Places,
                    Gone, Bare, Anonymous, Opening
<1> QED BY <1>6, <1>7 DEF WholeInv

LEMMA WholeFailAnonymize == WholeInv /\ FailAnonymize => WholeInv'
<1> SUFFICES ASSUME WholeInv, FailAnonymize PROVE WholeInv'
    OBVIOUS
<1>1. /\ DOMAIN state = DOMAIN Closed /\ DOMAIN old = DOMAIN Closed
      /\ old.table # 0 /\ old.registry # 0 /\ source[old.registry] = old.table
      /\ state.platform # NoPlatform /\ state.entry = old.entry
      /\ state.session = old.session /\ state.table # old.table
      /\ state.registry # old.registry
  BY DEF WholeInv, Shape, Kept, FailAnonymize, Anonymous
<1>2. /\ DOMAIN state' = DOMAIN Closed /\ state'.table = old.table
      /\ state'.registry = old.registry /\ state'.entry = old.entry
      /\ state'.session = old.session /\ state'.platform # NoPlatform
  BY <1>1 DEF FailAnonymize, Restore, Closed
<1>3. \A k \in Kinds : state'[k] = old[k]
  BY <1>2 DEF Kinds
<1>4. Shape(state') /\ Held(state') = Held(old)
  BY <1>1, <1>2, <1>3, HeldKept DEF WholeInv
<1>5. Held(state) = {x \in Kinds \X Buffers : state[x[1]] = x[2]}
  BY HeldMembers DEF WholeInv
<1>6. Held(old) = {x \in Kinds \X Buffers : old[x[1]] = x[2]}
  BY HeldMembers DEF WholeInv
<1>7. heap' = Held(old)
  <2>1. heap' = (Held(state) \cup Held(old))
                  \ {<<"table", state.table>>, <<"registry", state.registry>>}
    BY DEF FailAnonymize, Discard, WholeInv, NothingLeaks
  <2>2. ASSUME NEW x \in Held(state), x \notin Held(old)
        PROVE  x \in {<<"table", state.table>>, <<"registry", state.registry>>}
    <3>1. x = <<x[1], x[2]>> /\ x[1] \in Kinds /\ state[x[1]] = x[2] /\ old[x[1]] # x[2]
      BY <1>5, <1>6, <2>2
    <3> QED BY <3>1, <1>1 DEF Kinds
  <2>3. <<"table", state.table>> \notin Held(old) /\ <<"registry", state.registry>> \notin Held(old)
    BY <1>1, <1>6
  <2> QED BY <2>1, <2>2, <2>3
<1>8. NothingLeaks' /\ Shape(old')
  BY <1>4, <1>7, HeldClosed DEF NothingLeaks, FailAnonymize
<1>9. Steps'
  <2>1. source' = [n \in Buffers |-> IF n = state.registry THEN 0 ELSE source[n]]
    BY DEF FailAnonymize
  <2>2. source' \in [Buffers -> Places]
    BY <2>1 DEF WholeInv, Steps, Places
  <2>3. source'[state'.registry] = state'.table
    BY <2>1, <1>1, <1>2 DEF WholeInv, Shape, Kinds, Places
  <2>4. stage' = "open" /\ state'.session # 0
    BY <1>1, <1>2 DEF FailAnonymize, WholeInv, Steps, Gone, Anonymous
  <2> QED BY <1>1, <1>2, <2>2, <2>3, <2>4 DEF Steps, Gone, Bare
<1>10. Kept'
  BY DEF FailAnonymize, Kept, Anonymous
<1> QED BY <1>4, <1>8, <1>9, <1>10 DEF WholeInv

LEMMA WholeIdle ==
  /\ \A mod : WholeInv /\ AddExtension(mod) => WholeInv'
  /\ \A p : WholeInv /\ SetPlatform(p) => WholeInv'
  /\ WholeInv /\ SetFlags => WholeInv'
BY WholeUnchanged DEF AddExtension, SetPlatform, SetFlags

LEMMA WholeNext == WholeInv /\ [Next]_vars => WholeInv'
<1> SUFFICES ASSUME WholeInv, [Next]_vars PROVE WholeInv'
    OBVIOUS
<1>1. CASE \E i \in DOMAIN Modules : AddExtension(Modules[i])
  BY <1>1, WholeIdle
<1>2. CASE \E p \in Platforms \cup {NoPlatform} : SetPlatform(p)
  BY <1>2, WholeIdle
<1>3. CASE SetFlags
  BY <1>3, WholeIdle
<1>4. CASE UNCHANGED vars
  BY <1>4, WholeUnchanged DEF vars
<1> QED
  BY <1>1, <1>2, <1>3, <1>4, WholeClose, WholeDestroy, WholeOpen, WholeOpenBackend,
     WholeReadEntry, WholeReadTable, WholeScan, WholeSetupVendor, WholeDetectPlatform,
     WholeEnableModules, WholeRebuildTypes, WholeFinishOpen, WholeFailOpen, WholeAnonymize,
     WholeRescan, WholeNameVendorAnew, WholeFinishAnonymize, WholeFailAnonymize
  DEF Next

\* The strengthening that is inductive.
THEOREM WholeInvariant == Spec => []WholeInv
<1>1. Init => WholeInv
  BY WholeInit
<1>2. WholeInv /\ [Next]_vars => WholeInv'
  BY WholeNext
<1> QED BY <1>1, <1>2, PTL DEF Spec

\* Whichever of its steps fails, a call frees what it has allocated and no
\* longer keeps (dmi_open_ex, dmi_close, dmi_anonymize_context).
THEOREM NothingIsLeaked == Spec => []NothingLeaks
<1>1. WholeInv => NothingLeaks
  BY DEF WholeInv
<1> QED BY <1>1, WholeInvariant, PTL

\* Between two calls a context is empty, or has a session, a platform and the
\* structures of the table it has, whichever step of the last call has failed.
THEOREM WholeOrEmpty == Spec => []ContextIsWhole
<1>1. WholeInv => ContextIsWhole
  <2> SUFFICES ASSUME WholeInv PROVE ContextIsWhole
      OBVIOUS
  <2>1. ClosedIsEmpty
    BY OnlyState, HeldClosed DEF ClosedIsEmpty, WholeInv, Steps, Gone, Anonymous
  <2>2. OpenIsWhole
    BY DEF OpenIsWhole, WholeInv, Steps, Gone, Bare, Anonymous
  <2> QED BY <2>1, <2>2 DEF ContextIsWhole
<1> QED BY <1>1, WholeInvariant, PTL

-----------------------------------------------------------------------------
(* The enabled modules and the map made of them                              *)

Distinct(s) == \A i, j \in DOMAIN s : s[i] = s[j] => i = j

\* No module is enabled twice, explicitly or for the platform.
Lists ==
  /\ modules \in Seq(Range(Modules)) /\ state \in States /\ old \in States
  /\ Distinct(modules) /\ Distinct(state.modules)
  /\ Range(modules) \cap Range(state.modules) = {}

\* A failure is counted once for each opening or anonymization.
Counts ==
  /\ strict \in BOOLEAN /\ auto \in BOOLEAN
  /\ platform \in Platforms \cup {NoPlatform}
  /\ failures \in 0 .. MaxErrors
  /\ stage \in Opening \cup Anonymous => failures < MaxErrors

\* The stages at which the map is that of the enabled modules and the platform:
\* it is not while the context is being opened, before the types are rebuilt.
Mapped == {"closed", "open", "structures"} \cup Anonymous

Maps ==
  /\ DOMAIN map = Types /\ Bounded(map)
  /\ stage \in Mapped => FromModules(map, Range(Enabled), Current)

LEMMA ModulesAreModules ==
  /\ IsList(Modules)
  /\ \A m \in Range(Modules) : IsModule(m)
  /\ Distinct(Modules)
BY ModulesAssumption DEF IsList, IsModule, Distinct

LEMMA Joined ==
  ASSUME NEW S, NEW s \in Seq(S), NEW t \in Seq(S)
  PROVE  s \o t \in Seq(S) /\ Range(s \o t) = Range(s) \cup Range(t)
BY RangeConcatenation

LEMMA Appended ==
  ASSUME NEW S, NEW s \in Seq(S), NEW x \in S, Distinct(s), x \notin Range(s)
  PROVE  /\ Append(s, x) \in Seq(S) /\ Distinct(Append(s, x))
         /\ Range(Append(s, x)) = Range(s) \cup {x}
<1> DEFINE t == Append(s, x)
           n == Len(s)
<1>1. /\ t \in Seq(S) /\ n \in Nat /\ DOMAIN s = 1 .. n /\ DOMAIN t = 1 .. (n + 1)
      /\ t[n + 1] = x /\ \A k \in 1 .. n : t[k] = s[k]
  OBVIOUS
<1> HIDE DEF t, n
<1>2. \A k \in 1 .. (n + 1) : k = n + 1 \/ k \in 1 .. n
  BY <1>1
<1>3. n + 1 \in 1 .. (n + 1) /\ \A k \in 1 .. n : k \in 1 .. (n + 1)
  BY <1>1
<1>4. Range(t) = Range(s) \cup {x}
  BY <1>1, <1>2, <1>3 DEF Range
<1>5. Distinct(t)
  <2> SUFFICES ASSUME NEW i \in 1 .. (n + 1), NEW j \in 1 .. (n + 1), t[i] = t[j] PROVE i = j
      BY <1>1 DEF Distinct
  <2>1. CASE i \in 1 .. n /\ j \in 1 .. n
    BY <2>1, <1>1 DEF Distinct
  <2>2. CASE i = n + 1 /\ j \in 1 .. n
    BY <2>2, <1>1 DEF Range
  <2>3. CASE j = n + 1 /\ i \in 1 .. n
    BY <2>3, <1>1 DEF Range
  <2> QED BY <1>2, <2>1, <2>2, <2>3
<1> QED BY <1>1, <1>4, <1>5 DEF t

LEMMA AppendedRange ==
  ASSUME NEW S, NEW s \in Seq(S), NEW x \in S
  PROVE  Append(s, x) \in Seq(S) /\ Range(Append(s, x)) = Range(s) \cup {x}
<1>1. Append(s, x) = s \o <<x>> /\ <<x>> \in Seq(S)
  OBVIOUS
<1>2. Range(<<x>>) = {x}
  BY DEF Range
<1>3. Range(s \o <<x>>) = Range(s) \cup Range(<<x>>)
  BY <1>1, Joined
<1>4. Append(s, x) \in Seq(S)
  OBVIOUS
<1> QED BY <1>1, <1>2, <1>3, <1>4

\* A map made of enabled modules holds what they ask for.
LEMMA MapMade ==
  ASSUME NEW mods \in Seq(Range(Modules)), NEW host
  PROVE  LET m == MapOf(mods, host).map
         IN DOMAIN m = Types /\ Bounded(m) /\ FromModules(m, Range(mods), host)
<1>1. IsList(mods) /\ \A m \in Range(mods) : IsModule(m)
  BY ListMembers, ModulesAreModules DEF IsList
<1> QED BY <1>1, MapOfSound

LEMMA EnabledFacts ==
  ASSUME Lists
  PROVE  /\ Enabled \in Seq(Range(Modules))
         /\ Range(Enabled) = Range(modules) \cup Range(state.modules)
<1>1. state.modules \in Seq(Range(Modules)) /\ modules \in Seq(Range(Modules))
  BY DEF Lists, States
<1> QED BY <1>1, Joined DEF Enabled

\* The modules enabled for the platform are registered, are not those enabled
\* already, and none of them is enabled twice.
LEMMA ModulesForFacts ==
  ASSUME Lists
  PROVE  /\ ModulesFor \in Seq(Range(Modules))
         /\ Distinct(ModulesFor)
         /\ Range(ModulesFor) \cap Range(Enabled) = {}
<1> DEFINE n == Len(Modules)
           S == Range(Modules)
           V == Seq(S)
           step == [p \in V \X (1 .. n) |-> Enable(p[1], Modules[p[2]])]
<1>1. n \in Nat /\ DOMAIN Modules = 1 .. n /\ \A k \in 1 .. n : Modules[k] \in S
  BY ModulesAreModules, ListMembers DEF IsList
<1>2. <<>> \in V
  OBVIOUS
<1>3. \A v \in V, k \in 1 .. n : Enable(v, Modules[k]) \in V
  BY <1>1 DEF Enable
<1> HIDE DEF V
<1>4. \E f : f = [k \in 0 .. n |-> IF k = 0 THEN <<>> ELSE Enable(f[k - 1], Modules[k])]
  <2>1. \A v \in V, k \in 1 .. n : step[<<v, k>>] = Enable(v, Modules[k])
    OBVIOUS
  <2>2. step \in [V \X (1 .. n) -> V]
    BY <1>3
  <2> HIDE DEF step
  <2>3. PICK f : f \in Runs(V, <<>>, step, n)
    BY <1>1, <1>2, <2>2, RunExists
  <2>4. f \in [0 .. n -> V] /\ f[0] = <<>> /\ \A k \in 1 .. n : f[k] = step[<<f[k - 1], k>>]
    BY <2>3 DEF Runs
  <2>5. \A k \in 1 .. n : f[k] = Enable(f[k - 1], Modules[k])
    <3> TAKE k \in 1 .. n
    <3>1. k - 1 \in 0 .. n
      BY <1>1
    <3> QED BY <2>1, <2>4, <3>1
  <2>6. f = [k \in 0 .. n |-> IF k = 0 THEN <<>> ELSE Enable(f[k - 1], Modules[k])]
    <3>1. \A k \in 0 .. n : k = 0 \/ k \in 1 .. n
      BY <1>1
    <3> QED BY <2>4, <2>5, <3>1
  <2> QED BY <2>6
<1> DEFINE f == CHOOSE g : g = [k \in 0 .. n |-> IF k = 0 THEN <<>> ELSE Enable(g[k - 1], Modules[k])]
<1>5. f = [k \in 0 .. n |-> IF k = 0 THEN <<>> ELSE Enable(f[k - 1], Modules[k])]
  BY <1>4
<1>6. ModulesFor = f[n]
  BY DEF ModulesFor
<1> HIDE DEF f
<1> DEFINE Early(k) == {Modules[j] : j \in 1 .. k}
           Good == {k \in 0 .. n : /\ f[k] \in V /\ Distinct(f[k])
                                   /\ Range(f[k]) \subseteq Early(k)
                                   /\ Range(f[k]) \cap Range(Enabled) = {}}
<1>7. 0 \in Good
  <2>1. f[0] = <<>> /\ 0 \in 0 .. n
    BY <1>1, <1>5
  <2>2. Range(<<>>) = {} /\ Distinct(<<>>)
    BY DEF Range, Distinct
  <2> QED BY <1>2, <2>1, <2>2
<1>8. ASSUME NEW k \in 1 .. n, k - 1 \in Good PROVE k \in Good
  <2>0. k \in 0 .. n /\ k # 0
    BY <1>1
  <2>1. f[k] = Enable(f[k - 1], Modules[k])
    <3> HIDE DEF Good, step, n
    <3> QED BY <2>0, <1>5
  <2>2. /\ f[k - 1] \in V /\ Distinct(f[k - 1])
        /\ Range(f[k - 1]) \subseteq Early(k - 1) /\ Range(f[k - 1]) \cap Range(Enabled) = {}
    BY <1>8
  <2>3. Early(k - 1) \subseteq Early(k) /\ Modules[k] \in Early(k) /\ Modules[k] \notin Early(k - 1)
    <3>1. \A j \in 1 .. (k - 1) : j \in 1 .. k /\ j \in 1 .. n /\ j # k
      BY <1>1
    <3>2. k \in 1 .. k
      OBVIOUS
    <3>3. \A j \in 1 .. n : Modules[j] = Modules[k] => j = k
      BY <1>1, ModulesAreModules DEF Distinct
    <3> QED BY <3>1, <3>2, <3>3
  <2> HIDE DEF Early
  <2>4. CASE ~Suits(f[k - 1], Modules[k])
    BY <2>0, <2>1, <2>2, <2>3, <2>4 DEF Enable
  <2>5. CASE Suits(f[k - 1], Modules[k])
    <3>1. f[k] = Append(f[k - 1], Modules[k]) /\ Modules[k] \notin Range(Enabled)
      BY <2>1, <2>5 DEF Enable, Suits, HasExtension
    <3>2. /\ f[k] \in V /\ Distinct(f[k]) /\ Range(f[k]) = Range(f[k - 1]) \cup {Modules[k]}
      BY <1>1, <2>2, <2>3, <3>1, Appended DEF V
    <3> QED BY <2>0, <2>2, <2>3, <3>1, <3>2
  <2> QED BY <2>4, <2>5
<1> HIDE DEF Good
<1>9. n \in Good
  <2>1. \A k \in 1 .. n : k - 1 \in Good => k \in Good
    BY <1>8
  <2>2. \A k \in 0 .. n : k \in Good
    BY <1>1, <1>7, <2>1, StepByStep
  <2> QED BY <1>1, <2>2
<1> QED BY <1>6, <1>9 DEF Good, V

LEMMA ListsInit == Init => Lists /\ Counts /\ Maps
<1> SUFFICES ASSUME Init PROVE Lists /\ Counts /\ Maps
    OBVIOUS
<1>1. <<>> \in Seq(Range(Modules)) /\ Range(<<>>) = {} /\ Distinct(<<>>)
  BY DEF Range, Distinct
<1>2. Lists
  BY <1>1 DEF Init, Lists, States, Closed
<1>3. Counts
  BY BoundsAssumption DEF Init, Counts, Opening, Anonymous
<1>4. Maps
  <2>1. map = Base /\ \A t \in Types : Base[t] = [plain |-> BuiltIn[t], signed |-> <<>>]
    BY DEF Init, Base
  <2>2. \A t \in Types : Len(Base[t].signed) = 0 /\ Candidates(Base[t]) = {BuiltIn[t]}
    <3> TAKE t \in Types
    <3>1. Base[t].signed = <<>> /\ Base[t].plain = BuiltIn[t]
      BY DEF Base
    <3>2. Len(<<>>) = 0 /\ DOMAIN <<>> = {}
      OBVIOUS
    <3> QED BY <3>1, <3>2 DEF Candidates
  <2>3. Bounded(map) /\ DOMAIN map = Types
    BY <2>1, <2>2, TypesAssumption DEF Bounded, Base
  <2>4. FromModules(map, Range(Enabled), Current)
    BY <2>1, <2>2 DEF FromModules
  <2> QED BY <2>3, <2>4 DEF Maps
<1> QED BY <1>2, <1>3, <1>4

\* Fields that are kept, or filled with what the context may hold.
LEMMA StateKept ==
  ASSUME Lists
  PROVE  /\ \A k \in Kinds, n \in Buffers : /\ [state EXCEPT ![k] = n] \in States
                                            /\ [state EXCEPT ![k] = n].modules = state.modules
                                            /\ [state EXCEPT ![k] = n].platform = state.platform
         /\ \A p \in Platforms : /\ [state EXCEPT !["platform"] = p] \in States
                                 /\ [state EXCEPT !["platform"] = p].modules = state.modules
         /\ \A n \in Buffers \cup {0} :
              /\ [state EXCEPT !["vendor"] = n] \in States
              /\ [state EXCEPT !["vendor"] = n].modules = state.modules
              /\ [state EXCEPT !["vendor"] = n].platform = state.platform
         /\ \A s \in Seq(Range(Modules)) : /\ [state EXCEPT !["modules"] = s] \in States
                                           /\ [state EXCEPT !["modules"] = s].modules = s
<1>1. state \in States
  BY DEF Lists
<1>2. \A k \in Kinds, n \in Buffers : /\ [state EXCEPT ![k] = n] \in States
                                      /\ [state EXCEPT ![k] = n].modules = state.modules
                                      /\ [state EXCEPT ![k] = n].platform = state.platform
  BY <1>1 DEF States, Kinds
<1>3. \A p \in Platforms : /\ [state EXCEPT !["platform"] = p] \in States
                           /\ [state EXCEPT !["platform"] = p].modules = state.modules
  BY <1>1 DEF States
<1>4. \A n \in Buffers \cup {0} : /\ [state EXCEPT !["vendor"] = n] \in States
                                  /\ [state EXCEPT !["vendor"] = n].modules = state.modules
                                  /\ [state EXCEPT !["vendor"] = n].platform = state.platform
  BY <1>1 DEF States
<1>5. \A s \in Seq(Range(Modules)) : /\ [state EXCEPT !["modules"] = s] \in States
                                     /\ [state EXCEPT !["modules"] = s].modules = s
  BY <1>1 DEF States
<1> QED BY <1>2, <1>3, <1>4, <1>5

\* Most steps leave the modules as they are.
LEMMA ListsKept ==
  ASSUME Lists, modules' = modules, state' \in States, old' \in States,
         state'.modules = state.modules
  PROVE  Lists'
BY DEF Lists

LEMMA ListsCleared ==
  ASSUME Lists, state' = Closed, old' = old, modules' = modules \/ modules' = <<>>
  PROVE  Lists'
<1>1. /\ <<>> \in Seq(Range(Modules)) /\ Range(<<>>) = {} /\ Distinct(<<>>)
      /\ Closed \in States /\ Closed.modules = <<>>
  BY DEF Range, Distinct, Closed, States
<1> QED BY <1>1 DEF Lists

LEMMA ClosedIsState == Closed \in States
<1>1. <<>> \in Seq(Range(Modules))
  OBVIOUS
<1> QED BY <1>1 DEF Closed, States

\* The steps that neither enable modules nor tell the platform.
Plain ==
  \/ SetFlags \/ Open \/ OpenBackend \/ ReadEntry \/ ReadTable \/ Scan \/ SetupVendor
  \/ FinishOpen \/ Anonymize \/ Rescan \/ NameVendorAnew \/ FinishAnonymize \/ FailAnonymize

LEMMA PlainKeeps ==
  ASSUME WholeInv, Lists, Plain
  PROVE  /\ state' \in States /\ old' \in States /\ state'.modules = state.modules
         /\ state'.platform = state.platform /\ UNCHANGED <<modules, platform, map>>
<1>1. state \in States /\ old \in States /\ Closed \in States
  BY ClosedIsState DEF Lists
<1>2. state.registry \in Buffers \cup {0}
  BY <1>1 DEF States
<1>3. CASE SetFlags
  BY <1>1, <1>3 DEF SetFlags
<1>4. CASE Open \/ OpenBackend \/ ReadEntry
  <2>1. /\ UNCHANGED <<modules, platform, old, map>>
        /\ UNCHANGED state \/ \E k \in Kinds, n \in Buffers : Keep(k, n)
    <3>1. CASE Open
      BY <3>1 DEF Open, Proceed, Kinds
    <3>2. CASE OpenBackend
      BY <3>2 DEF OpenBackend, Proceed, Kinds
    <3>3. CASE ReadEntry
      BY <3>3 DEF ReadEntry, Proceed, Kinds
    <3> QED BY <1>4, <3>1, <3>2, <3>3
  <2>2. CASE UNCHANGED state
    BY <1>1, <2>1, <2>2
  <2>3. ASSUME NEW k \in Kinds, NEW n \in Buffers, Keep(k, n)
        PROVE  state' \in States /\ state'.modules = state.modules /\ state'.platform = state.platform
    BY <2>3, StateKept DEF Keep
  <2> QED BY <1>1, <2>1, <2>2, <2>3
<1>5. CASE ReadTable \/ FinishOpen
  BY <1>1, <1>5 DEF ReadTable, FinishOpen, Proceed
<1>6. CASE Scan \/ Rescan
  <2>1. PICK n \in Buffers : state' = [state EXCEPT !["registry"] = n]
    BY <1>6 DEF Scan, Rescan, NewRegistry, Keep
  <2>2. "registry" \in Kinds
    BY DEF Kinds
  <2>3. state' \in States /\ state'.modules = state.modules /\ state'.platform = state.platform
    BY <2>1, <2>2, StateKept
  <2>4. UNCHANGED <<modules, platform, map, old>>
    BY <1>6 DEF Scan, Rescan, Proceed
  <2> QED BY <1>1, <2>3, <2>4
<1>7. CASE SetupVendor \/ NameVendorAnew
  BY <1>1, <1>2, <1>7, StateKept DEF SetupVendor, NameVendorAnew, NameVendor, Proceed, Keep
<1>8. CASE Anonymize
  <2>1. PICK n \in Buffers : state' = [state EXCEPT !.table = n, !.registry = 0]
    BY <1>8 DEF Anonymize
  <2>2. state' \in States /\ state'.modules = state.modules /\ state'.platform = state.platform
    BY <1>1, <2>1 DEF States
  <2> QED BY <1>1, <1>8, <2>2 DEF Anonymize
<1>9. CASE FinishAnonymize
  BY <1>1, <1>9 DEF FinishAnonymize
<1>10. CASE FailAnonymize
  <2>1. state' = [state EXCEPT !.table = old.table, !.registry = old.registry,
                               !.vendor = old.vendor]
    BY <1>10 DEF FailAnonymize, Restore
  <2>2. /\ old.table \in Buffers \cup {0} /\ old.registry \in Buffers \cup {0}
        /\ old.vendor \in Buffers \cup {0}
    BY <1>1 DEF States
  <2>3. state' \in States /\ state'.modules = state.modules /\ state'.platform = state.platform
    BY <1>1, <2>1, <2>2 DEF States
  <2> QED BY <1>1, <1>10, <2>3 DEF FailAnonymize
<1> QED
  BY <1>3, <1>4, <1>5, <1>6, <1>7, <1>8, <1>9, <1>10 DEF Plain

\* The map that dmi_types_map makes for other modules or another platform.
LEMMA MapsMade ==
  ASSUME NEW mods \in Seq(Range(Modules)), NEW host, map' = MapOf(mods, host).map,
         stage' \in Mapped => Range(mods) = Range(Enabled') /\ host = Current'
  PROVE  Maps'
<1>1. DOMAIN map' = Types /\ Bounded(map') /\ FromModules(map', Range(mods), host)
  BY MapMade
<1> HIDE DEF Mapped
<1>2. stage' \in Mapped' => FromModules(map', Range(Enabled'), Current')
  BY <1>1 DEF Mapped
<1> QED BY <1>1, <1>2 DEF Maps

LEMMA MapsKept ==
  ASSUME Maps, UNCHANGED <<map, modules, platform>>, state'.modules = state.modules,
         state'.platform = state.platform, stage' \in Mapped => stage \in Mapped
  PROVE  Maps'
<1>1. Enabled' = Enabled /\ Current' = Current
  BY DEF Enabled, Current, Told
<1>2. DOMAIN map' = Types /\ Bounded(map')
  BY DEF Maps
<1>3. stage' \in Mapped => FromModules(map', Range(Enabled'), Current')
  BY <1>1 DEF Maps
<1> QED BY <1>2, <1>3 DEF Maps, Mapped

\* The map is of no use until the types are rebuilt.
LEMMA MapsUnused ==
  ASSUME Maps, map' = map, stage' \notin Mapped
  PROVE  Maps'
BY DEF Maps, Bounded, Mapped

LEMMA PlainMaps ==
  ASSUME WholeInv, Lists, Maps, Plain PROVE Maps'
<1>1. state'.modules = state.modules /\ state'.platform = state.platform
      /\ UNCHANGED <<modules, platform, map>>
  BY PlainKeeps
<1>2. stage' \in Mapped => stage \in Mapped
  BY DEF Plain, Mapped, Anonymous, SetFlags, Open, OpenBackend, ReadEntry, ReadTable, Scan,
         SetupVendor, FinishOpen, Anonymize, Rescan, NameVendorAnew, FinishAnonymize,
         FailAnonymize, Proceed
<1> QED BY <1>1, <1>2, MapsKept

LEMMA AddExtensionKeeps ==
  ASSUME Lists, Maps, NEW mod \in Range(Modules), AddExtension(mod)
  PROVE  Lists' /\ Maps'
<1>1. /\ modules' = Append(modules, mod) /\ UNCHANGED <<stage, state, old, platform>>
      /\ mod \notin Range(Enabled) /\ map' = MapOf(Append(Enabled, mod), Current).map
  BY DEF AddExtension, HasExtension
<1>2. /\ modules \in Seq(Range(Modules)) /\ state.modules \in Seq(Range(Modules))
      /\ Distinct(modules)
  BY DEF Lists, States
<1>3. /\ Enabled \in Seq(Range(Modules))
      /\ Range(Enabled) = Range(modules) \cup Range(state.modules)
  BY EnabledFacts
<1>4. /\ modules' \in Seq(Range(Modules)) /\ Distinct(modules')
      /\ Range(modules') = Range(modules) \cup {mod}
  BY <1>1, <1>2, <1>3, Appended
<1>5. Lists'
  BY <1>1, <1>3, <1>4 DEF Lists
<1>6. Range(Enabled') = Range(modules') \cup Range(state.modules)
  <2>1. Enabled' = modules' \o state.modules
    BY <1>1 DEF Enabled
  <2>2. Range(modules' \o state.modules) = Range(modules') \cup Range(state.modules)
    BY <1>2, <1>4, Joined
  <2> QED BY <2>1, <2>2
<1>7. /\ Append(Enabled, mod) \in Seq(Range(Modules))
      /\ Range(Append(Enabled, mod)) = Range(Enabled) \cup {mod}
  BY <1>3, AppendedRange
<1>8. Current' = Current /\ Range(Append(Enabled, mod)) = Range(Enabled')
  BY <1>1, <1>3, <1>4, <1>6, <1>7 DEF Current, Told
<1>9. Maps'
  BY <1>1, <1>7, <1>8, MapsMade
<1> QED BY <1>5, <1>9

LEMMA SetPlatformKeeps ==
  ASSUME Lists, Maps, NEW p, SetPlatform(p)
  PROVE  Lists' /\ Maps'
<1>1. UNCHANGED <<stage, state, old, modules>> /\ platform' = p
      /\ map' = MapOf(Enabled, Told(p, state.platform)).map
  BY DEF SetPlatform, Rebuild
<1>2. Enabled' = Enabled /\ Current' = Told(p, state.platform)
  BY <1>1 DEF Enabled, Current
<1>3. Lists'
  BY <1>1 DEF Lists
<1>4. Maps'
  BY <1>1, <1>2, EnabledFacts, MapsMade
<1> QED BY <1>3, <1>4

LEMMA DetectPlatformKeeps ==
  ASSUME Lists, Maps, DetectPlatform PROVE Lists' /\ Maps'
<1>1. PICK p \in Platforms : state' = [state EXCEPT !["platform"] = p]
  BY DEF DetectPlatform, Keep
<1>2. UNCHANGED <<modules, old, map>> /\ stage' \in {"modules", "rebuild"}
  BY DEF DetectPlatform, Proceed
<1>3. state' \in States /\ state'.modules = state.modules /\ old' \in States
  BY <1>1, <1>2, StateKept DEF Lists
<1>4. Lists'
  BY <1>2, <1>3, ListsKept
<1>5. Maps'
  BY <1>2, MapsUnused DEF Mapped, Anonymous
<1> QED BY <1>4, <1>5

LEMMA EnableModulesKeeps ==
  ASSUME Lists, Maps, EnableModules PROVE Lists' /\ Maps'
<1>1. /\ state' = [state EXCEPT !["modules"] = ModulesFor]
      /\ UNCHANGED <<modules, old, map>> /\ stage' = "rebuild"
  BY DEF EnableModules, Proceed, Keep
<1>2. /\ ModulesFor \in Seq(Range(Modules)) /\ Distinct(ModulesFor)
      /\ Range(ModulesFor) \cap Range(Enabled) = {}
  BY ModulesForFacts
<1>3. state' \in States /\ state'.modules = ModulesFor /\ old' \in States
  BY <1>1, <1>2, StateKept DEF Lists
<1>4. Range(modules) \cap Range(ModulesFor) = {}
  BY <1>2, EnabledFacts
<1>5. Lists'
  BY <1>1, <1>2, <1>3, <1>4 DEF Lists
<1>6. Maps'
  BY <1>1, MapsUnused DEF Mapped, Anonymous
<1> QED BY <1>5, <1>6

LEMMA RebuildTypesKeeps ==
  ASSUME Lists, Maps, RebuildTypes PROVE Lists' /\ Maps'
<1>1. /\ UNCHANGED <<modules, state, old, platform>>
      /\ map' = MapOf(Enabled, Current).map
  BY DEF RebuildTypes, Proceed, Rebuild, Current
<1>2. Enabled' = Enabled /\ Current' = Current
  BY <1>1 DEF Enabled, Current
<1>3. Lists'
  BY <1>1 DEF Lists
<1> QED BY <1>1, <1>2, <1>3, EnabledFacts, MapsMade

LEMMA CloseContextKeeps ==
  ASSUME Lists, Maps, CloseContext PROVE Lists' /\ Maps'
<1>1. /\ UNCHANGED <<modules, old, platform>> /\ state' = Closed
      /\ map' = MapOf(modules, platform).map
  BY DEF CloseContext, Forget
<1>2. Lists'
  BY <1>1, ListsCleared
<1>3. modules \in Seq(Range(Modules)) /\ Closed.modules = <<>> /\ Closed.platform = NoPlatform
  BY DEF Lists, Closed
<1>4. Enabled' = modules \o <<>> /\ modules \o <<>> = modules
  BY <1>1, <1>3 DEF Enabled
<1>5. Current' = platform
  BY <1>1, <1>3 DEF Current, Told
<1> QED BY <1>1, <1>2, <1>3, <1>4, <1>5, MapsMade

LEMMA DestroyKeeps ==
  ASSUME Lists, Maps, Destroy PROVE Lists' /\ Maps'
<1>1. state' = Closed /\ modules' = <<>> /\ old' = old /\ map' = Base /\ stage' = "destroyed"
  BY DEF Destroy
<1>2. Lists'
  BY <1>1, ListsCleared
<1>3. \A t \in Types : Len(Base[t].signed) = 0
  <2> TAKE t \in Types
  <2>1. Base[t].signed = <<>>
    BY DEF Base
  <2> QED BY <2>1
<1>4. DOMAIN Base = Types /\ Bounded(Base)
  BY <1>3, TypesAssumption DEF Base, Bounded
<1>5. stage' \notin Mapped
  BY <1>1 DEF Mapped, Anonymous
<1> QED BY <1>1, <1>2, <1>4, <1>5 DEF Maps, Mapped

LEMMA CountsNext ==
  ASSUME Counts, [Next]_vars PROVE Counts'
<1>1. CASE \E i \in DOMAIN Modules : AddExtension(Modules[i])
  BY <1>1 DEF Counts, AddExtension
<1>2. CASE \E p \in Platforms \cup {NoPlatform} : SetPlatform(p)
  BY <1>2 DEF Counts, SetPlatform
<1>3. CASE SetFlags \/ Destroy \/ Close
  BY <1>3 DEF Counts, SetFlags, Destroy, Close, CloseContext, Idle, Opening, Anonymous
<1>4. CASE Open \/ Anonymize
  BY <1>4 DEF Counts, Open, Anonymize, Proceed
<1>5. CASE OpenBackend \/ ReadEntry \/ ReadTable \/ Scan \/ SetupVendor \/ DetectPlatform
           \/ EnableModules \/ RebuildTypes
  BY <1>5 DEF Counts, OpenBackend, ReadEntry, ReadTable, Scan, SetupVendor, DetectPlatform,
              EnableModules, RebuildTypes, Proceed, Opening
<1>6. CASE Rescan \/ NameVendorAnew \/ FinishOpen \/ FinishAnonymize
  BY <1>6 DEF Counts, Rescan, NameVendorAnew, FinishOpen, FinishAnonymize, Proceed,
              Opening, Anonymous
<1>7. CASE FailOpen \/ FailAnonymize
  BY <1>7, BoundsAssumption DEF Counts, FailOpen, FailAnonymize, CloseContext, Opening, Anonymous
<1>8. CASE UNCHANGED vars
  BY <1>8 DEF Counts, vars
<1> QED BY <1>1, <1>2, <1>3, <1>4, <1>5, <1>6, <1>7, <1>8 DEF Next

LEMMA ListsNext ==
  ASSUME WholeInv, Lists, Maps, [Next]_vars PROVE Lists' /\ Maps'
<1>1. CASE \E i \in DOMAIN Modules : AddExtension(Modules[i])
  <2>1. PICK i \in DOMAIN Modules : AddExtension(Modules[i])
    BY <1>1
  <2>2. Modules[i] \in Range(Modules)
    BY DEF Range
  <2> QED BY <2>1, <2>2, AddExtensionKeeps
<1>2. CASE \E p \in Platforms \cup {NoPlatform} : SetPlatform(p)
  BY <1>2, SetPlatformKeeps
<1>3. CASE Plain
  <2>1. Lists'
    BY <1>3, PlainKeeps, ListsKept
  <2> QED BY <1>3, <2>1, PlainMaps
<1>4. CASE Close \/ FailOpen
  <2>1. CloseContext
    BY <1>4 DEF Close, FailOpen
  <2> QED BY <2>1, CloseContextKeeps
<1>5. CASE UNCHANGED vars
  BY <1>5 DEF vars, Lists, Maps, Mapped, Bounded, FromModules, Enabled, Current
<1> QED
  BY <1>1, <1>2, <1>3, <1>4, <1>5, DestroyKeeps, DetectPlatformKeeps, EnableModulesKeeps,
     RebuildTypesKeeps
  DEF Next, Plain

\* The strengthening of what the type map and the modules are.
THEOREM MapInvariant == Spec => [](Lists /\ Counts /\ Maps)
<1>1. Init => Lists /\ Counts /\ Maps
  BY ListsInit
<1>2. WholeInv /\ (Lists /\ Counts /\ Maps) /\ [Next]_vars => (Lists /\ Counts /\ Maps)'
  BY ListsNext, CountsNext
<1> QED BY <1>1, <1>2, WholeInvariant, PTL DEF Spec

LEMMA DistinctCount ==
  ASSUME NEW S, NEW s \in Seq(S), Distinct(s)
  PROVE  IsFiniteSet(Range(s)) /\ Cardinality(Range(s)) = Len(s)
<1>1. DOMAIN s = 1 .. Len(s) /\ Len(s) \in Nat
  OBVIOUS
<1>2. IsFiniteSet(1 .. Len(s)) /\ Cardinality(1 .. Len(s)) = Len(s)
  BY <1>1, FS_Interval
<1>3. s \in Bijection(1 .. Len(s), Range(s))
  BY <1>1 DEF Bijection, Injection, Surjection, IsInjective, Range, Distinct
<1>4. ExistsBijection(1 .. Len(s), Range(s))
  BY <1>3 DEF ExistsBijection
<1> QED BY <1>1, <1>2, <1>4, FS_Bijection

\* A context and its type map are well formed, and no module is enabled twice,
\* explicitly or for the platform (dmi_has_extension).
THEOREM TypeCorrect == Spec => []TypeOK
<1>1. WholeInv /\ Lists /\ Counts /\ Maps => TypeOK
  <2> SUFFICES ASSUME WholeInv, Lists, Counts, Maps PROVE TypeOK
      OBVIOUS
  <2>1. heap \subseteq Kinds \X Buffers
    <3>1. Held(state) \subseteq Kinds \X Buffers /\ Held(old) \subseteq Kinds \X Buffers
      BY HeldMembers DEF WholeInv
    <3> QED BY <3>1 DEF WholeInv, NothingLeaks
  <2>2. Cardinality(Range(Enabled)) = Len(Enabled)
    <3>1. /\ modules \in Seq(Range(Modules)) /\ state.modules \in Seq(Range(Modules))
          /\ Distinct(modules) /\ Distinct(state.modules)
          /\ Range(modules) \cap Range(state.modules) = {}
      BY DEF Lists, States
    <3>2. /\ IsFiniteSet(Range(modules)) /\ Cardinality(Range(modules)) = Len(modules)
          /\ IsFiniteSet(Range(state.modules))
          /\ Cardinality(Range(state.modules)) = Len(state.modules)
      BY <3>1, DistinctCount
    <3>3. Cardinality(Range(modules) \cup Range(state.modules)) =
            Len(modules) + Len(state.modules) - Cardinality(Range(modules) \cap Range(state.modules))
      BY <3>2, FS_Union
    <3>4. Cardinality(Range(modules) \cap Range(state.modules)) = 0
      BY <3>1, FS_EmptySet
    <3>5. Len(Enabled) = Len(modules) + Len(state.modules)
          /\ Len(modules) \in Nat /\ Len(state.modules) \in Nat
      BY <3>1 DEF Enabled
    <3>6. Cardinality(Range(modules) \cup Range(state.modules)) = Len(modules) + Len(state.modules)
      BY <3>3, <3>4, <3>5
    <3>7. Range(Enabled) = Range(modules) \cup Range(state.modules)
      BY EnabledFacts
    <3> QED BY <3>5, <3>6, <3>7
  <2>3. stage \in {"closed", "open", "destroyed"} \cup Opening \cup Anonymous
        /\ source \in [Buffers -> Buffers \cup {0}]
    BY DEF WholeInv, Steps, Places
  <2> QED BY <2>1, <2>2, <2>3 DEF Lists, Counts, Maps, Bounded, TypeOK
<1> QED BY <1>1, WholeInvariant, MapInvariant, PTL

\* Between two calls every structure is decoded by a specification that the
\* library has built in or that an enabled module brings to its type number on
\* the current platform, never by what is left of another platform, of a module
\* that is gone or of an open that has failed (dmi_types_map, dmi_close).
THEOREM MapIsSound == Spec => []MapSound
<1>1. Lists /\ Maps => MapSound
  <2> SUFFICES ASSUME Lists, Maps, Idle, NEW t \in Types,
                      NEW s \in Candidates(map[t]) \ {NoSpec, BuiltIn[t]}
               PROVE  \E a \in Asked : a.spec = s /\ a.type = t
      BY DEF MapSound
  <2>1. FromModules(map, Range(Enabled), Current)
    BY DEF Maps, Mapped, Idle
  <2>2. PICK x : Requested(Range(Enabled), Current, x) /\ x.spec = s /\ x.type = t
    BY <2>1 DEF FromModules
  <2>3. IsList(Enabled) /\ \A m \in Range(Enabled) : IsModule(m)
    <3>1. Enabled \in Seq(Range(Modules))
      BY EnabledFacts
    <3> QED BY <3>1, ListMembers, ModulesAreModules DEF IsList
  <2>4. x \in Range(Items(Enabled, Current))
    BY <2>2, <2>3, ItemsMembers
  <2> QED BY <2>2, <2>4 DEF Asked
<1> QED BY <1>1, MapInvariant, PTL

-----------------------------------------------------------------------------
(* Nothing that the enabled modules ask for is left out of the map, provided *)
(* that closing is safe                                                      *)

Hosts == Platforms \cup {NoPlatform}

HoldsAll(m, M, host) == \A x : Requested(M, host, x) => Settled(m[x.type], x)

LEMMA RequestIsProper ==
  ASSUME NEW M, M \subseteq Range(Modules), NEW host, NEW x, Requested(M, host, x)
  PROVE  x.spec # NoSpec /\ x.type \in Types
<1>1. PICK m \in M : RequestedBy(M, m, host, x)
  BY DEF Requested
<1>2. PICK s \in Range(m.entities) :
        \E t \in Numbers(M, s) : x = [spec |-> s, type |-> t, yield |-> m.yield]
  BY <1>1 DEF RequestedBy
<1> PICK t \in Numbers(M, s) : x = [spec |-> s, type |-> t, yield |-> m.yield]
  BY <1>2
<1>3. s # NoSpec /\ s.type \in Types
  BY ModulesAssumption
<1>4. t \in Types
  <2>1. CASE Moved(M, s) = {}
    BY <1>2, <1>3, <2>1 DEF Numbers
  <2>2. CASE Moved(M, s) # {}
    <3>1. t \in {r.type : r \in Moved(M, s)} \ {NoType}
      BY <1>2, <2>2 DEF Numbers
    <3>2. PICK r \in MovesOf(M) : t = r.type /\ t # NoType
      BY <3>1 DEF Moved
    <3>3. PICK other \in M : r \in Range(other.relocations)
      BY <3>2 DEF MovesOf
    <3> QED BY <3>2, <3>3, ModulesAssumption
  <2> QED BY <2>1, <2>2
<1> QED BY <1>2, <1>3, <1>4

\* A map that was made without a conflict holds all that it was made of.
LEMMA MapIsWhole ==
  ASSUME NEW mods \in Seq(Range(Modules)), NEW host, MapOf(mods, host).ok
  PROVE  HoldsAll(MapOf(mods, host).map, Range(mods), host)
<1> DEFINE items == Items(mods, host)
           plan  == Plan(items)
           S     == Requests(Range(mods))
<1>1. /\ IsList(mods) /\ Range(mods) \subseteq Range(Modules)
      /\ \A m \in Range(mods) : IsModule(m)
  BY ListMembers, ModulesAreModules DEF IsList
<1>2. items \in Seq(S) /\ \A x : x \in Range(items) <=> Requested(Range(mods), host, x)
  BY <1>1, ItemsMembers
<1> HIDE DEF items, S
<1>3. plan \in Seq(S) /\ Range(plan) = Range(items)
  BY <1>2, PlanMembers
<1>4. MapOf(mods, host) = MapAll(plan)
  BY DEF MapOf, items
<1> HIDE DEF plan
<1>5. \A j \in DOMAIN plan : Requested(Range(mods), host, plan[j])
  BY <1>2, <1>3 DEF Range
<1>6. \A j \in DOMAIN plan : plan[j].spec # NoSpec /\ plan[j].type \in Types
  BY <1>1, <1>5, RequestIsProper
<1>7. \A j \in DOMAIN plan : Settled(MapAll(plan).map[plan[j].type], plan[j])
  BY <1>3, <1>4, <1>6, MapAllSettles
<1>8. \A x : Requested(Range(mods), host, x) => \E j \in DOMAIN plan : x = plan[j]
  BY <1>2, <1>3 DEF Range
<1> QED BY <1>4, <1>7, <1>8 DEF HoldsAll

LEMMA NothingFits ==
  ASSUME NEW host PROVE MapOf(<<>>, host).ok /\ <<>> \in Orders
<1> DEFINE items == Items(<<>>, host)
           plan  == Plan(items)
           S     == Requests({})
<1>1. Range(<<>>) = {} /\ IsList(<<>>)
  BY DEF Range, IsList
<1>2. items \in Seq(S) /\ \A x : x \in Range(items) <=> Requested({}, host, x)
  BY <1>1, ItemsMembers
<1> HIDE DEF items, S
<1>3. Range(items) = {}
  BY <1>2 DEF Requested
<1>4. plan \in Seq(S) /\ Range(plan) = {}
  BY <1>2, <1>3, PlanMembers
<1> HIDE DEF plan
<1>5. plan = <<>>
  BY <1>4, ListMembers
<1>6. MapAll(plan) = Start
  <2>1. Len(plan) = 0
    BY <1>5
  <2> QED BY <1>4, <2>1, MapAllRuns
<1>7. MapOf(<<>>, host) = MapAll(plan)
  BY DEF MapOf, plan, items
<1>8. <<>> \in Injection(1 .. 0, Range(Modules)) /\ 0 \in 0 .. Len(Modules)
  BY ModulesAreModules DEF Injection, IsInjective, IsList
<1> QED BY <1>6, <1>7, <1>8 DEF Start, Orders

LEMMA DistinctIsOrder ==
  ASSUME NEW s \in Seq(Range(Modules)), Distinct(s) PROVE s \in Orders
<1>1. /\ IsFiniteSet(Range(s)) /\ Cardinality(Range(s)) = Len(s)
      /\ IsFiniteSet(Range(Modules)) /\ Cardinality(Range(Modules)) = Len(Modules)
  BY DistinctCount, ModulesAreModules DEF IsList
<1>2. Range(s) \subseteq Range(Modules)
  BY ListMembers
<1>3. Len(s) <= Len(Modules) /\ Len(s) \in Nat /\ Len(Modules) \in Nat
  <2>1. Cardinality(Range(s)) <= Cardinality(Range(Modules))
    BY <1>1, <1>2, FS_Subset
  <2>2. Len(s) \in Nat /\ Len(Modules) \in Nat
    BY ModulesAreModules, ListMembers DEF IsList
  <2> QED BY <1>1, <2>1, <2>2
<1>4. s \in Injection(1 .. Len(s), Range(Modules))
  BY DEF Injection, IsInjective, Distinct
<1>5. Len(s) \in 0 .. Len(Modules)
  BY <1>3
<1> QED BY <1>4, <1>5 DEF Orders

LEMMA EnabledIsOrder ==
  ASSUME Lists
  PROVE  /\ Enabled \in Orders /\ modules \in Orders
         /\ \A mod \in Range(Modules) : mod \notin Range(Enabled) => Append(Enabled, mod) \in Orders
<1>1. /\ modules \in Seq(Range(Modules)) /\ state.modules \in Seq(Range(Modules))
      /\ Distinct(modules) /\ Distinct(state.modules)
      /\ Range(modules) \cap Range(state.modules) = {}
  BY DEF Lists, States
<1>2. Distinct(Enabled) /\ Enabled \in Seq(Range(Modules))
  <2> DEFINE m == Len(modules)
             n == Len(state.modules)
  <2>1. /\ m \in Nat /\ n \in Nat /\ DOMAIN modules = 1 .. m /\ DOMAIN state.modules = 1 .. n
        /\ Enabled \in Seq(Range(Modules)) /\ DOMAIN Enabled = 1 .. (m + n)
        /\ \A k \in 1 .. (m + n) :
             Enabled[k] = IF k <= m THEN modules[k] ELSE state.modules[k - m]
    BY <1>1 DEF Enabled
  <2> HIDE DEF m, n
  <2> SUFFICES ASSUME NEW i \in 1 .. (m + n), NEW j \in 1 .. (m + n), Enabled[i] = Enabled[j]
               PROVE  i = j
      BY <2>1 DEF Distinct
  <2>2. \A k \in 1 .. (m + n) : /\ k \in 1 .. m <=> k <= m
                                /\ k \notin 1 .. m => k - m \in 1 .. n
    BY <2>1
  <2> DEFINE Own(k)   == k \in 1 .. m /\ Enabled[k] = modules[k]
             Added(k) == k \notin 1 .. m /\ k - m \in 1 .. n /\ Enabled[k] = state.modules[k - m]
  <2>3. Own(i) \/ Added(i)
    BY <2>1, <2>2
  <2>4. Own(j) \/ Added(j)
    BY <2>1, <2>2
  <2>5. CASE Own(i) /\ Own(j)
    BY <1>1, <2>1, <2>5 DEF Distinct
  <2>6. CASE Added(i) /\ Added(j)
    <3>1. i - m = j - m
      BY <1>1, <2>1, <2>6 DEF Distinct
    <3> QED BY <2>1, <3>1
  <2>7. \A k \in 1 .. (m + n) : /\ Own(k) => Enabled[k] \in Range(modules)
                                /\ Added(k) => Enabled[k] \in Range(state.modules)
    BY <2>1 DEF Range
  <2>8. ~(Own(i) /\ Added(j)) /\ ~(Own(j) /\ Added(i))
    BY <1>1, <2>7
  <2> QED BY <2>3, <2>4, <2>5, <2>6, <2>8
<1>3. \A mod \in Range(Modules) : mod \notin Range(Enabled) =>
        Append(Enabled, mod) \in Seq(Range(Modules)) /\ Distinct(Append(Enabled, mod))
  BY <1>2, Appended
<1> QED BY <1>1, <1>2, <1>3, DistinctIsOrder

\* The modules enabled explicitly have fitted, among others or alone, since they
\* or the platform were last changed.
Fitted ==
  \E all \in Orders, detected \in Hosts :
    Range(modules) \subseteq Range(all) /\ MapOf(all, Told(platform, detected)).ok

Complete == stage \in Mapped => HoldsAll(map, Range(Enabled), Current)

\* The map that dmi_types_map makes without a conflict.
LEMMA CompleteMade ==
  ASSUME NEW mods \in Seq(Range(Modules)), NEW host, map' = MapOf(mods, host).map,
         MapOf(mods, host).ok,
         stage' \in Mapped => Range(mods) = Range(Enabled') /\ host = Current'
  PROVE  Complete'
<1>1. HoldsAll(map', Range(mods), host)
  BY MapIsWhole
<1> HIDE DEF Mapped
<1>2. stage' \in Mapped' => HoldsAll(map', Range(Enabled'), Current')
  BY <1>1 DEF Mapped
<1> QED BY <1>2 DEF Complete

LEMMA CompleteKept ==
  ASSUME Complete, Fitted, UNCHANGED <<map, modules, platform>>, state'.modules = state.modules,
         state'.platform = state.platform, stage' \in Mapped => stage \in Mapped
  PROVE  Complete' /\ Fitted'
<1>1. Enabled' = Enabled /\ Current' = Current
  BY DEF Enabled, Current, Told
<1>2. stage' \in Mapped => HoldsAll(map', Range(Enabled'), Current')
  BY <1>1 DEF Complete
<1>3. Fitted'
  BY DEF Fitted
<1> QED BY <1>2, <1>3 DEF Complete, Mapped

LEMMA CompleteNext ==
  ASSUME ClosingIsSafe, WholeInv, Lists, Counts, Fitted, Complete, [Next]_vars
  PROVE  Fitted' /\ Complete'
<1>1. /\ Enabled \in Orders /\ modules \in Orders /\ Enabled \in Seq(Range(Modules))
      /\ Range(Enabled) = Range(modules) \cup Range(state.modules)
      /\ modules \in Seq(Range(Modules)) /\ state.platform \in Hosts /\ platform \in Hosts
  BY EnabledIsOrder, EnabledFacts DEF Lists, States, Counts, Hosts
<1>2. CASE \E i \in DOMAIN Modules : AddExtension(Modules[i])
  <2>1. PICK mod \in Range(Modules) : AddExtension(mod)
    BY <1>2 DEF Range
  <2> DEFINE all == Append(Enabled, mod)
  <2>2. /\ modules' = Append(modules, mod) /\ UNCHANGED <<stage, state, old, platform>>
        /\ mod \notin Range(Enabled)
        /\ MapOf(all, Current).ok /\ map' = MapOf(all, Current).map
    BY <2>1 DEF AddExtension, HasExtension
  <2>3. /\ all \in Orders /\ all \in Seq(Range(Modules))
        /\ Range(all) = Range(Enabled) \cup {mod}
    BY <1>1, <2>2, EnabledIsOrder, AppendedRange
  <2>4. Range(modules') = Range(modules) \cup {mod} /\ modules' \in Seq(Range(Modules))
    BY <1>1, <2>2, AppendedRange
  <2>5. Range(Enabled') = Range(all) /\ Current' = Current
    <3>1. Enabled' = modules' \o state.modules /\ Current' = Current
      BY <2>2 DEF Enabled, Current, Told
    <3>2. state.modules \in Seq(Range(Modules))
      BY DEF Lists, States
    <3>3. Range(modules' \o state.modules) = Range(modules') \cup Range(state.modules)
      BY <2>4, <3>2, Joined
    <3> QED BY <1>1, <2>3, <2>4, <3>1, <3>3
  <2> HIDE DEF all
  <2>6. Complete'
    BY <2>2, <2>3, <2>5, CompleteMade
  <2>7. MapOf(all, Told(platform, state.platform)).ok
    BY <2>2 DEF Current
  <2>8. Fitted'
    BY <1>1, <2>2, <2>3, <2>4, <2>7 DEF Fitted
  <2> QED BY <2>6, <2>8
<1>3. CASE \E p \in Platforms \cup {NoPlatform} : SetPlatform(p)
  <2>1. PICK p \in Hosts : SetPlatform(p)
    BY <1>3 DEF Hosts
  <2> DEFINE host == Told(p, state.platform)
  <2>2. /\ UNCHANGED <<stage, state, modules>> /\ platform' = p
        /\ MapOf(Enabled, host).ok /\ map' = MapOf(Enabled, host).map
    BY <2>1 DEF SetPlatform, Rebuild
  <2>3. Enabled' = Enabled /\ Current' = host
    BY <2>2 DEF Enabled, Current
  <2>4. Fitted'
    BY <1>1, <2>2 DEF Fitted
  <2> HIDE DEF host
  <2>5. Complete'
    BY <1>1, <2>2, <2>3, CompleteMade
  <2> QED BY <2>4, <2>5
<1>4. CASE Plain
  <2>1. state'.modules = state.modules /\ state'.platform = state.platform
        /\ UNCHANGED <<modules, platform, map>>
    BY <1>4, PlainKeeps
  <2>2. stage' \in Mapped => stage \in Mapped
    BY <1>4 DEF Plain, Mapped, Anonymous, SetFlags, Open, OpenBackend, ReadEntry, ReadTable,
                Scan, SetupVendor, FinishOpen, Anonymize, Rescan, NameVendorAnew,
                FinishAnonymize, FailAnonymize, Proceed
  <2> QED BY <2>1, <2>2, CompleteKept
<1>5. CASE Close \/ FailOpen
  <2>1. /\ UNCHANGED <<modules, old, platform>> /\ state' = Closed
        /\ map' = MapOf(modules, platform).map
    BY <1>5 DEF Close, FailOpen, CloseContext, Forget
  <2>2. MapOf(modules, platform).ok
    BY <1>1 DEF ClosingIsSafe, Fitted, Hosts
  <2>3. Enabled' = modules /\ Current' = platform
    <3>1. Closed.modules = <<>> /\ Closed.platform = NoPlatform /\ modules \o <<>> = modules
      BY <1>1 DEF Closed
    <3> QED BY <2>1, <3>1 DEF Enabled, Current, Told
  <2>4. Complete'
    BY <1>1, <2>1, <2>2, <2>3, CompleteMade
  <2>5. Fitted'
    BY <2>1 DEF Fitted
  <2> QED BY <2>4, <2>5
<1>6. CASE Destroy
  <2>1. modules' = <<>> /\ stage' = "destroyed"
    BY <1>6 DEF Destroy
  <2>2. Complete'
    BY <2>1 DEF Complete, Mapped, Anonymous
  <2>3. Range(<<>>) = {}
    BY DEF Range
  <2>4. \A host : MapOf(<<>>, host).ok /\ <<>> \in Orders
    BY NothingFits
  <2>5. Fitted'
    BY <1>1, <2>1, <2>3, <2>4 DEF Fitted
  <2> QED BY <2>2, <2>5
<1>7. CASE DetectPlatform \/ EnableModules
  <2>1. UNCHANGED <<modules, platform>> /\ stage' \in {"modules", "rebuild"}
    BY <1>7 DEF DetectPlatform, EnableModules, Proceed
  <2>2. Fitted'
    BY <2>1 DEF Fitted
  <2> QED BY <2>1, <2>2 DEF Complete, Mapped, Anonymous
<1>8. CASE RebuildTypes
  <2>1. /\ UNCHANGED <<modules, state, platform>> /\ MapOf(Enabled, Current).ok
        /\ map' = MapOf(Enabled, Current).map
    BY <1>8 DEF RebuildTypes, Proceed, Rebuild, Current
  <2>2. Enabled' = Enabled /\ Current' = Current
    BY <2>1 DEF Enabled, Current
  <2>3. Fitted'
    BY <2>1 DEF Fitted
  <2>4. Complete'
    BY <1>1, <2>1, <2>2, CompleteMade
  <2> QED BY <2>3, <2>4
<1>9. CASE UNCHANGED vars
  BY <1>9, CompleteKept DEF vars
<1> QED
  BY <1>2, <1>3, <1>4, <1>5, <1>6, <1>7, <1>8, <1>9 DEF Next, Plain

\* Between two calls everything that the enabled modules bring to the current
\* platform is mapped, except what a module yields to the others, whatever was
\* enabled, set, opened, failed and closed before (dmi_types_map,
\* dmi_context_close).  The map that is made on closing is not looked at, so that
\* this holds for modules that are safe to close (context.c:230), and not for any.
THEOREM MapIsComplete ==
  ASSUME ClosingIsSafe PROVE Spec => []MapComplete
<1>1. Init => Fitted /\ Complete
  <2> SUFFICES ASSUME Init PROVE Fitted /\ Complete
      OBVIOUS
  <2>1. modules = <<>> /\ state = Closed /\ map = Base /\ Range(<<>>) = {}
    BY DEF Init, Range
  <2>2. \A host : MapOf(<<>>, host).ok /\ <<>> \in Orders
    BY NothingFits
  <2>3. Fitted
    BY <2>1, <2>2 DEF Fitted, Hosts
  <2>4. Enabled = <<>>
    <3>1. Closed.modules = <<>> /\ <<>> \o <<>> = <<>>
      BY DEF Closed
    <3> QED BY <2>1, <3>1 DEF Enabled
  <2>5. Complete
    BY <2>1, <2>4 DEF Complete, HoldsAll, Requested
  <2> QED BY <2>3, <2>5
<1>2. WholeInv /\ Lists /\ Counts /\ Maps /\ (Fitted /\ Complete) /\ [Next]_vars
        => (Fitted /\ Complete)'
  BY CompleteNext
<1>3. Lists /\ Complete => MapComplete
  <2> SUFFICES ASSUME Lists, Complete, Idle, NEW a \in Asked
               PROVE  a.spec \in Candidates(map[a.type]) \/ (a.yield /\ ~Room(map[a.type], a.spec))
      BY DEF MapComplete
  <2>1. HoldsAll(map, Range(Enabled), Current)
    BY DEF Complete, Mapped, Idle
  <2>2. IsList(Enabled) /\ \A m \in Range(Enabled) : IsModule(m)
    <3>1. Enabled \in Seq(Range(Modules))
      BY EnabledFacts
    <3> QED BY <3>1, ListMembers, ModulesAreModules DEF IsList
  <2>3. Requested(Range(Enabled), Current, a)
    BY <2>2, ItemsMembers DEF Asked
  <2> QED BY <2>1, <2>3 DEF HoldsAll, Settled
<1> QED BY <1>1, <1>2, <1>3, WholeInvariant, MapInvariant, PTL DEF Spec
=============================================================================
