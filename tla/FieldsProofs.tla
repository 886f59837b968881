---------------------------- MODULE FieldsProofs ----------------------------
(***************************************************************************)
(* Proofs about the engine which reads structures, see Fields, for every   *)
(* set of specifications that keep the rules stated there, and for bodies  *)
(* of any length with any numbers in them.                                 *)
(***************************************************************************)
EXTENDS Fields, Recursions

-----------------------------------------------------------------------------
(* Sets of naturals with a bound, such as the ends of reads.               *)

IsBounded(R) == R \subseteq Nat /\ \E b \in Nat : \A r \in R : r <= b
IsEnds(R)    == IsBounded(R) /\ 0 \in R

\* The greatest member of a bounded set of naturals.
LEMMA MaxOf ==
  ASSUME NEW R, IsBounded(R), R # {}
  PROVE  Max(R) \in R /\ Max(R) \in Nat /\ \A r \in R : r <= Max(R)
<1> DEFINE U == {b \in Nat : \A r \in R : r <= b}
<1>1. R \subseteq Nat /\ U # {} /\ U \in SUBSET Nat
  BY DEF IsBounded
<1>2. PICK u \in U : \A v \in U : u <= v
  BY <1>1, Least
<1>3. u \in R
  <2> SUFFICES ASSUME u \notin R PROVE FALSE
      OBVIOUS
  <2>1. \A r \in R : r < u
    BY <1>1, <1>2
  <2>2. u # 0
    <3>1. PICK r \in R : TRUE
      OBVIOUS
    <3> QED BY <1>1, <2>1, <3>1
  <2>3. u - 1 \in Nat /\ \A r \in R : r <= u - 1
    BY <1>1, <1>2, <2>1, <2>2
  <2> QED BY <1>2, <2>3
<1>4. \E m \in R : \A r \in R : m >= r
  BY <1>1, <1>2, <1>3
<1>5. Max(R) \in R /\ \A r \in R : Max(R) >= r
  BY <1>4 DEF Max
<1> QED BY <1>1, <1>5

LEMMA TotalOf ==
  ASSUME NEW R, IsEnds(R)
  PROVE  Total(R) \in R /\ Total(R) \in Nat /\ \A r \in R : r <= Total(R)
BY MaxOf DEF IsEnds, Total

\* The total is known by being a member no other exceeds.
LEMMA TotalIs ==
  ASSUME NEW R, IsEnds(R), NEW t \in R, \A r \in R : r <= t
  PROVE  Total(R) = t
<1>1. Total(R) \in R /\ Total(R) \in Nat /\ \A r \in R : r <= Total(R)
  BY TotalOf
<1>2. t <= Total(R) /\ Total(R) <= t /\ t \in Nat
  BY <1>1 DEF IsEnds, IsBounded
<1> QED BY <1>1, <1>2

LEMMA TakenOf ==
  ASSUME NEW R, IsEnds(R), NEW n \in Nat
  PROVE  /\ Taken(R, n) \in R /\ Taken(R, n) \in Nat /\ Taken(R, n) <= n
         /\ \A r \in R : r <= n => r <= Taken(R, n)
<1> DEFINE S == {r \in R : r <= n}
<1>1. IsBounded(S)
  BY DEF IsEnds, IsBounded
<1>4. 0 \in S
  BY DEF IsEnds
<1>2. Taken(R, n) = Max(S)
  BY DEF Taken
<1> HIDE DEF S
<1>3. Max(S) \in S /\ Max(S) \in Nat /\ \A r \in S : r <= Max(S)
  BY <1>1, <1>4, MaxOf
<1> QED BY <1>2, <1>3 DEF S

LEMMA BytewiseEnds ==
  ASSUME NEW n \in Nat
  PROVE  IsEnds(Bytewise(n)) /\ Total(Bytewise(n)) = n
<1>1. Bytewise(n) \subseteq Nat /\ 0 \in Bytewise(n) /\ n \in Bytewise(n)
      /\ \A r \in Bytewise(n) : r <= n
  BY DEF Bytewise
<1>2. IsEnds(Bytewise(n))
  BY <1>1 DEF IsEnds, IsBounded
<1> QED BY <1>1, <1>2, TotalIs

LEMMA ValueEnds ==
  ASSUME NEW n \in Nat
  PROVE  IsEnds({0, n}) /\ Total({0, n}) = n
<1>1. IsEnds({0, n}) /\ n \in {0, n} /\ \A r \in {0, n} : r <= n
  BY DEF IsEnds, IsBounded
<1> QED BY <1>1, TotalIs

-----------------------------------------------------------------------------
(* Arithmetic.                                                             *)

LEMMA TimesKeepsOrder ==
  ASSUME NEW a \in Nat, NEW b \in Nat, NEW c \in Nat, a <= b
  PROVE  a * c <= b * c /\ a * c \in Nat
OBVIOUS

LEMMA NextMultiple ==
  ASSUME NEW a \in Nat, NEW c \in Nat
  PROVE  (a + 1) * c = a * c + c
OBVIOUS

LEMMA Remainder ==
  ASSUME NEW a \in Nat, NEW u \in Nat, u > 0
  PROVE  /\ a \div u \in Nat /\ a % u \in Nat /\ a % u < u
         /\ a = u * (a \div u) + (a % u)
OBVIOUS

LEMMA QuotientIs ==
  ASSUME NEW a \in Nat, NEW u \in Nat, u > 0, NEW q \in Nat, NEW r \in Nat, r < u, a = q * u + r
  PROVE  a \div u = q /\ a % u = r
OBVIOUS

LEMMA PaddingOf ==
  ASSUME NEW taken \in Nat, NEW unit \in Nat, unit > 0
  PROVE  Padding(taken, unit) \in Nat /\ Padding(taken, unit) < unit
<1> DEFINE m == taken % unit
<1>1. m \in Nat /\ m < unit
  BY Remainder
<1>2. Padding(taken, unit) = (unit - m) % unit /\ unit - m \in Nat
  BY <1>1 DEF Padding
<1> QED BY <1>2, Remainder

\* Padding makes the bits up to a number of units.
LEMMA PaddingFills ==
  ASSUME NEW taken \in Nat, NEW unit \in Nat, unit > 0
  PROVE  \E k \in Nat : taken + Padding(taken, unit) = k * unit
<1> DEFINE m == taken % unit
<1>1. PICK q \in Nat : q = taken \div unit
  BY Remainder
<1>2. m \in Nat /\ m < unit /\ taken = unit * q + m
  BY <1>1, Remainder
<1>3. Padding(taken, unit) = (unit - m) % unit
  BY DEF Padding
<1> HIDE DEF m
<1>4. CASE m = 0
  <2>1. (unit - m) % unit = 0
    BY <1>4, QuotientIs
  <2> QED BY <1>2, <1>3, <1>4, <2>1
<1>5. CASE m # 0
  <2>1. (unit - m) % unit = unit - m
    BY <1>2, <1>5, QuotientIs
  <2>2. taken + Padding(taken, unit) = unit * q + unit
    BY <1>2, <1>3, <2>1
  <2>3. (q + 1) * unit = unit * q + unit /\ q + 1 \in Nat
    OBVIOUS
  <2> QED BY <2>2, <2>3
<1> QED BY <1>4, <1>5

LEMMA BytesRead ==
  ASSUME NEW taken \in Nat, NEW bits \in Nat
  PROVE  BitsRead(taken, bits) \in Nat
BY DEF BitsRead, BytesOf

-----------------------------------------------------------------------------
(* The ends of the reads of lists of fields.                               *)

LEMMA AfterEnds ==
  ASSUME NEW R, IsBounded(R), NEW n \in Nat
  PROVE  IsBounded(After(n, R))
<1>1. PICK b \in Nat : \A r \in R : r <= b
  BY DEF IsBounded
<1>2. After(n, R) \subseteq Nat /\ \A x \in After(n, R) : x <= n + b
  BY <1>1 DEF IsBounded, After
<1> QED BY <1>1, <1>2 DEF IsBounded

LEMMA JoinedEnds ==
  ASSUME NEW R, NEW S, IsEnds(R), IsBounded(S)
  PROVE  IsEnds(R \union S)
<1>1. PICK b \in Nat : \A r \in R : r <= b
  BY DEF IsEnds, IsBounded
<1>2. PICK c \in Nat : \A r \in S : r <= c
  BY DEF IsBounded
<1>3. R \union S \subseteq Nat /\ 0 \in R \union S /\ \A x \in R \union S : x <= b + c
  BY <1>1, <1>2 DEF IsEnds, IsBounded
<1>4. b + c \in Nat
  BY <1>1, <1>2
<1> QED BY <1>3, <1>4 DEF IsEnds, IsBounded

\* What a vector of n elements takes.
LEMMA RepeatedEnds ==
  ASSUME NEW R, IsEnds(R), NEW n \in Nat
  PROVE  /\ IsBounded(Repeated(n, R))
         /\ n > 0 => IsEnds(Repeated(n, R)) /\ Total(Repeated(n, R)) = n * Total(R)
<1> DEFINE t == Total(R)
           S == Repeated(n, R)
<1>1. t \in R /\ t \in Nat /\ R \subseteq Nat /\ 0 \in R /\ \A r \in R : r <= t
  BY TotalOf DEF IsEnds, IsBounded
<1>2. \A x : x \in S <=> \E i \in 0 .. n - 1 : \E r \in R : x = (i * t) + r
  BY DEF Repeated, After
<1> HIDE DEF t, S
<1>3. n * t \in Nat
  BY <1>1
<1>4. \A i \in 0 .. n - 1 : i * t \in Nat /\ (i * t) + t <= n * t
  <2> TAKE i \in 0 .. n - 1
  <2>1. i \in Nat /\ i + 1 \in Nat /\ i + 1 <= n
    OBVIOUS
  <2>2. (i + 1) * t = (i * t) + t /\ (i + 1) * t <= n * t /\ i * t \in Nat
    BY <1>1, <2>1, NextMultiple, TimesKeepsOrder
  <2> QED BY <2>2
<1>5. S \subseteq Nat /\ \A x \in S : x <= n * t
  <2> SUFFICES ASSUME NEW x \in S PROVE x \in Nat /\ x <= n * t
      OBVIOUS
  <2>1. PICK i \in 0 .. n - 1 : \E r \in R : x = (i * t) + r
    BY <1>2
  <2>2. PICK r \in R : x = (i * t) + r
    BY <2>1
  <2>3. PICK it \in Nat : it = i * t
    BY <1>4
  <2>4. it + t <= n * t /\ r \in Nat /\ r <= t /\ x = it + r
    BY <1>1, <1>4, <2>2, <2>3
  <2> QED BY <1>1, <1>3, <2>4
<1>6. IsBounded(S)
  BY <1>3, <1>5 DEF IsBounded
<1>7. ASSUME n > 0 PROVE IsEnds(S) /\ Total(S) = n * t
  <2>1. 0 \in 0 .. n - 1 /\ 0 = (0 * t) + 0
    BY <1>1, <1>7
  <2>2. 0 \in S
    BY <1>1, <1>2, <2>1
  <2>3. n - 1 \in 0 .. n - 1 /\ n - 1 \in Nat
    BY <1>7
  <2>4. ((n - 1) + 1) * t = ((n - 1) * t) + t
    BY <1>1, <2>3, NextMultiple
  <2>5. n * t \in S
    BY <1>1, <1>2, <2>3, <2>4
  <2>6. IsEnds(S)
    BY <1>6, <2>2 DEF IsEnds
  <2> QED BY <1>5, <2>5, <2>6, TotalIs
<1> QED BY <1>6, <1>7 DEF S, t

\* Fields whose reads are known by their widths, as the elements of arrays
\* and vectors have them.
IsNested(f) ==
  /\ f.bits \in Nat /\ f.length \in Nat
  /\ f.kind = "pad" => f.bits > 0

Reading == [ends : {R \in SUBSET Nat : IsEnds(R)}, taken : Nat]

LEMMA ReadOnEnds ==
  ASSUME NEW r \in Reading, NEW f, IsNested(f), NEW vector, IsBounded(vector)
  PROVE  ReadOn(r, f, vector) \in Reading
<1> DEFINE more == CASE f.kind = "bits"   -> Bytewise(BitsRead(r.taken, f.bits))
                     [] f.kind = "pad"    -> Bytewise(BitsRead(r.taken, Padding(r.taken, f.bits)))
                     [] f.kind = "vector" -> vector
                     [] OTHER             -> {f.length}
           taken == CASE f.kind = "bits" -> r.taken + f.bits
                      [] f.kind = "pad"  -> 0
                      [] OTHER           -> r.taken
<1>1. r.taken \in Nat /\ IsEnds(r.ends) /\ f.bits \in Nat /\ f.length \in Nat
  BY DEF Reading, IsNested
<1>2. IsBounded(more)
  <2>1. CASE f.kind = "bits"
    <3>1. more = Bytewise(BitsRead(r.taken, f.bits))
      BY <2>1
    <3> QED BY <1>1, <3>1, BytesRead, BytewiseEnds DEF IsEnds
  <2>2. CASE f.kind = "pad"
    <3>1. more = Bytewise(BitsRead(r.taken, Padding(r.taken, f.bits)))
      BY <2>2
    <3>2. Padding(r.taken, f.bits) \in Nat
      BY <1>1, <2>2, PaddingOf DEF IsNested
    <3> QED BY <1>1, <3>1, <3>2, BytesRead, BytewiseEnds DEF IsEnds
  <2>3. CASE f.kind = "vector"
    BY <2>3
  <2>4. CASE f.kind \notin {"bits", "pad", "vector"}
    <3>1. more = {f.length}
      BY <2>4
    <3> QED BY <1>1, <3>1 DEF IsBounded
  <2> QED BY <2>1, <2>2, <2>3, <2>4
<1>3. taken \in Nat
  BY <1>1
<1>4. ReadOn(r, f, vector) = [ends |-> r.ends \union After(Total(r.ends), more), taken |-> taken]
  BY DEF ReadOn
<1> HIDE DEF more, taken
<1>5. IsEnds(r.ends \union After(Total(r.ends), more))
  BY <1>1, <1>2, TotalOf, AfterEnds, JoinedEnds
<1> DEFINE ends == r.ends \union After(Total(r.ends), more)
<1>6. ends \in SUBSET Nat
  BY <1>5 DEF IsEnds, IsBounded
<1>7. IsEnds(ends) /\ ReadOn(r, f, vector) = [ends |-> ends, taken |-> taken]
  BY <1>4, <1>5
<1> HIDE DEF ends
<1> QED BY <1>3, <1>6, <1>7 DEF Reading

LEMMA EndsOf ==
  ASSUME NEW fields, IsList(fields), \A k \in DOMAIN fields : IsNested(fields[k]),
         NEW vectors, \A k \in DOMAIN fields : IsBounded(vectors[k])
  PROVE  IsEnds(Ends(fields, vectors))
<1> DEFINE n     == Len(fields)
           start == [ends |-> {0}, taken |-> 0]
           step  == [p \in Reading \X (1 .. n) |-> ReadOn(p[1], fields[p[2]], vectors[p[2]])]
<1>1. n \in Nat /\ DOMAIN fields = 1 .. n
  BY DEF IsList
<1>2. start \in Reading
  BY DEF Reading, IsEnds, IsBounded
<1>3. \A r \in Reading, k \in 1 .. n : ReadOn(r, fields[k], vectors[k]) \in Reading
  BY <1>1, ReadOnEnds
<1> HIDE DEF start
<1>4. \E f : f = [k \in 0 .. n |-> IF k = 0 THEN start ELSE ReadOn(f[k - 1], fields[k], vectors[k])]
  <2>1. \A r \in Reading, k \in 1 .. n : step[<<r, k>>] = ReadOn(r, fields[k], vectors[k])
    OBVIOUS
  <2>2. step \in [Reading \X (1 .. n) -> Reading]
    BY <1>3
  <2> HIDE DEF step
  <2>3. PICK f : f \in Runs(Reading, start, step, n)
    BY <1>1, <1>2, <2>2, RunExists
  <2>4. f \in [0 .. n -> Reading] /\ f[0] = start /\ \A k \in 1 .. n : f[k] = step[<<f[k - 1], k>>]
    BY <2>3 DEF Runs
  <2>5. \A k \in 1 .. n : f[k] = ReadOn(f[k - 1], fields[k], vectors[k])
    <3> TAKE k \in 1 .. n
    <3>1. k - 1 \in 0 .. n
      BY <1>1
    <3> QED BY <2>1, <2>4, <3>1
  <2>6. f = [k \in 0 .. n |-> IF k = 0 THEN start ELSE ReadOn(f[k - 1], fields[k], vectors[k])]
    <3>1. \A k \in 0 .. n : k = 0 \/ k \in 1 .. n
      BY <1>1
    <3> QED BY <2>4, <2>5, <3>1
  <2> QED BY <2>6
<1> DEFINE f == CHOOSE g : g = [k \in 0 .. n |-> IF k = 0 THEN start
                                                 ELSE ReadOn(g[k - 1], fields[k], vectors[k])]
<1>5. f = [k \in 0 .. n |-> IF k = 0 THEN start ELSE ReadOn(f[k - 1], fields[k], vectors[k])]
  BY <1>4
<1>6. Ends(fields, vectors) = f[n].ends
  BY DEF Ends, start
<1> HIDE DEF f
<1> DEFINE Good == {k \in 0 .. n : f[k] \in Reading}
<1>7. 0 \in Good
  BY <1>1, <1>2, <1>5
<1>8. \A k \in 1 .. n : k - 1 \in Good => k \in Good
  <2> SUFFICES ASSUME NEW k \in 1 .. n, k - 1 \in Good PROVE k \in Good
      OBVIOUS
  <2>1. k \in 0 .. n /\ k # 0
    BY <1>1
  <2>2. f[k] = ReadOn(f[k - 1], fields[k], vectors[k]) /\ f[k - 1] \in Reading
    BY <1>5, <2>1
  <2> QED BY <1>3, <2>1, <2>2
<1> HIDE DEF Good
<1>9. n \in Good
  <2>1. \A k \in 0 .. n : k \in Good
    BY <1>1, <1>7, <1>8, StepByStep
  <2> QED BY <1>1, <2>1
<1> QED BY <1>6, <1>9 DEF Good, Reading

\* The ends of the reads of an element of a specification.
LEMMA ElementEndsOf ==
  ASSUME NEW f, IsField(f), NestedArePlain(f)
  PROVE  IsEnds(ElementEnds(f.fields))
<1>1. \A k \in DOMAIN f.fields : IsNested(f.fields[k])
  BY DEF NestedArePlain, IsField, IsNested, Range
<1>2. ASSUME NEW k \in DOMAIN f.fields
      PROVE  IsBounded(VectorEnds(f.fields[k]))
  <2> DEFINE g == f.fields[k]
  <2>1. IsField(g) /\ \A h \in Range(g.fields) : IsField(h) /\ h.length \in Nat
    BY <1>2 DEF NestedArePlain, Range
  <2> HIDE DEF g
  <2>2. IsList(g.fields) /\ g.count \in Nat
    BY <2>1 DEF IsField
  <2>3. \A j \in DOMAIN g.fields : IsNested(g.fields[j])
    BY <2>1 DEF IsField, IsNested, Range
  <2>4. \A j \in DOMAIN g.fields : IsBounded([i \in DOMAIN g.fields |-> {}][j])
    BY DEF IsBounded
  <2>5. IsEnds(Ends(g.fields, [i \in DOMAIN g.fields |-> {}]))
    BY <2>2, <2>3, <2>4, EndsOf
  <2>6. IsBounded(VectorEnds(g))
    BY <2>2, <2>5, RepeatedEnds DEF VectorEnds
  <2> QED BY <2>6 DEF g
<1>3. IsList(f.fields)
  BY DEF IsField
<1> DEFINE vectors == [k \in DOMAIN f.fields |-> VectorEnds(f.fields[k])]
<1>4. \A k \in DOMAIN f.fields : IsBounded(vectors[k])
  BY <1>2
<1>5. ElementEnds(f.fields) = Ends(f.fields, vectors)
  BY DEF ElementEnds
<1> HIDE DEF vectors
<1> QED BY <1>1, <1>3, <1>4, <1>5, EndsOf

-----------------------------------------------------------------------------
(* Where the fields begin.                                                 *)

\* A specification as the engine has it.
WellFormed(s) ==
  /\ s.since \in Nat /\ s.minimum \in Nat /\ s.minimum >= HeaderLength
  /\ IsList(s.fields) /\ FieldRules(s.fields) /\ VersionRules(s)
  /\ s.reads = [i \in DOMAIN s.fields |-> ElementEnds(s.fields[i].fields)]

\* A structure the engine has been given.
Given == WellFormed(spec) /\ body \in Body /\ table \in Nat

Place == [bit : Nat, taken : Nat]

LEMMA FieldsOfGiven ==
  ASSUME Given
  PROVE  /\ Len(Fields) \in Nat /\ DOMAIN Fields = 1 .. Len(Fields)
         /\ \A i \in DOMAIN Fields :
              /\ IsField(Fields[i]) /\ NestedArePlain(Fields[i])
              /\ IsEnds(Reads(i)) /\ ElementSize(i) \in Nat
              /\ Fields[i].kind = "array" =>
                   /\ ElementSize(i) > 0
                   /\ Fields[i].count_length = 0 => Fields[i].stride_length = 0 /\ Fields[i].stride > 0
                   /\ Fields[i].stride_length = 0 =>
                        /\ Fields[i].stride_minimum = 0
                        /\ Fields[i].stride = 0 \/ Fields[i].stride >= ElementSize(i)
                   /\ Fields[i].stride_length # 0 => Fields[i].stride_minimum >= ElementSize(i)
<1>1. Len(Fields) \in Nat /\ DOMAIN Fields = 1 .. Len(Fields)
  BY DEF Given, WellFormed, IsList, Fields
<1>2. ASSUME NEW i \in DOMAIN Fields
      PROVE  /\ IsField(Fields[i]) /\ NestedArePlain(Fields[i])
             /\ Fields[i].kind = "array" => ArrayRules(Fields[i])
             /\ Reads(i) = ElementEnds(Fields[i].fields)
  BY DEF Given, WellFormed, FieldRules, Fields, Range, Reads
<1>3. ASSUME NEW i \in DOMAIN Fields
      PROVE  IsEnds(Reads(i)) /\ ElementSize(i) \in Nat
  BY <1>2, ElementEndsOf, TotalOf DEF ElementSize
<1>4. ASSUME NEW i \in DOMAIN Fields, Fields[i].kind = "array"
      PROVE  /\ ElementSize(i) > 0
             /\ Fields[i].count_length = 0 => Fields[i].stride_length = 0 /\ Fields[i].stride > 0
             /\ Fields[i].stride_length = 0 =>
                  /\ Fields[i].stride_minimum = 0
                  /\ Fields[i].stride = 0 \/ Fields[i].stride >= ElementSize(i)
             /\ Fields[i].stride_length # 0 => Fields[i].stride_minimum >= ElementSize(i)
  <2>1. ElementSize(i) = Total(ElementEnds(Fields[i].fields))
    BY <1>2 DEF ElementSize
  <2> QED BY <1>2, <1>4, <2>1 DEF ArrayRules
<1> QED BY <1>1, <1>2, <1>3, <1>4

\* Numbers of an array, as the data has them.
LEMMA ArrayNumbers ==
  ASSUME Given, NEW i \in DOMAIN Fields, Fields[i].kind = "array", NEW start \in Nat
  PROVE  /\ Stride(Fields[i]) \in Nat /\ Step(i) \in Nat /\ Step(i) >= Stride(Fields[i])
         /\ Elements(Fields[i], start) \in Nat
         /\ Fields[i].count_length \in Nat /\ Fields[i].stride_length \in Nat
         /\ ~ArrayIsSkipped(Fields[i], Stride(Fields[i])) => Step(i) >= ElementSize(i) /\ Step(i) > 0
<1> DEFINE f == Fields[i]
<1>1. IsField(f) /\ ElementSize(i) \in Nat /\ ElementSize(i) > 0
      /\ (f.count_length = 0 => f.stride_length = 0 /\ f.stride > 0)
      /\ (f.stride_length = 0 => f.stride_minimum = 0 /\ (f.stride = 0 \/ f.stride >= ElementSize(i)))
      /\ (f.stride_length # 0 => f.stride_minimum >= ElementSize(i))
  BY FieldsOfGiven
<1>2. {f.count_length, f.stride_length, f.stride, f.stride_minimum} \subseteq Nat
  BY <1>1 DEF IsField
<1>3. body.length \in Nat /\ body.count \in Nat /\ body.stride \in Nat
  BY DEF Given, Body
<1> HIDE DEF f
<1>4. Stride(f) \in Nat
  BY <1>2, <1>3 DEF Stride
<1>5. Step(i) = IF Stride(f) = 0 THEN ElementSize(i) ELSE Stride(f)
  BY DEF Step, f
<1>6. Elements(f, start) \in Nat
  <2>1. CASE f.count_length = 0
    <3>1. Larger(body.length - start, 0) \in Nat
      BY <1>3 DEF Larger
    <3> QED BY <1>1, <1>2, <2>1, <3>1, Remainder DEF Elements
  <2>2. CASE f.count_length # 0
    BY <2>2, <1>3 DEF Elements
  <2> QED BY <2>1, <2>2
<1>7. ASSUME ~ArrayIsSkipped(f, Stride(f)) PROVE Step(i) >= ElementSize(i) /\ Step(i) > 0
  <2>1. CASE f.stride_length = 0
    <3>1. Stride(f) = f.stride
      BY <2>1 DEF Stride
    <3> QED BY <1>1, <1>2, <1>5, <2>1, <3>1
  <2>2. CASE f.stride_length # 0
    <3>1. f.stride_minimum >= ElementSize(i) /\ f.stride_minimum # 0
      BY <1>1, <1>2, <2>2
    <3>2. Stride(f) >= f.stride_minimum
      BY <1>2, <1>4, <1>7, <3>1 DEF ArrayIsSkipped
    <3> QED BY <1>1, <1>2, <1>4, <1>5, <3>1, <3>2
  <2> QED BY <2>1, <2>2
<1> QED BY <1>1, <1>2, <1>4, <1>5, <1>6, <1>7 DEF f

LEMMA ExtentIsNat ==
  ASSUME Given, NEW i \in DOMAIN Fields, NEW start \in Nat
  PROVE  Extent(i, start) \in Nat
<1> DEFINE f == Fields[i]
<1>1. IsField(f) /\ ElementSize(i) \in Nat
  BY FieldsOfGiven
<1>2. body.length \in Nat /\ body.declared \in Nat
  BY DEF Given, Body
<1>9. f.kind # "binary" => f.length # Rest /\ f.length # Declared
  BY <1>1 DEF IsField
<1>3. CASE f.kind \in {"offset", "preset", "group"}
  BY <1>3, <1>9 DEF Extent
<1>4. CASE f.kind = "vector"
  <2>1. Extent(i, start) = f.count * ElementSize(i)
    BY <1>4, <1>9 DEF Extent
  <2> QED BY <1>1, <2>1 DEF IsField
<1>5. CASE f.kind = "array"
  <2> DEFINE header == f.count_length + f.stride_length
             room   == Larger(body.length - start - header, 0)
             n      == Elements(f, start)
  <2>1. Extent(i, start) = header + IF ArrayIsSkipped(f, Stride(f))
                                      THEN Smaller(n * Stride(f), room) ELSE n * Step(i)
    BY <1>5, <1>9 DEF Extent
  <2>2. header \in Nat /\ n \in Nat /\ Stride(f) \in Nat /\ Step(i) \in Nat
    BY <1>5, ArrayNumbers
  <2>3. room \in Nat
    BY <1>2, <2>2 DEF Larger
  <2> HIDE DEF header, room, n
  <2>4. n * Stride(f) \in Nat /\ n * Step(i) \in Nat
    BY <2>2
  <2> QED BY <2>1, <2>2, <2>3, <2>4 DEF Smaller
<1>6. CASE f.kind \notin {"offset", "preset", "group", "vector", "array"}
  <2>1. Extent(i, start) = CASE f.length = Rest -> Larger(body.length - start, 0)
                             [] f.length = Declared -> body.declared
                             [] OTHER -> f.length
    BY <1>6 DEF Extent
  <2>2. f.length \in Nat \/ f.length = Rest \/ f.length = Declared
    BY <1>1 DEF IsField
  <2> QED BY <1>2, <2>1, <2>2 DEF Larger, Rest, Declared
<1> QED BY <1>3, <1>4, <1>5, <1>6

\* Every field begins a number of whole bytes, and the bits of its unit,
\* after the first.
IsPlaced(p) == p \in Place /\ \E k \in Nat : k >= HeaderLength /\ p.bit = 8 * k + p.taken

LEMMA BeginAfterOf ==
  ASSUME Given, NEW i \in DOMAIN Fields, NEW p, IsPlaced(p)
  PROVE  IsPlaced(BeginAfter(p, i)) /\ BeginAfter(p, i).bit >= p.bit
<1> DEFINE f == Fields[i]
           x == Extent(i, p.bit \div 8)
           q == BeginAfter(p, i)
<1>1. PICK k \in Nat : k >= HeaderLength /\ p.bit = 8 * k + p.taken
  BY DEF IsPlaced
<1>2. p.bit \in Nat /\ p.taken \in Nat /\ p = [bit |-> p.bit, taken |-> p.taken]
  BY DEF IsPlaced, Place
<1>3. IsField(f)
  BY FieldsOfGiven
<1>4. x \in Nat
  BY <1>2, ExtentIsNat
<1>5. q = Begin(p, f, table, x)
  BY DEF BeginAfter
<1> HIDE DEF f, x, q
<1>6. CASE f.kind = "bits" /\ ~IsDefined(f, table)
  <2>1. q = p
    BY <1>5, <1>6 DEF Begin
  <2> QED BY <1>2, <2>1 DEF q
<1>7. CASE f.kind = "bits" /\ IsDefined(f, table)
  <2>1. q = [bit |-> p.bit + f.bits, taken |-> p.taken + f.bits] /\ f.bits \in Nat
    BY <1>3, <1>5, <1>7 DEF Begin, IsField
  <2>2. q.bit = p.bit + f.bits /\ q.taken = p.taken + f.bits /\ q \in Place
    BY <1>2, <2>1 DEF Place
  <2>3. q.bit = 8 * k + q.taken
    BY <1>1, <1>2, <2>1, <2>2
  <2>4. IsPlaced(q) /\ q.bit >= p.bit
    BY <1>1, <1>2, <2>1, <2>2, <2>3 DEF IsPlaced
  <2> QED BY <2>4 DEF q
<1>8. CASE f.kind = "pad"
  <2>1. f.bits \in Nat /\ f.bits > 0 /\ f.bits % 8 = 0
    BY <1>3, <1>8 DEF IsField
  <2>2. PICK n \in Nat : n = Padding(p.taken, f.bits)
    BY <1>2, <2>1, PaddingOf
  <2>3. q = [bit |-> p.bit + n, taken |-> 0]
    BY <1>5, <1>8, <2>2 DEF Begin
  <2>4. PICK m \in Nat : p.taken + n = m * f.bits
    BY <1>2, <2>1, <2>2, PaddingFills
  <2>5. PICK b \in Nat : f.bits = 8 * b
    BY <2>1
  <2>6. PICK c \in Nat : c = m * b
    OBVIOUS
  <2>7. p.taken + n = 8 * c
    BY <2>4, <2>5, <2>6
  <2>8. q.bit = p.bit + n /\ q.taken = 0 /\ q \in Place
    BY <1>2, <2>3 DEF Place
  <2>9. q.bit = 8 * (k + c) + q.taken /\ k + c \in Nat /\ k + c >= HeaderLength
    BY <1>1, <1>2, <2>7, <2>8 DEF HeaderLength
  <2>10. IsPlaced(q) /\ q.bit >= p.bit
    BY <1>2, <2>8, <2>9 DEF IsPlaced
  <2> QED BY <2>10 DEF q
<1>9. CASE f.kind \notin {"bits", "pad"}
  <2>1. q = [p EXCEPT !.bit = @ + 8 * x]
    BY <1>5, <1>9 DEF Begin
  <2>2. q.bit = p.bit + 8 * x /\ q.taken = p.taken /\ q \in Place
    BY <1>2, <1>4, <2>1 DEF Place
  <2>3. q.bit = 8 * (k + x) + q.taken /\ k + x \in Nat /\ k + x >= HeaderLength
    BY <1>1, <1>2, <1>4, <2>2 DEF HeaderLength
  <2>4. IsPlaced(q) /\ q.bit >= p.bit
    BY <1>2, <1>4, <2>2, <2>3 DEF IsPlaced
  <2> QED BY <2>4 DEF q
<1> QED BY <1>6, <1>7, <1>8, <1>9

\* Places of fields follow from one another.
LEMMA BeginsOf ==
  ASSUME Given
  PROVE  /\ Begins[1] = FirstBegins
         /\ \A i \in DOMAIN Fields : Begins[i + 1] = BeginAfter(Begins[i], i)
         /\ \A i \in 1 .. Len(Fields) + 1 : IsPlaced(Begins[i])
<1> DEFINE n     == Len(Fields)
           Lists == {s \in Seq(Place) : Len(s) > 0 /\ \A i \in 1 .. Len(s) : IsPlaced(s[i])}
           start == <<FirstBegins>>
           step  == [p \in Lists \X (1 .. n) |-> Begun(p[1], p[2])]
<1>1. n \in Nat /\ DOMAIN Fields = 1 .. n
  BY FieldsOfGiven
<1>2. start \in Lists /\ Len(start) = 1 /\ start[1] = FirstBegins
  <2>1. FirstBegins.bit = 8 * HeaderLength + FirstBegins.taken /\ FirstBegins \in Place
        /\ HeaderLength \in Nat
    BY DEF FirstBegins, Place, HeaderLength
  <2>2. HeaderLength >= HeaderLength
    BY <2>1
  <2>3. IsPlaced(FirstBegins)
    BY <2>1, <2>2 DEF IsPlaced
  <2>4. <<FirstBegins>> \in Seq(Place) /\ Len(<<FirstBegins>>) = 1 /\ <<FirstBegins>>[1] = FirstBegins
    BY <2>1
  <2> QED BY <2>3, <2>4
<1>3. ASSUME NEW s \in Lists, NEW k \in 1 .. n
      PROVE  /\ Begun(s, k) \in Lists /\ Len(Begun(s, k)) = Len(s) + 1
             /\ \A i \in 1 .. Len(s) : Begun(s, k)[i] = s[i]
             /\ Begun(s, k)[Len(s) + 1] = BeginAfter(s[Len(s)], k)
  <2> DEFINE q == BeginAfter(s[Len(s)], k)
  <2>1. s \in Seq(Place) /\ Len(s) > 0 /\ Len(s) \in Nat /\ \A i \in 1 .. Len(s) : IsPlaced(s[i])
    OBVIOUS
  <2>2. IsPlaced(q)
    BY <1>1, <2>1, BeginAfterOf
  <2>3. Begun(s, k) = Append(s, q)
    BY <2>1 DEF Begun, Last
  <2>4. q \in Place
    BY <2>2 DEF IsPlaced
  <2> HIDE DEF q
  <2>5. /\ Append(s, q) \in Seq(Place) /\ Len(Append(s, q)) = Len(s) + 1
        /\ \A i \in 1 .. Len(s) : Append(s, q)[i] = s[i]
        /\ Append(s, q)[Len(s) + 1] = q
    BY <2>1, <2>4
  <2>6. \A i \in 1 .. Len(s) + 1 : IsPlaced(Append(s, q)[i])
    <3> TAKE i \in 1 .. Len(s) + 1
    <3>1. i \in 1 .. Len(s) \/ i = Len(s) + 1
      BY <2>1
    <3> QED BY <2>1, <2>2, <2>5, <3>1
  <2>7. Append(s, q) \in Lists
    <3> DEFINE t == Append(s, q)
    <3>1. t \in Seq(Place) /\ Len(t) = Len(s) + 1 /\ Len(t) > 0
      BY <2>1, <2>5
    <3>2. \A i \in 1 .. Len(t) : IsPlaced(t[i])
      BY <2>6, <3>1
    <3> HIDE DEF t
    <3>3. t \in Lists
      BY <3>1, <3>2
    <3> QED BY <3>3 DEF t
  <2> HIDE DEF Lists
  <2> QED BY <2>3, <2>5, <2>7 DEF q
<1> HIDE DEF start, Lists
<1>4. \E f : f = [k \in 0 .. n |-> IF k = 0 THEN start ELSE Begun(f[k - 1], k)]
  <2>1. \A s \in Lists, k \in 1 .. n : step[<<s, k>>] = Begun(s, k)
    OBVIOUS
  <2>2. step \in [Lists \X (1 .. n) -> Lists]
    BY <1>3
  <2> HIDE DEF step
  <2>3. PICK f : f \in Runs(Lists, start, step, n)
    BY <1>1, <1>2, <2>2, RunExists
  <2>4. f \in [0 .. n -> Lists] /\ f[0] = start /\ \A k \in 1 .. n : f[k] = step[<<f[k - 1], k>>]
    BY <2>3 DEF Runs
  <2>5. \A k \in 1 .. n : f[k] = Begun(f[k - 1], k)
    <3> TAKE k \in 1 .. n
    <3>1. k - 1 \in 0 .. n
      BY <1>1
    <3> QED BY <2>1, <2>4, <3>1
  <2>6. f = [k \in 0 .. n |-> IF k = 0 THEN start ELSE Begun(f[k - 1], k)]
    <3>1. \A k \in 0 .. n : k = 0 \/ k \in 1 .. n
      BY <1>1
    <3> QED BY <2>4, <2>5, <3>1
  <2> QED BY <2>6
<1> DEFINE f == CHOOSE g : g = [k \in 0 .. n |-> IF k = 0 THEN start ELSE Begun(g[k - 1], k)]
<1>5. f = [k \in 0 .. n |-> IF k = 0 THEN start ELSE Begun(f[k - 1], k)]
  BY <1>4
<1>6. Begins = f[n]
  BY DEF Begins, start
<1> HIDE DEF f
<1> DEFINE Good == {k \in 0 .. n : /\ f[k] \in Lists /\ Len(f[k]) = k + 1 /\ f[k][1] = FirstBegins
                                   /\ \A i \in 1 .. k : f[k][i + 1] = BeginAfter(f[k][i], i)}
<1>7. 0 \in Good
  <2>1. f[0] = start /\ 0 \in 0 .. n
    BY <1>1, <1>5
  <2> QED BY <1>2, <2>1
<1>8. \A k \in 1 .. n : k - 1 \in Good => k \in Good
  <2> SUFFICES ASSUME NEW k \in 1 .. n, k - 1 \in Good PROVE k \in Good
      OBVIOUS
  <2>1. k \in 0 .. n /\ k # 0 /\ k \in Nat
    BY <1>1
  <2> DEFINE s == f[k - 1]
  <2>2. f[k] = Begun(s, k) /\ s \in Lists /\ Len(s) = k /\ s[1] = FirstBegins
        /\ \A i \in 1 .. k - 1 : s[i + 1] = BeginAfter(s[i], i)
    BY <1>5, <2>1
  <2> HIDE DEF s, Good
  <2>3. /\ f[k] \in Lists /\ Len(f[k]) = k + 1
        /\ \A i \in 1 .. k : f[k][i] = s[i]
        /\ f[k][k + 1] = BeginAfter(s[k], k)
    <3>1. /\ Begun(s, k) \in Lists /\ Len(Begun(s, k)) = Len(s) + 1
          /\ \A i \in 1 .. Len(s) : Begun(s, k)[i] = s[i]
          /\ Begun(s, k)[Len(s) + 1] = BeginAfter(s[Len(s)], k)
      BY <1>3, <2>2
    <3> QED BY <2>2, <3>1
  <2>4. \A i \in 1 .. k : f[k][i + 1] = BeginAfter(f[k][i], i)
    <3> TAKE i \in 1 .. k
    <3>1. CASE i = k
      BY <3>1, <2>1, <2>3
    <3>2. CASE i # k
      <4>1. i \in 1 .. k - 1 /\ i + 1 \in 1 .. k
        BY <2>1, <3>2
      <4> QED BY <4>1, <2>2, <2>3
    <3> QED BY <3>1, <3>2
  <2>5. f[k][1] = FirstBegins
    BY <2>1, <2>2, <2>3
  <2> QED BY <2>1, <2>3, <2>4, <2>5 DEF Good
<1> HIDE DEF Good
<1>9. n \in Good
  <2>1. \A k \in 0 .. n : k \in Good
    BY <1>1, <1>7, <1>8, StepByStep
  <2> QED BY <1>1, <2>1
<1>10. /\ Begins \in Lists /\ Len(Begins) = n + 1 /\ Begins[1] = FirstBegins
       /\ \A i \in 1 .. n : Begins[i + 1] = BeginAfter(Begins[i], i)
  BY <1>6, <1>9 DEF Good
<1> QED BY <1>1, <1>10 DEF Lists

\* The place a field begins at, and the byte the reads before it go to.
At(i)   == Begins[i]
Byte(i) == BytesOf(At(i).bit)

LEMMA BytesOfBits ==
  /\ \A k, t \in Nat : BytesOf(8 * k + t) = k + BytesOf(t) /\ BytesOf(t) \in Nat
  /\ \A k \in Nat : BytesOf(8 * k) = k /\ (8 * k) \div 8 = k
  /\ \A s, t \in Nat : s <= t => BytesOf(s) <= BytesOf(t)
BY DEF BytesOf

LEMMA BeginsGrow ==
  ASSUME Given, NEW i \in 1 .. Len(Fields) + 1, NEW j \in 1 .. Len(Fields) + 1, i <= j
  PROVE  At(i).bit <= At(j).bit /\ Byte(i) <= Byte(j)
<1> DEFINE n == Len(Fields)
           Good == {k \in 0 .. n : \A l \in 1 .. k + 1 : At(l).bit <= At(k + 1).bit}
<1>1. n \in Nat /\ DOMAIN Fields = 1 .. n
  BY FieldsOfGiven
<1>2. \A k \in 1 .. n + 1 : At(k).bit \in Nat /\ IsPlaced(At(k))
  BY BeginsOf DEF At, IsPlaced, Place
<1>3. \A k \in 1 .. n : At(k).bit <= At(k + 1).bit
  <2> TAKE k \in 1 .. n
  <2>1. IsPlaced(At(k)) /\ At(k + 1) = BeginAfter(At(k), k)
    BY <1>1, BeginsOf DEF At
  <2> QED BY <1>1, <1>2, <2>1, BeginAfterOf
<1>4. 0 \in Good
  <2>1. \A l \in 1 .. 0 + 1 : l = 0 + 1
    OBVIOUS
  <2>2. 0 + 1 \in 1 .. n + 1 /\ 0 \in 0 .. n
    BY <1>1
  <2> QED BY <1>2, <2>1, <2>2
<1>5. \A k \in 1 .. n : k - 1 \in Good => k \in Good
  <2> SUFFICES ASSUME NEW k \in 1 .. n, k - 1 \in Good PROVE k \in Good
      OBVIOUS
  <2>1. \A l \in 1 .. k : At(l).bit <= At(k).bit
    BY <1>1
  <2>2. \A l \in 1 .. k + 1 : At(l).bit <= At(k + 1).bit
    <3> TAKE l \in 1 .. k + 1
    <3>1. l \in 1 .. n + 1 /\ k \in 1 .. n + 1 /\ k + 1 \in 1 .. n + 1
      BY <1>1
    <3>2. CASE l = k + 1
      BY <1>2, <3>1, <3>2
    <3>3. CASE l # k + 1
      <4>1. l \in 1 .. k
        BY <1>1, <3>3
      <4> QED BY <1>2, <1>3, <2>1, <3>1, <4>1
    <3> QED BY <3>2, <3>3
  <2> QED BY <1>1, <2>2
<1> HIDE DEF Good
<1>6. \A k \in 0 .. n : k \in Good
  BY <1>1, <1>4, <1>5, StepByStep
<1>7. At(i).bit <= At(j).bit
  <2>1. j - 1 \in 0 .. n /\ i \in 1 .. (j - 1) + 1 /\ (j - 1) + 1 = j
    BY <1>1
  <2> QED BY <1>6, <2>1 DEF Good
<1> QED BY <1>2, <1>7, BytesOfBits DEF Byte

\* Fields other than ranges of bits, and the end of the fields, are at whole
\* bytes.
LEMMA BeginsWhole ==
  ASSUME Given, NEW i \in 1 .. Len(Fields) + 1,
         i \in DOMAIN Fields => Fields[i].kind \notin {"bits", "pad"}
  PROVE  /\ At(i).taken = 0 /\ Byte(i) \in Nat /\ Byte(i) >= HeaderLength
         /\ At(i).bit = 8 * Byte(i) /\ At(i).bit \div 8 = Byte(i)
<1> DEFINE n == Len(Fields)
           Good == {k \in 0 .. n : (k = 0 \/ Fields[k].kind # "bits") => At(k + 1).taken = 0}
<1>1. n \in Nat /\ DOMAIN Fields = 1 .. n
  BY FieldsOfGiven
<1>2. \A k \in 1 .. n : At(k + 1) = BeginAfter(At(k), k) /\ At(k) \in Place
  BY <1>1, BeginsOf DEF At, IsPlaced
<1>3. \A k \in 1 .. n : Fields[k].kind = "bits" => k < n /\ Fields[k + 1].kind \in {"bits", "pad"}
  BY <1>1 DEF Given, WellFormed, FieldRules, Fields
<1>4. 0 \in Good
  BY <1>1, BeginsOf DEF At, FirstBegins
<1>5. \A k \in 1 .. n : k - 1 \in Good => k \in Good
  <2> SUFFICES ASSUME NEW k \in 1 .. n, k - 1 \in Good, Fields[k].kind # "bits"
               PROVE  At(k + 1).taken = 0
      BY <1>1
  <2>1. At(k + 1) = Begin(At(k), Fields[k], table, Extent(k, At(k).bit \div 8))
    BY <1>2 DEF BeginAfter
  <2>2. CASE Fields[k].kind = "pad"
    BY <2>1, <2>2 DEF Begin
  <2>3. CASE Fields[k].kind # "pad"
    <3>1. At(k + 1).taken = At(k).taken
      <4>1. At(k) = [bit |-> At(k).bit, taken |-> At(k).taken]
        BY <1>2 DEF Place
      <4>2. At(k + 1) = [At(k) EXCEPT !.bit = @ + 8 * Extent(k, At(k).bit \div 8)]
        BY <2>1, <2>3 DEF Begin
      <4> QED BY <4>1, <4>2
    <3>2. k - 1 = 0 \/ Fields[k - 1].kind # "bits"
      <4> SUFFICES ASSUME k - 1 # 0, Fields[k - 1].kind = "bits" PROVE FALSE
          OBVIOUS
      <4>1. k - 1 \in 1 .. n /\ (k - 1) + 1 = k
        BY <1>1
      <4> QED BY <1>3, <2>3, <4>1
    <3>3. (k - 1) + 1 = k
      BY <1>1
    <3> QED BY <3>1, <3>2, <3>3
  <2> QED BY <2>2, <2>3
<1> HIDE DEF Good
<1>6. \A k \in 0 .. n : k \in Good
  BY <1>1, <1>4, <1>5, StepByStep
<1>7. At(i).taken = 0
  <2>1. i - 1 \in 0 .. n /\ (i - 1) + 1 = i
    BY <1>1
  <2>2. i - 1 = 0 \/ Fields[i - 1].kind # "bits"
    <3> SUFFICES ASSUME i - 1 # 0, Fields[i - 1].kind = "bits" PROVE FALSE
        OBVIOUS
    <3>1. i - 1 \in 1 .. n
      BY <1>1
    <3> QED BY <1>1, <1>3, <2>1, <3>1
  <2>3. i - 1 \in Good
    BY <1>6, <2>1
  <2> QED BY <2>1, <2>2, <2>3 DEF Good
<1>8. PICK k \in Nat : k >= HeaderLength /\ At(i).bit = 8 * k + At(i).taken
  BY BeginsOf DEF At, IsPlaced
<1>9. At(i).bit = 8 * k
  BY <1>7, <1>8
<1> QED BY <1>7, <1>8, <1>9, BytesOfBits DEF Byte

LEMMA BytePlaces ==
  ASSUME Given, NEW i \in 1 .. Len(Fields) + 1
  PROVE  At(i) \in Place /\ Byte(i) \in Nat /\ Byte(i) >= HeaderLength
<1>1. PICK k \in Nat : k >= HeaderLength /\ At(i).bit = 8 * k + At(i).taken
  BY BeginsOf DEF At, IsPlaced
<1>2. At(i) \in Place /\ At(i).taken \in Nat
  BY BeginsOf DEF At, IsPlaced, Place
<1>3. Byte(i) = BytesOf(8 * k + At(i).taken)
  BY <1>1 DEF Byte
<1>4. Byte(i) = k + BytesOf(At(i).taken) /\ BytesOf(At(i).taken) \in Nat
  BY <1>2, <1>3, BytesOfBits
<1> QED BY <1>1, <1>2, <1>4 DEF HeaderLength

LEMMA PlainReaches ==
  ASSUME Given, NEW i \in DOMAIN Fields, Fields[i].kind \notin {"bits", "pad"}
  PROVE  /\ i + 1 \in 1 .. Len(Fields) + 1
         /\ At(i + 1).taken = At(i).taken
         /\ Extent(i, Byte(i)) \in Nat
         /\ Byte(i + 1) = Byte(i) + Extent(i, Byte(i))
<1> DEFINE x == Extent(i, Byte(i))
<1>1. i \in 1 .. Len(Fields) /\ i \in 1 .. Len(Fields) + 1 /\ i + 1 \in 1 .. Len(Fields) + 1
  BY FieldsOfGiven
<1>2. At(i).bit = 8 * Byte(i) /\ At(i).bit \div 8 = Byte(i) /\ Byte(i) \in Nat
  BY <1>1, BeginsWhole
<1>3. At(i) = [bit |-> At(i).bit, taken |-> At(i).taken]
  BY <1>1, BytePlaces DEF Place
<1>4. At(i + 1) = Begin(At(i), Fields[i], table, x)
  BY <1>2, BeginsOf DEF At, BeginAfter
<1>5. x \in Nat
  BY <1>2, ExtentIsNat
<1> HIDE DEF x
<1>6. At(i + 1) = [At(i) EXCEPT !.bit = @ + 8 * x]
  BY <1>4 DEF Begin
<1>7. At(i + 1).bit = 8 * (Byte(i) + x) /\ At(i + 1).taken = At(i).taken
  BY <1>2, <1>3, <1>5, <1>6
<1>8. Byte(i + 1) = Byte(i) + x
  <2>1. Byte(i) + x \in Nat
    BY <1>2, <1>5
  <2> QED BY <1>7, <2>1, BytesOfBits DEF Byte
<1> QED BY <1>1, <1>5, <1>7, <1>8 DEF x

LEMMA BitsReach ==
  ASSUME Given, NEW i \in DOMAIN Fields, Fields[i].kind = "bits"
  PROVE  /\ i + 1 \in 1 .. Len(Fields) + 1
         /\ ~IsDefined(Fields[i], table) => At(i + 1) = At(i)
         /\ IsDefined(Fields[i], table) =>
              /\ At(i + 1).taken = At(i).taken + Fields[i].bits
              /\ BitsRead(At(i).taken, Fields[i].bits) \in Nat
              /\ Byte(i + 1) = Byte(i) + BitsRead(At(i).taken, Fields[i].bits)
<1> DEFINE f == Fields[i]
<1>1. i \in 1 .. Len(Fields) + 1 /\ i + 1 \in 1 .. Len(Fields) + 1
  BY FieldsOfGiven
<1>2. PICK k \in Nat : At(i).bit = 8 * k + At(i).taken
  BY <1>1, BeginsOf DEF At, IsPlaced
<1>3. At(i).taken \in Nat /\ f.bits \in Nat
  BY <1>1, BytePlaces, FieldsOfGiven DEF Place, IsField
<1>4. At(i + 1) = Begin(At(i), f, table, Extent(i, At(i).bit \div 8))
  BY BeginsOf DEF At, BeginAfter
<1> HIDE DEF f
<1>5. ~IsDefined(Fields[i], table) => At(i + 1) = At(i)
  BY <1>4 DEF Begin, f
<1>6. ASSUME IsDefined(f, table)
      PROVE  /\ At(i + 1).taken = At(i).taken + f.bits
             /\ BitsRead(At(i).taken, f.bits) \in Nat
             /\ Byte(i + 1) = Byte(i) + BitsRead(At(i).taken, f.bits)
  <2> DEFINE t == At(i).taken
  <2>1. At(i + 1).bit = At(i).bit + f.bits /\ At(i + 1).taken = t + f.bits
    BY <1>4, <1>6 DEF Begin, f
  <2>2. At(i + 1).bit = 8 * k + (t + f.bits) /\ t \in Nat /\ t + f.bits \in Nat
    BY <1>2, <1>3, <2>1
  <2>7. At(i).bit = 8 * k + t
    BY <1>2
  <2> HIDE DEF t
  <2>10. BytesOf(8 * k + (t + f.bits)) = k + BytesOf(t + f.bits) /\ BytesOf(t + f.bits) \in Nat
    BY <2>2, BytesOfBits, Zenon
  <2>3. Byte(i + 1) = k + BytesOf(t + f.bits) /\ BytesOf(t + f.bits) \in Nat
    BY <2>2, <2>10, Zenon DEF Byte
  <2>8. k \in Nat /\ t \in Nat
    BY <1>2, <2>2
  <2>9. BytesOf(8 * k + t) = k + BytesOf(t) /\ BytesOf(t) \in Nat
    BY <2>8, BytesOfBits, Zenon
  <2>4. Byte(i) = k + BytesOf(t) /\ BytesOf(t) \in Nat
    BY <2>7, <2>9, Zenon DEF Byte
  <2>5. BitsRead(t, f.bits) = BytesOf(t + f.bits) - BytesOf(t)
    BY DEF BitsRead
  <2>6. BitsRead(t, f.bits) \in Nat
    BY <1>3, <2>2, BytesRead
  <2> QED BY <2>1, <2>3, <2>4, <2>5, <2>6 DEF t
<1>7. IsDefined(Fields[i], table) =>
        /\ At(i + 1).taken = At(i).taken + Fields[i].bits
        /\ BitsRead(At(i).taken, Fields[i].bits) \in Nat
        /\ Byte(i + 1) = Byte(i) + BitsRead(At(i).taken, Fields[i].bits)
  BY <1>6, Zenon DEF f
<1> QED BY <1>1, <1>5, <1>7, Zenon

LEMMA PadReaches ==
  ASSUME Given, NEW i \in DOMAIN Fields, Fields[i].kind = "pad"
  PROVE  /\ i + 1 \in 1 .. Len(Fields) + 1
         /\ At(i + 1).taken = 0
         /\ BitsRead(At(i).taken, Padding(At(i).taken, Fields[i].bits)) \in Nat
         /\ Byte(i + 1) = Byte(i) + BitsRead(At(i).taken, Padding(At(i).taken, Fields[i].bits))
<1> DEFINE f == Fields[i]
           t == At(i).taken
           n == Padding(t, f.bits)
<1>1. i \in 1 .. Len(Fields) + 1 /\ i + 1 \in 1 .. Len(Fields) + 1
  BY FieldsOfGiven
<1>2. PICK k \in Nat : At(i).bit = 8 * k + t
  BY <1>1, BeginsOf DEF At, IsPlaced
<1>3. t \in Nat /\ n \in Nat
  <2>1. t \in Nat /\ f.bits \in Nat /\ f.bits > 0
    BY <1>1, BytePlaces, FieldsOfGiven DEF Place, IsField
  <2> QED BY <2>1, PaddingOf
<1>4. At(i + 1) = Begin(At(i), f, table, Extent(i, At(i).bit \div 8))
  BY BeginsOf DEF At, BeginAfter
<1>5. At(i + 1).bit = At(i).bit + n /\ At(i + 1).taken = 0
  BY <1>4 DEF Begin
<1> HIDE DEF f, t, n
<1>6. At(i + 1).bit = 8 * k + (t + n) /\ t + n \in Nat
  BY <1>2, <1>3, <1>5
<1>7. Byte(i + 1) = k + BytesOf(t + n) /\ BytesOf(t + n) \in Nat
  <2>1. BytesOf(8 * k + (t + n)) = k + BytesOf(t + n) /\ BytesOf(t + n) \in Nat
    BY <1>6, BytesOfBits, Zenon
  <2> QED BY <1>6, <2>1, Zenon DEF Byte
<1>8. Byte(i) = k + BytesOf(t) /\ BytesOf(t) \in Nat
  <2>1. BytesOf(8 * k + t) = k + BytesOf(t) /\ BytesOf(t) \in Nat
    BY <1>3, BytesOfBits, Zenon
  <2> QED BY <1>2, <2>1, Zenon DEF Byte
<1>9. BitsRead(t, n) = BytesOf(t + n) - BytesOf(t) /\ BitsRead(t, n) \in Nat
  BY <1>3, BytesRead DEF BitsRead
<1> QED BY <1>1, <1>5, <1>7, <1>8, <1>9 DEF f, t, n

\* An offset field begins at its offset.
LEMMA OffsetPlaces ==
  ASSUME Given, NEW i \in DOMAIN Fields, Fields[i].kind = "offset"
  PROVE  Byte(i) = Fields[i].offset
<1> DEFINE n    == i - 1
           Next1(p, k) == Begin(p, Fields[k], NoVersion, Fields[k].length)
<1>1. /\ \A j \in 1 .. n : IsFixed(Fields[j])
      /\ FixedBegin(Fields, i).bit = 8 * Fields[i].offset
  BY DEF Given, WellFormed, FieldRules, Fields
<1>2. i \in Nat /\ n \in Nat /\ n + 1 = i /\ 1 .. n \subseteq DOMAIN Fields /\ i \in 1 .. Len(Fields) + 1
  BY FieldsOfGiven
<1>3. At(1) = FirstBegins
  BY BeginsOf DEF At
<1>4. \A k \in 1 .. n : At(k + 1) = Next1(At(k), k)
  <2> TAKE k \in 1 .. n
  <2> DEFINE f == Fields[k]
  <2>1. k \in DOMAIN Fields /\ IsFixed(f) /\ IsField(f)
    BY <1>1, <1>2, FieldsOfGiven
  <2>2. At(k + 1) = Begin(At(k), f, table, Extent(k, At(k).bit \div 8))
    BY <2>1, BeginsOf DEF At, BeginAfter
  <2>3. IsDefined(f, table) /\ IsDefined(f, NoVersion)
    BY <2>1 DEF IsFixed, IsDefined
  <2>4. CASE f.kind \in {"bits", "pad"}
    BY <2>2, <2>3, <2>4 DEF Begin
  <2>5. CASE f.kind \notin {"bits", "pad"}
    <3>1. f.length # Rest /\ f.length # Declared /\ f.kind # "vector" /\ f.kind # "array"
          /\ (f.kind \in {"offset", "preset", "group"} => f.length = 0)
      BY <2>1 DEF IsFixed, Rest, Declared
    <3>2. Extent(k, At(k).bit \div 8) = f.length
      BY <3>1 DEF Extent
    <3> QED BY <2>2, <2>5, <3>2 DEF Begin
  <2> QED BY <2>4, <2>5
<1> HIDE DEF Next1
<1> DEFINE f == CHOOSE g : g = [k \in 0 .. n |-> IF k = 0 THEN FirstBegins ELSE Next1(g[k - 1], k)]
<1>5. f = [k \in 0 .. n |-> IF k = 0 THEN FirstBegins ELSE Next1(f[k - 1], k)]
  <2> DEFINE g == [k \in 0 .. n |-> At(k + 1)]
  <2>1. g = [k \in 0 .. n |-> IF k = 0 THEN FirstBegins ELSE Next1(g[k - 1], k)]
    <3>1. \A k \in 0 .. n : At(k + 1) = IF k = 0 THEN FirstBegins ELSE Next1(g[k - 1], k)
      <4> TAKE k \in 0 .. n
      <4>1. CASE k = 0
        BY <1>3, <4>1
      <4>2. CASE k # 0
        <5>1. k \in 1 .. n /\ k - 1 \in 0 .. n /\ (k - 1) + 1 = k
          BY <1>2, <4>2
        <5> QED BY <1>4, <4>2, <5>1
      <4> QED BY <4>1, <4>2
    <3> QED BY <3>1
  <2> HIDE DEF g
  <2> QED BY <2>1
<1>6. FixedBegin(Fields, i) = f[n]
  BY DEF FixedBegin, Next1
<1> HIDE DEF f
<1> DEFINE Good == {k \in 0 .. n : f[k] = At(k + 1)}
<1>7. 0 \in Good
  BY <1>2, <1>3, <1>5
<1>8. \A k \in 1 .. n : k - 1 \in Good => k \in Good
  <2> SUFFICES ASSUME NEW k \in 1 .. n, k - 1 \in Good PROVE k \in Good
      OBVIOUS
  <2>1. k \in 0 .. n /\ k # 0 /\ (k - 1) + 1 = k
    BY <1>2
  <2>2. f[k] = Next1(f[k - 1], k) /\ f[k - 1] = At(k)
    BY <1>5, <2>1
  <2> QED BY <1>4, <2>1, <2>2
<1> HIDE DEF Good
<1>9. n \in Good
  <2>1. \A k \in 0 .. n : k \in Good
    BY <1>2, <1>7, <1>8, StepByStep
  <2> QED BY <1>2, <2>1
<1>10. At(i).bit = 8 * Fields[i].offset
  BY <1>1, <1>2, <1>6, <1>9 DEF Good
<1>11. At(i).bit = 8 * Byte(i) /\ Byte(i) \in Nat
  BY <1>2, BeginsWhole
<1>12. Fields[i].offset \in Nat
  BY FieldsOfGiven DEF IsField
<1> QED BY <1>10, <1>11, <1>12

\* The places are those of the structure, whatever has been read of it.
LEMMA SameStructure ==
  ASSUME spec' = spec, body' = body, table' = table
  PROVE  Begins' = Begins /\ Fields' = Fields /\ (Given <=> Given')
<1>1. Fields' = Fields
  BY DEF Fields
<1>2. \A i : Reads(i)' = Reads(i)
  BY DEF Reads
<1>3. \A i : ElementSize(i)' = ElementSize(i)
  BY <1>2 DEF ElementSize
<1>4. \A f : Stride(f)' = Stride(f)
  BY DEF Stride
<1>5. \A f, x : Elements(f, x)' = Elements(f, x)
  BY DEF Elements
<1>6. \A i : Step(i)' = Step(i)
  BY <1>1, <1>3, <1>4 DEF Step
<1>7. \A i, x : Extent(i, x)' = Extent(i, x)
  BY <1>1, <1>3, <1>4, <1>5, <1>6 DEF Extent
<1>8. \A p, i : BeginAfter(p, i)' = BeginAfter(p, i)
  BY <1>1, <1>7 DEF BeginAfter
<1>9. \A ps, i : Begun(ps, i)' = Begun(ps, i)
  BY <1>8 DEF Begun
<1>10. Begins' = Begins
  BY <1>1, <1>9 DEF Begins
<1> QED BY <1>1, <1>10 DEF Given

-----------------------------------------------------------------------------
(* What is known of a structure that has been read up to a field.          *)

Names == STRING \union {""}
Decodings ==
  [starts : Seq(Nat), cut : BOOLEAN, pos : Nat, taken : Nat, level : Nat, defined : Nat,
   optional : BOOLEAN, group : Names, marked : SUBSET Names,
   flags : SUBSET {"PARTIAL", "INCOMPLETE"}, wide : SUBSET Names, kept : Nat, data : BOOLEAN,
   count : Nat, stride : Nat, leftover : Nat, elements : Seq(Nat)]

IsArray(i) == Fields[i].kind = "array"
Size       == body.length

\* Bytes are left over at the end of the i-th field, an array.
IsLeftOver(i) ==
  /\ IsArray(i) /\ Fields[i].count_length = 0
  /\ Byte(i) <= Size /\ (Size - Byte(i)) % Fields[i].stride # 0

\* The i-th field, an array, has n elements.
Whole(i, n) ==
  LET f     == Fields[i]
      start == At(i).bit \div 8
      room  == (Size - start - f.count_length - f.stride_length) \div Step(i)
  IN n = IF HeaderEnds(Begins, i) \/ ArrayIsSkipped(f, Stride(f)) THEN 0
         ELSE Smaller(Elements(f, start), room)

\* The fields before the i-th have been read, and none of them was the end.
ReadTo(i, dd) ==
  /\ Size >= spec.minimum /\ Byte(i) <= Size
  /\ \A j \in 1 .. i - 1 : GroupAt(j) => Byte(j) # Size
  /\ dd.optional <=> \E j \in 1 .. i - 1 : GroupAt(j)
  /\ "PARTIAL" \notin dd.flags
  /\ "INCOMPLETE" \in dd.flags <=> \E j \in 1 .. i - 1 : IsLeftOver(j)

\* The level is that of the fields before the i-th.
LevelTo(i, dd) ==
  /\ dd.level >= spec.since
  /\ \A j \in 1 .. i - 1 :
       /\ GroupAt(j) => dd.level >= Fields[j].since
       /\ Fields[j].kind = "bits" /\ IsDefined(Fields[j], table) => dd.defined >= Fields[j].from

\* The elements are those of the fields before the i-th.
ElementsTo(i, n) ==
  /\ \A j \in 1 .. i - 1 : IsArray(j) => Whole(j, n)
  /\ (\A j \in 1 .. i - 1 : ~IsArray(j)) => n = 0

\* Whether the data ends at a group.
EndsAtGroup == \E i \in DOMAIN Fields : GroupAt(i) /\ EndsAt(Begins, i)

FlagsTell(flags) ==
  /\ "PARTIAL" \in flags <=> EndsAtGroup
  /\ "INCOMPLETE" \in flags <=>
       LeftOver(Begins) \/ (~Reaches(Begins, Len(Fields) + 1) /\ ~EndsAtGroup)

ArraysWhole(n) == \A i \in DOMAIN Fields : IsArray(i) => Whole(i, n)

LEMMA Arrived ==
  ASSUME Given, NEW i \in 1 .. Len(Fields) + 1
  PROVE  /\ Reaches(Begins, i) <=> Byte(i) <= Size
         /\ EndsAt(Begins, i) <=> Byte(i) = Size
         /\ Size \in Nat
BY DEF Given, Body, Reaches, EndsAt, Byte, At, Size

LEMMA LeftOverIs ==
  ASSUME Given
  PROVE  LeftOver(Begins) <=> \E i \in DOMAIN Fields : IsLeftOver(i)
<1>1. \A i \in DOMAIN Fields : IsArray(i) => Begins[i].bit \div 8 = Byte(i)
  <2> TAKE i \in DOMAIN Fields
  <2>1. i \in 1 .. Len(Fields) + 1
    BY FieldsOfGiven
  <2> QED BY <2>1, BeginsWhole DEF IsArray, At
<1> QED BY <1>1 DEF LeftOver, IsLeftOver, IsArray, Size

\* An array is at a whole byte, and its numbers are there or not.
LEMMA ArrayPlaces ==
  ASSUME Given, NEW i \in DOMAIN Fields, IsArray(i)
  PROVE  /\ Begins[i].bit \div 8 = Byte(i) /\ At(i).bit \div 8 = Byte(i)
         /\ Byte(i) \in Nat /\ At(i).taken = 0
         /\ HeaderEnds(Begins, i) <=>
              Size < Byte(i) + Fields[i].count_length + Fields[i].stride_length
<1>1. i \in 1 .. Len(Fields) + 1
  BY FieldsOfGiven
<1>2. At(i).taken = 0 /\ At(i).bit \div 8 = Byte(i) /\ Byte(i) \in Nat
  BY <1>1, BeginsWhole DEF IsArray
<1> QED BY <1>2 DEF HeaderEnds, At, Size

\* Arrays after the data has ended have no elements.
LEMMA NoneBeyond ==
  ASSUME Given, NEW i \in DOMAIN Fields, IsArray(i), Size <= Byte(i)
  PROVE  Whole(i, 0) /\ ~IsLeftOver(i)
<1> DEFINE f == Fields[i]
<1>1. Byte(i) \in Nat /\ At(i).bit \div 8 = Byte(i) /\ Size \in Nat
      /\ (HeaderEnds(Begins, i) <=> Size < Byte(i) + f.count_length + f.stride_length)
  BY ArrayPlaces DEF Given, Body, Size
<1>2. f.count_length \in Nat /\ f.stride_length \in Nat /\ Elements(f, Byte(i)) \in Nat
  BY <1>1, ArrayNumbers DEF IsArray
<1>3. f.count_length = 0 => f.stride_length = 0 /\ f.stride > 0 /\ f.stride \in Nat
  BY FieldsOfGiven DEF IsArray, IsField
<1>4. ~IsLeftOver(i)
  <2> SUFFICES ASSUME f.count_length = 0, Byte(i) <= Size PROVE (Size - Byte(i)) % f.stride = 0
      BY DEF IsLeftOver
  <2>1. Size - Byte(i) = 0
    BY <1>1
  <2>2. 0 % f.stride = 0
    BY <1>3, QuotientIs
  <2> QED BY <2>1, <2>2
<1>5. ASSUME ~HeaderEnds(Begins, i), ~ArrayIsSkipped(f, Stride(f))
      PROVE  Smaller(Elements(f, Byte(i)),
                     (Size - Byte(i) - f.count_length - f.stride_length) \div Step(i)) = 0
  <2>1. Size = Byte(i) /\ f.count_length = 0 /\ f.stride_length = 0
    BY <1>1, <1>2, <1>5
  <2>2. Elements(f, Byte(i)) = 0
    <3>1. Elements(f, Byte(i)) = Larger(Size - Byte(i), 0) \div f.stride
      BY <2>1 DEF Elements, Size
    <3>2. Larger(Size - Byte(i), 0) = 0
      BY <1>1, <2>1 DEF Larger
    <3>3. 0 \div f.stride = 0
      BY <1>3, <2>1, QuotientIs
    <3> QED BY <3>1, <3>2, <3>3
  <2>3. (Size - Byte(i) - f.count_length - f.stride_length) \div Step(i) = 0
    <3>1. Size - Byte(i) - f.count_length - f.stride_length = 0
      BY <1>1, <2>1
    <3>2. Step(i) \in Nat /\ Step(i) > 0
      BY <1>1, <1>5, ArrayNumbers DEF IsArray
    <3>3. 0 \div Step(i) = 0
      BY <3>2, QuotientIs
    <3> QED BY <3>1, <3>3
  <2> QED BY <2>2, <2>3 DEF Smaller
<1>6. Whole(i, 0)
  BY <1>1, <1>5 DEF Whole
<1> QED BY <1>4, <1>6

LEMMA GroupsTakeNothing ==
  ASSUME Given, NEW i \in DOMAIN Fields, Fields[i].kind \in {"group", "offset", "preset"}
  PROVE  At(i + 1) = At(i) /\ Byte(i + 1) = Byte(i)
<1>1. i \in 1 .. Len(Fields) + 1 /\ IsField(Fields[i])
  BY FieldsOfGiven
<1>2. At(i + 1) = Begin(At(i), Fields[i], table, Extent(i, At(i).bit \div 8))
  BY BeginsOf DEF At, BeginAfter
<1>3. Fields[i].length # Rest /\ Fields[i].length # Declared
  BY <1>1 DEF IsField
<1>4. Extent(i, At(i).bit \div 8) = 0
  BY <1>3 DEF Extent
<1>5. At(i) = [bit |-> At(i).bit, taken |-> At(i).taken] /\ At(i).bit \in Nat
  BY <1>1, BytePlaces DEF Place
<1>6. At(i + 1) = [At(i) EXCEPT !.bit = @ + 8 * 0]
  BY <1>2, <1>4 DEF Begin
<1>7. At(i).bit + 8 * 0 = At(i).bit
  BY <1>5
<1> QED BY <1>5, <1>6, <1>7 DEF Byte

\* The data ends within one field only.
LEMMA EndsOnce ==
  ASSUME Given, NEW s \in DOMAIN Fields, Byte(s) <= Size, Size < Byte(s + 1),
         NEW i \in DOMAIN Fields
  PROVE  /\ i < s => Byte(i) <= Size /\ Byte(i + 1) <= Size
         /\ i > s => Byte(i) > Size
         /\ ~GroupAt(s)
<1>1. Len(Fields) \in Nat /\ DOMAIN Fields = 1 .. Len(Fields)
  BY FieldsOfGiven
<1>2. i \in 1 .. Len(Fields) + 1 /\ i + 1 \in 1 .. Len(Fields) + 1
      /\ s \in 1 .. Len(Fields) + 1 /\ s + 1 \in 1 .. Len(Fields) + 1 /\ Size \in Nat
  BY <1>1, Arrived
<1>3. {Byte(i), Byte(i + 1), Byte(s), Byte(s + 1)} \subseteq Nat
  BY <1>2, BytePlaces
<1>4. i < s => Byte(i) <= Byte(s) /\ Byte(i + 1) <= Byte(s)
  BY <1>1, <1>2, BeginsGrow
<1>5. i > s => Byte(s + 1) <= Byte(i)
  BY <1>1, <1>2, BeginsGrow
<1>6. ~GroupAt(s)
  BY <1>2, <1>3, GroupsTakeNothing DEF GroupAt
<1> QED BY <1>2, <1>3, <1>4, <1>5, <1>6

LEMMA BrokenIs ==
  ASSUME Given, NEW dd, NEW s \in DOMAIN Fields, ReadTo(s, dd), Size < Byte(s + 1)
  PROVE  Broken(Begins) <=>
           /\ ~dd.optional
           /\ IF IsArray(s) THEN HeaderEnds(Begins, s) \/ EndsInNumber(Begins, s)
              ELSE Fields[s].length # Declared
<1> DEFINE Cut(i) == CASE Fields[i].kind = "array" -> HeaderEnds(Begins, i) \/ EndsInNumber(Begins, i)
                       [] OTHER                    -> Fields[i].length # Declared
<1>1. Len(Fields) \in Nat /\ DOMAIN Fields = 1 .. Len(Fields) /\ Byte(s) <= Size
      /\ Size \in Nat /\ spec.minimum \in Nat /\ Size >= spec.minimum
  BY FieldsOfGiven, Arrived DEF ReadTo, Given, WellFormed, Size, Body
<1>2. \A i \in DOMAIN Fields : i \in 1 .. Len(Fields) + 1 /\ i + 1 \in 1 .. Len(Fields) + 1
  BY <1>1
<1>3. \A i \in DOMAIN Fields :
        /\ Reaches(Begins, i) <=> Byte(i) <= Size
        /\ Reaches(Begins, i + 1) <=> Byte(i + 1) <= Size
        /\ Byte(i) \in Nat /\ Byte(i + 1) \in Nat
  BY <1>2, Arrived, BytePlaces
<1>4. \A i \in DOMAIN Fields : Reaches(Begins, i) /\ ~Reaches(Begins, i + 1) => i = s
  <2> SUFFICES ASSUME NEW i \in DOMAIN Fields, Reaches(Begins, i), ~Reaches(Begins, i + 1)
               PROVE  i = s
      OBVIOUS
  <2>1. ~(i < s) /\ ~(i > s)
    BY <1>1, <1>3, EndsOnce
  <2> QED BY <1>1, <2>1
<1>5. Reaches(Begins, s) /\ ~Reaches(Begins, s + 1)
  BY <1>1, <1>3
<1>6. Required(s) <=> ~dd.optional
  <2>1. ~GroupAt(s)
    BY <1>1, EndsOnce
  <2>2. \A j \in 1 .. s : j = s \/ j \in 1 .. s - 1
    BY <1>1
  <2>3. 1 .. s - 1 \subseteq 1 .. s
    BY <1>1
  <2> QED BY <2>1, <2>2, <2>3 DEF Required, ReadTo
<1>7. Broken(Begins) <=> \E i \in DOMAIN Fields :
        Required(i) /\ Reaches(Begins, i) /\ ~Reaches(Begins, i + 1) /\ Cut(i)
  BY <1>1 DEF Broken, Size
<1>8. Cut(s) <=> IF IsArray(s) THEN HeaderEnds(Begins, s) \/ EndsInNumber(Begins, s)
                 ELSE Fields[s].length # Declared
  BY DEF IsArray
<1> HIDE DEF Cut
<1> QED BY <1>4, <1>5, <1>6, <1>7, <1>8

LEMMA NotBroken ==
  ASSUME Given, NEW dd, NEW s \in 1 .. Len(Fields) + 1, ReadTo(s, dd),
         s \in DOMAIN Fields => GroupAt(s)
  PROVE  ~Broken(Begins)
<1>1. Len(Fields) \in Nat /\ DOMAIN Fields = 1 .. Len(Fields) /\ Byte(s) <= Size
      /\ Size \in Nat /\ spec.minimum \in Nat /\ Size >= spec.minimum
  BY FieldsOfGiven, Arrived DEF ReadTo, Given, WellFormed, Size, Body
<1> SUFFICES ASSUME NEW i \in DOMAIN Fields, Required(i), ~Reaches(Begins, i + 1) PROVE FALSE
    BY <1>1 DEF Broken, Size
<1>2. i < s
  <2> SUFFICES ASSUME i >= s PROVE FALSE
      BY <1>1
  <2>1. s \in DOMAIN Fields /\ s \in 1 .. i
    BY <1>1
  <2> QED BY <2>1 DEF Required
<1>3. i + 1 \in 1 .. Len(Fields) + 1 /\ i + 1 <= s
  BY <1>1, <1>2
<1>4. Byte(i + 1) <= Byte(s) /\ Byte(i + 1) \in Nat /\ Byte(s) \in Nat
  BY <1>3, BeginsGrow, BytePlaces
<1> QED BY <1>1, <1>3, <1>4, Arrived

\* Where reading ends, the states of the structure are the ones its length
\* tells: within a field, at a group, and at the end of the fields.
LEMMA FlagsWithin ==
  ASSUME Given, NEW dd, NEW s \in DOMAIN Fields, ReadTo(s, dd), Size < Byte(s + 1),
         NEW flags, "PARTIAL" \notin flags, "INCOMPLETE" \in flags
  PROVE  FlagsTell(flags)
<1>1. Len(Fields) \in Nat /\ DOMAIN Fields = 1 .. Len(Fields) /\ Byte(s) <= Size /\ Size \in Nat
  BY FieldsOfGiven, Arrived DEF ReadTo, Given, Body, Size
<1>2. s + 1 \in 1 .. Len(Fields) + 1 /\ Len(Fields) + 1 \in 1 .. Len(Fields) + 1
  BY <1>1
<1>3. ~Reaches(Begins, Len(Fields) + 1)
  <2>1. Byte(s + 1) <= Byte(Len(Fields) + 1) /\ Byte(s + 1) \in Nat /\ Byte(Len(Fields) + 1) \in Nat
    BY <1>1, <1>2, BeginsGrow, BytePlaces
  <2>2. ~(Byte(Len(Fields) + 1) <= Size)
    BY <1>1, <2>1
  <2> QED BY <1>2, <2>2, Arrived
<1>4. ~EndsAtGroup
  <2> SUFFICES ASSUME NEW i \in DOMAIN Fields, GroupAt(i), EndsAt(Begins, i) PROVE FALSE
      BY DEF EndsAtGroup
  <2>1. i \in 1 .. Len(Fields) + 1 /\ Byte(i) = Size
    BY <1>1, Arrived
  <2>2. i # s /\ ~(i > s)
    BY <1>1, <2>1, EndsOnce
  <2>3. i \in 1 .. s - 1
    BY <1>1, <2>2
  <2> QED BY <2>1, <2>3 DEF ReadTo
<1> QED BY <1>3, <1>4 DEF FlagsTell

LEMMA FlagsAtGroup ==
  ASSUME Given, NEW dd, NEW s \in DOMAIN Fields, ReadTo(s, dd), GroupAt(s), Byte(s) = Size,
         NEW flags, flags = dd.flags \union {"PARTIAL"}
  PROVE  FlagsTell(flags)
<1>1. Len(Fields) \in Nat /\ DOMAIN Fields = 1 .. Len(Fields) /\ Size \in Nat
  BY FieldsOfGiven DEF Given, Body, Size
<1>2. EndsAtGroup
  <2>1. s \in 1 .. Len(Fields) + 1
    BY <1>1
  <2> QED BY <2>1, Arrived DEF EndsAtGroup
<1>3. \A i \in DOMAIN Fields : IsLeftOver(i) => i \in 1 .. s - 1
  <2> SUFFICES ASSUME NEW i \in DOMAIN Fields, IsLeftOver(i), i >= s PROVE FALSE
      BY <1>1
  <2>1. s \in 1 .. Len(Fields) + 1 /\ i \in 1 .. Len(Fields) + 1 /\ s <= i
    BY <1>1
  <2>2. Byte(s) <= Byte(i)
    BY <2>1, BeginsGrow
  <2> QED BY <2>2, NoneBeyond DEF IsLeftOver
<1>4. 1 .. s - 1 \subseteq DOMAIN Fields
  BY <1>1
<1>5. LeftOver(Begins) <=> "INCOMPLETE" \in dd.flags
  BY <1>3, <1>4, LeftOverIs DEF ReadTo
<1> QED BY <1>2, <1>5 DEF FlagsTell

LEMMA FlagsAtEnd ==
  ASSUME Given, NEW dd, ReadTo(Len(Fields) + 1, dd)
  PROVE  FlagsTell(dd.flags)
<1>1. Len(Fields) \in Nat /\ DOMAIN Fields = 1 .. Len(Fields)
  BY FieldsOfGiven
<1>2. Len(Fields) + 1 \in 1 .. Len(Fields) + 1 /\ (Len(Fields) + 1) - 1 = Len(Fields)
  BY <1>1
<1>3. Reaches(Begins, Len(Fields) + 1)
  BY <1>2, Arrived DEF ReadTo
<1>4. ~EndsAtGroup
  <2>1. \A i \in DOMAIN Fields : i \in 1 .. Len(Fields) + 1
    BY <1>1
  <2> QED BY <1>1, <1>2, <2>1, Arrived DEF EndsAtGroup, ReadTo
<1>5. LeftOver(Begins) <=> "INCOMPLETE" \in dd.flags
  BY <1>1, <1>2, LeftOverIs DEF ReadTo
<1> QED BY <1>3, <1>4, <1>5 DEF FlagsTell, ReadTo

LEMMA OneArray ==
  ASSUME Given, NEW i \in DOMAIN Fields, NEW j \in DOMAIN Fields, IsArray(i), IsArray(j)
  PROVE  i = j
BY DEF Given, WellFormed, FieldRules, Fields, IsArray

\* The arrays are whole where reading ends, when the one it ends in is.
LEMMA ArraysAtStop ==
  ASSUME Given, NEW s \in DOMAIN Fields, NEW n, ElementsTo(s, n),
         IsArray(s) => Whole(s, n),
         \A i \in DOMAIN Fields : i > s => Size <= Byte(i)
  PROVE  ArraysWhole(n)
<1>1. Len(Fields) \in Nat /\ DOMAIN Fields = 1 .. Len(Fields)
  BY FieldsOfGiven
<1> SUFFICES ASSUME NEW i \in DOMAIN Fields, IsArray(i) PROVE Whole(i, n)
    BY DEF ArraysWhole
<1>2. CASE i < s
  <2>1. i \in 1 .. s - 1
    BY <1>1, <1>2
  <2> QED BY <2>1 DEF ElementsTo
<1>3. CASE i = s
  BY <1>3
<1>4. CASE i > s
  <2>1. \A j \in 1 .. s - 1 : ~IsArray(j)
    <3> TAKE j \in 1 .. s - 1
    <3>1. j \in DOMAIN Fields /\ j # i
      BY <1>1, <1>4
    <3> QED BY <3>1, OneArray
  <2>2. n = 0
    BY <2>1 DEF ElementsTo
  <2> QED BY <1>4, <2>2, NoneBeyond
<1> QED BY <1>1, <1>2, <1>3, <1>4

LEMMA ArraysAtEnd ==
  ASSUME Given, NEW n, ElementsTo(Len(Fields) + 1, n)
  PROVE  ArraysWhole(n)
<1>1. DOMAIN Fields = 1 .. Len(Fields) /\ Len(Fields) \in Nat
  BY FieldsOfGiven
<1>2. (Len(Fields) + 1) - 1 = Len(Fields)
  BY <1>1
<1> QED BY <1>1, <1>2 DEF ElementsTo, ArraysWhole

\* What has been read is shown at the level reading ends at.
LEMMA ShownTo ==
  ASSUME Given, NEW s \in 1 .. Len(Fields) + 1, NEW dd \in Decodings, LevelTo(s, dd),
         NEW i \in DOMAIN Fields, i <= s, i = s => Fields[i].kind # "bits",
         IsDefined(Fields[i], table),
         NEW a \in spec.attributes, Describes(a, i)
  PROVE  a.level <= Larger(dd.level, dd.defined)
<1>1. Len(Fields) \in Nat /\ DOMAIN Fields = 1 .. Len(Fields) /\ spec.since \in Nat
  BY FieldsOfGiven DEF Given, WellFormed
<1>2. /\ a.level \in Nat
      /\ \/ a.level <= spec.since
         \/ Fields[i].kind = "bits" /\ a.level <= Fields[i].from
         \/ \E j \in 1 .. i - 1 : IsGroupOf(Fields[j], a.level)
  BY DEF Given, WellFormed, VersionRules, Fields, Describes
<1>3. dd.level \in Nat /\ dd.defined \in Nat
  BY DEF Decodings
<1>4. CASE a.level <= spec.since
  BY <1>1, <1>2, <1>3, <1>4 DEF LevelTo, Larger
<1>5. CASE Fields[i].kind = "bits" /\ a.level <= Fields[i].from
  <2>1. i \in 1 .. s - 1
    BY <1>1, <1>5
  <2>2. dd.defined >= Fields[i].from /\ Fields[i].from \in Nat
    BY <1>5, <2>1, FieldsOfGiven DEF LevelTo, IsField
  <2> QED BY <1>2, <1>3, <1>5, <2>2 DEF Larger
<1>6. CASE \E j \in 1 .. i - 1 : IsGroupOf(Fields[j], a.level)
  <2>1. PICK j \in 1 .. i - 1 : IsGroupOf(Fields[j], a.level)
    BY <1>6
  <2>2. j \in 1 .. s - 1 /\ j \in DOMAIN Fields
    BY <1>1
  <2>3. dd.level >= Fields[j].since /\ Fields[j].since >= a.level /\ Fields[j].since \in Nat
    BY <2>1, <2>2, FieldsOfGiven DEF LevelTo, IsGroupOf, GroupAt, IsField
  <2> QED BY <1>2, <1>3, <2>3 DEF Larger
<1> QED BY <1>2, <1>4, <1>5, <1>6

-----------------------------------------------------------------------------
(* The invariant of the decoding.                                          *)

\* Every attribute of a field that has been read is shown.
Shown(dd) ==
  \A i \in DOMAIN Fields : \A a \in spec.attributes :
    /\ i \in DOMAIN dd.starts /\ ~(dd.cut /\ i = Len(dd.starts))
    /\ Describes(a, i) /\ IsDefined(Fields[i], table)
    => a.level <= dd.level

Settled(dd) ==
  ~Broken(Begins) /\ FlagsTell(dd.flags) /\ ArraysWhole(Len(dd.elements)) /\ Shown(dd)

\* The i-th field is to be read.
AtField(i, dd) ==
  /\ i \in 1 .. Len(Fields) + 1 /\ ~dd.cut
  /\ ReadTo(i, dd) /\ LevelTo(i, dd) /\ ElementsTo(i, Len(dd.elements))
  /\ dd.pos = Byte(i) /\ dd.taken = At(i).taken

\* The elements of the i-th field are being read.
AtElement(i, dd) ==
  LET f == Fields[i] IN
  /\ i \in DOMAIN Fields /\ IsArray(i) /\ ~dd.cut
  /\ ReadTo(i, dd) /\ LevelTo(i, dd) /\ ElementsTo(i, 0)
  /\ ~HeaderEnds(Begins, i) /\ ~ArrayIsSkipped(f, Stride(f))
  /\ dd.taken = 0 /\ dd.count = Elements(f, Byte(i)) /\ dd.stride = Stride(f)
  /\ dd.leftover = (IF f.count_length = 0 THEN (Size - Byte(i)) % f.stride ELSE 0)
  /\ Len(dd.elements) <= dd.count
  /\ dd.pos = Byte(i) + f.count_length + f.stride_length + (Len(dd.elements) * Step(i))

Outcome(dd, ph) ==
  /\ ph = "start" => dd = NotDecoded
  /\ ph = "decode" => AtField(Len(dd.starts) + 1, dd)
  /\ ph = "elements" => AtElement(Len(dd.starts), dd)
  /\ ph = "decoded" => Settled(dd)
  /\ ph = "failed" => Broken(Begins)
  /\ ph \in {"decode", "elements", "decoded", "failed"} => Len(dd.starts) <= Len(Fields)
  /\ ph \in {"decode", "elements", "decoded"} => dd.pos <= Size

LEMMA ReadOnTo ==
  ASSUME Given, NEW dd, NEW s \in DOMAIN Fields, ReadTo(s, dd), Byte(s + 1) <= Size,
         GroupAt(s) => Byte(s) # Size,
         NEW ee, ee.optional <=> dd.optional \/ GroupAt(s), "PARTIAL" \notin ee.flags,
         "INCOMPLETE" \in ee.flags <=> "INCOMPLETE" \in dd.flags \/ IsLeftOver(s)
  PROVE  ReadTo(s + 1, ee)
<1>1. s \in Nat /\ (s + 1) - 1 = s /\ 1 .. s - 1 \subseteq 1 .. s
      /\ \A j \in 1 .. s : j \in 1 .. s - 1 \/ j = s
  BY FieldsOfGiven
<1>2. s \in 1 .. s
  BY FieldsOfGiven
<1> QED BY <1>1, <1>2 DEF ReadTo

LEMMA ElementsOnTo ==
  ASSUME Given, NEW s \in DOMAIN Fields, NEW n
  PROVE  /\ ElementsTo(s, n) /\ ~IsArray(s) => ElementsTo(s + 1, n)
         /\ IsArray(s) /\ Whole(s, n) => ElementsTo(s + 1, n)
<1>1. s \in Nat /\ (s + 1) - 1 = s /\ s \in 1 .. s /\ 1 .. s \subseteq DOMAIN Fields
      /\ \A j \in 1 .. s : j \in 1 .. s - 1 \/ j = s
  BY FieldsOfGiven
<1>2. \A j \in 1 .. s - 1 : j \in 1 .. s
  BY <1>1
<1>3. ElementsTo(s, n) /\ ~IsArray(s) => ElementsTo(s + 1, n)
  BY <1>1, <1>2 DEF ElementsTo
<1>4. ASSUME IsArray(s), Whole(s, n) PROVE ElementsTo(s + 1, n)
  <2>1. \A j \in 1 .. s : IsArray(j) => j = s
    BY <1>1, <1>4, OneArray
  <2> QED BY <1>1, <1>4, <2>1 DEF ElementsTo
<1> QED BY <1>3, <1>4

\* A field that is no group keeps the level, and bits are of their version.
LEMMA LevelOnTo ==
  ASSUME Given, NEW s \in DOMAIN Fields, NEW dd \in Decodings, NEW ee \in Decodings,
         LevelTo(s, dd), ~GroupAt(s), ee.level = dd.level, ee.defined >= dd.defined,
         Fields[s].kind = "bits" /\ IsDefined(Fields[s], table) => ee.defined >= Fields[s].from
  PROVE  LevelTo(s + 1, ee)
<1>1. s \in Nat /\ (s + 1) - 1 = s /\ 1 .. s \subseteq DOMAIN Fields
      /\ \A j \in 1 .. s : j \in 1 .. s - 1 \/ j = s
  BY FieldsOfGiven
<1>2. dd.defined \in Nat /\ ee.defined \in Nat
  BY DEF Decodings
<1>3. \A j \in DOMAIN Fields : Fields[j].from \in Nat
  BY FieldsOfGiven DEF IsField
<1>4. \A j \in 1 .. s : Fields[j].kind = "bits" /\ IsDefined(Fields[j], table) => ee.defined >= Fields[j].from
  <2> SUFFICES ASSUME NEW j \in 1 .. s, Fields[j].kind = "bits", IsDefined(Fields[j], table)
               PROVE  ee.defined >= Fields[j].from
      OBVIOUS
  <2>1. CASE j = s
    BY <2>1
  <2>2. CASE j \in 1 .. s - 1
    <3>1. dd.defined >= Fields[j].from /\ Fields[j].from \in Nat
      BY <1>1, <1>3, <2>2 DEF LevelTo
    <3> QED BY <1>2, <3>1
  <2> QED BY <1>1, <2>1, <2>2
<1>5. \A j \in 1 .. s : GroupAt(j) => ee.level >= Fields[j].since
  BY <1>1 DEF LevelTo
<1> QED BY <1>1, <1>4, <1>5 DEF LevelTo

\* A group that is read sets the level.
LEMMA LevelOfGroup ==
  ASSUME Given, NEW s \in DOMAIN Fields, NEW dd \in Decodings, NEW ee \in Decodings,
         LevelTo(s, dd), GroupAt(s), ee.defined = dd.defined,
         ee.level = IF Fields[s].since # NoVersion THEN Fields[s].since ELSE dd.level
  PROVE  LevelTo(s + 1, ee)
<1>1. s \in Nat /\ (s + 1) - 1 = s /\ 1 .. s \subseteq DOMAIN Fields
      /\ \A j \in 1 .. s : j \in 1 .. s - 1 \/ j = s
  BY FieldsOfGiven
<1>2. \A j \in DOMAIN Fields : Fields[j].since \in Nat
  BY FieldsOfGiven DEF IsField
<1>3. dd.level \in Nat /\ spec.since \in Nat /\ NoVersion = 0
  BY DEF Decodings, Given, WellFormed, NoVersion, V
<1>4. Fields[s].since # NoVersion =>
        /\ Fields[s].since >= spec.since
        /\ \A j \in 1 .. s - 1 : GroupAt(j) => Fields[j].since <= Fields[s].since
  BY DEF Given, WellFormed, VersionRules, Fields, GroupAt
<1>5. ee.level >= spec.since
  BY <1>3, <1>4 DEF LevelTo
<1>6. \A j \in 1 .. s : GroupAt(j) => ee.level >= Fields[j].since
  <2> SUFFICES ASSUME NEW j \in 1 .. s, GroupAt(j) PROVE ee.level >= Fields[j].since
      OBVIOUS
  <2>1. Fields[j].since \in Nat /\ Fields[s].since \in Nat
    BY <1>1, <1>2
  <2>2. CASE j = s
    BY <1>3, <2>1, <2>2
  <2>3. CASE j \in 1 .. s - 1
    BY <1>4, <2>1, <2>3 DEF LevelTo
  <2> QED BY <1>1, <2>2, <2>3
<1>7. \A j \in 1 .. s : Fields[j].kind = "bits" /\ IsDefined(Fields[j], table) => ee.defined >= Fields[j].from
  <2>1. Fields[s].kind # "bits"
    BY DEF GroupAt
  <2> QED BY <1>1, <2>1 DEF LevelTo
<1> QED BY <1>1, <1>5, <1>6, <1>7 DEF LevelTo

\* Positions in bits are numbers.
LEMMA BitOfField ==
  ASSUME Given, NEW s, AtField(s, d)
  PROVE  AtBit \in Nat
<1>1. Byte(s) \in Nat /\ Byte(s) >= HeaderLength /\ At(s).taken \in Nat
  BY BytePlaces DEF AtField, Place
<1>2. Padding(At(s).taken, 8) \in Nat /\ Padding(At(s).taken, 8) < 8
  BY <1>1, PaddingOf
<1>3. AtBit = 8 * Byte(s) - Padding(At(s).taken, 8)
  BY DEF AtBit, AtField
<1> QED BY <1>1, <1>2, <1>3 DEF HeaderLength

\* The list ends with the structure decoded.
LEMMA DecodedSettles ==
  ASSUME Given, NEW s \in 1 .. Len(Fields) + 1, NEW dd \in Decodings, LevelTo(s, dd),
         Len(dd.starts) <= s, Len(dd.starts) <= Len(Fields), dd.pos <= Size,
         Len(dd.starts) = s => dd.cut \/ Fields[s].kind # "bits",
         NEW flags \in SUBSET {"PARTIAL", "INCOMPLETE"},
         ~Broken(Begins), FlagsTell(dd.flags \union flags), ArraysWhole(Len(dd.elements)),
         Decoded(dd, flags)
  PROVE  d' \in Decodings /\ Outcome(d', phase')
<1> DEFINE ee == [dd EXCEPT !.flags = @ \union flags, !.level = Larger(@, dd.defined)]
<1>1. d' = ee /\ phase' = "decoded"
  BY DEF Decoded
<1>2. /\ ee.starts = dd.starts /\ ee.cut = dd.cut /\ ee.elements = dd.elements /\ ee.pos = dd.pos
      /\ ee.flags = dd.flags \union flags /\ ee.level = Larger(dd.level, dd.defined)
  BY DEF Decodings
<1>3. ee \in Decodings
  <2>1. Larger(dd.level, dd.defined) \in Nat
    BY DEF Decodings, Larger
  <2>2. dd.flags \union flags \in SUBSET {"PARTIAL", "INCOMPLETE"}
    BY DEF Decodings
  <2> QED BY <2>1, <2>2 DEF Decodings
<1> HIDE DEF ee
<1>4. Shown(ee)
  <2> SUFFICES ASSUME NEW i \in DOMAIN Fields, NEW a \in spec.attributes,
                      i \in DOMAIN dd.starts, ~(dd.cut /\ i = Len(dd.starts)),
                      Describes(a, i), IsDefined(Fields[i], table)
               PROVE  a.level <= Larger(dd.level, dd.defined)
      BY <1>2 DEF Shown
  <2>1. dd.starts \in Seq(Nat)
    BY DEF Decodings
  <2>2. i \in 1 .. Len(dd.starts) /\ Len(dd.starts) \in Nat
    BY <2>1
  <2>3. i <= s /\ (i = s => Fields[i].kind # "bits")
    BY <2>2
  <2> QED BY <2>3, ShownTo
<1>5. Settled(ee)
  BY <1>2, <1>4 DEF Settled
<1>6. Outcome(ee, "decoded")
  BY <1>2, <1>5 DEF Outcome
<1> QED BY <1>1, <1>3, <1>6

\* A structure whose data ends within a field is decoded or broken.
LEMMA ShortSettles ==
  ASSUME Given, NEW s \in DOMAIN Fields, NEW dd \in Decodings, ReadTo(s, dd), LevelTo(s, dd),
         Size < Byte(s + 1),
         Len(dd.starts) = s, dd.pos <= Size, dd.cut \/ Fields[s].kind # "bits",
         ElementsTo(s, Len(dd.elements)) \/ IsArray(s),
         IsArray(s) => Whole(s, Len(dd.elements)),
         NEW incomplete \in BOOLEAN,
         incomplete <=> ~(IF IsArray(s) THEN HeaderEnds(Begins, s) \/ EndsInNumber(Begins, s)
                          ELSE Fields[s].length # Declared),
         Short(dd, incomplete)
  PROVE  d' \in Decodings /\ Outcome(d', phase')
<1>1. Broken(Begins) <=> ~dd.optional /\ ~incomplete
  BY BrokenIs
<1>2. CASE dd.optional \/ incomplete
  <2>1. Decoded(dd, {"INCOMPLETE"})
    BY <1>2 DEF Short
  <2>2. FlagsTell(dd.flags \union {"INCOMPLETE"})
    BY FlagsWithin DEF ReadTo
  <2>3. ArraysWhole(Len(dd.elements))
    <3>1. Byte(s) <= Size /\ s \in Nat /\ s + 1 \in 1 .. Len(Fields) + 1 /\ s \in 1 .. Len(Fields) + 1
      BY FieldsOfGiven DEF ReadTo
    <3>2. \A i \in DOMAIN Fields : i > s => Size <= Byte(i)
      <4> TAKE i \in DOMAIN Fields
      <4>1. i \in 1 .. Len(Fields) + 1
        BY FieldsOfGiven
      <4>2. Byte(i) \in Nat /\ Size \in Nat
        BY <4>1, BytePlaces, Arrived
      <4> QED BY <3>1, <4>2, EndsOnce
    <3>3. CASE IsArray(s)
      <4>3. \A i \in DOMAIN Fields : IsArray(i) => i = s
        BY <3>3, OneArray
      <4> QED BY <3>3, <4>3 DEF ArraysWhole
    <3>4. CASE ~IsArray(s)
      BY <3>2, <3>4, ArraysAtStop
    <3> QED BY <3>3, <3>4
  <2>4. s \in 1 .. Len(Fields) + 1 /\ s <= Len(Fields) /\ s \in Nat
    BY FieldsOfGiven
  <2> QED BY <1>1, <1>2, <2>1, <2>2, <2>3, <2>4, DecodedSettles
<1>3. CASE ~(dd.optional \/ incomplete)
  <2>1. phase' = "failed" /\ d' = [dd EXCEPT !.level = NoVersion]
    BY <1>3 DEF Short
  <2>2. d' \in Decodings
    <3>1. NoVersion \in Nat
      BY DEF NoVersion, V
    <3>2. [dd EXCEPT !.level = NoVersion] \in Decodings
      BY <3>1 DEF Decodings
    <3> QED BY <2>1, <3>2
  <2>3. d'.starts = dd.starts /\ Len(dd.starts) <= Len(Fields)
    BY <2>1, FieldsOfGiven DEF Decodings
  <2>4. Outcome(d', phase')
    BY <1>1, <1>3, <2>1, <2>3 DEF Outcome
  <2> QED BY <2>2, <2>4
<1> QED BY <1>2, <1>3

\* What the state of a decoding at a field amounts to.
LEMMA AtFieldFacts ==
  ASSUME Given, d \in Decodings, NEW s \in DOMAIN Fields, s = Len(d.starts) + 1, AtField(s, d)
  PROVE  /\ s \in Nat /\ s + 1 \in 1 .. Len(Fields) + 1 /\ s \in 1 .. Len(Fields) + 1
         /\ Len(d.starts) \in Nat /\ Len(Append(d.starts, AtBit)) = s
         /\ Append(d.starts, AtBit) \in Seq(Nat)
         /\ Left = Size - Byte(s) /\ Left \in Nat /\ Byte(s) \in Nat /\ Size \in Nat
         /\ d.pos = Byte(s) /\ d.pos \in Nat /\ Byte(s + 1) \in Nat /\ ~d.cut
<1>1. s \in Nat /\ s + 1 \in 1 .. Len(Fields) + 1 /\ s \in 1 .. Len(Fields) + 1
  BY FieldsOfGiven
<1>2. d.starts \in Seq(Nat) /\ AtBit \in Nat
  BY BitOfField DEF Decodings
<1>3. Len(d.starts) \in Nat /\ Len(Append(d.starts, AtBit)) = s /\ Append(d.starts, AtBit) \in Seq(Nat)
  BY <1>2
<1>4. Byte(s) \in Nat /\ Byte(s + 1) \in Nat /\ Size \in Nat /\ d.pos = Byte(s) /\ Byte(s) <= Size /\ ~d.cut
  BY <1>1, BytePlaces, Arrived DEF AtField, ReadTo
<1>5. Left = Size - Byte(s) /\ Left \in Nat
  BY <1>4 DEF Left, Size
<1> QED BY <1>1, <1>3, <1>4, <1>5

\* The values and the ranges of bits the data ends before or not.
LEMMA ConsumeKeeps ==
  ASSUME Given, d \in Decodings, phase = "decode",
         NEW s \in DOMAIN Fields, s = Len(d.starts) + 1, AtField(s, d),
         ~IsArray(s), ~GroupAt(s), Fields[s].length # Declared,
         NEW ends, IsEnds(ends), Byte(s + 1) = Byte(s) + Total(ends),
         NEW dd \in Decodings, dd.starts = d.starts, dd.pos = d.pos, dd.level = d.level,
         dd.flags = d.flags, dd.optional = d.optional, dd.cut = d.cut, dd.elements = d.elements,
         dd.taken = At(s + 1).taken, dd.defined >= d.defined,
         Fields[s].kind = "bits" /\ IsDefined(Fields[s], table) => dd.defined >= Fields[s].from,
         Consume(ends, dd)
  PROVE  d' \in Decodings /\ Outcome(d', phase')
<1>1. /\ s \in Nat /\ s + 1 \in 1 .. Len(Fields) + 1 /\ s \in 1 .. Len(Fields) + 1
      /\ Len(d.starts) \in Nat /\ Len(Append(d.starts, AtBit)) = s
      /\ Append(d.starts, AtBit) \in Seq(Nat)
      /\ Left = Size - Byte(s) /\ Left \in Nat /\ Byte(s) \in Nat /\ Size \in Nat
      /\ d.pos = Byte(s) /\ d.pos \in Nat /\ Byte(s + 1) \in Nat /\ ~d.cut
  BY AtFieldFacts
<1>2. ReadTo(s, d) /\ LevelTo(s, d) /\ ElementsTo(s, Len(d.elements))
  BY DEF AtField
<1>3. Total(ends) \in Nat
  BY TotalOf
<1>4. CASE Total(ends) <= Left
  <2> DEFINE ee == [Entered(dd) EXCEPT !.pos = @ + Total(ends)]
  <2>1. d' = ee /\ phase' = "decode"
    BY <1>4 DEF Consume
  <2>2. ee \in Decodings
    BY <1>1, <1>3 DEF Decodings, Entered
  <2>3. /\ ee.starts = Append(d.starts, AtBit) /\ ee.pos = Byte(s + 1) /\ ee.level = d.level
        /\ ee.flags = d.flags /\ ee.optional = d.optional /\ ee.cut = d.cut
        /\ ee.elements = d.elements /\ ee.taken = At(s + 1).taken /\ ee.defined = dd.defined
    BY <1>1 DEF Decodings, Entered
  <2> HIDE DEF ee
  <2>4. Byte(s + 1) <= Size
    BY <1>1, <1>3, <1>4
  <2>5. ReadTo(s + 1, ee)
    <3>1. ~IsLeftOver(s) /\ "PARTIAL" \notin ee.flags
      BY <1>2, <2>3 DEF IsLeftOver, ReadTo
    <3> QED BY <1>2, <2>3, <2>4, <3>1, ReadOnTo
  <2>6. LevelTo(s + 1, ee)
    BY <1>2, <2>2, <2>3, LevelOnTo
  <2>7. ElementsTo(s + 1, Len(ee.elements))
    BY <1>2, <2>3, ElementsOnTo
  <2>8. Len(ee.starts) = s
    BY <1>1, <2>3
  <2>9. AtField(s + 1, ee)
    BY <1>1, <2>3, <2>5, <2>6, <2>7 DEF AtField
  <2>10. s <= Len(Fields) /\ ee.pos <= Size
    BY <2>3, <2>4, FieldsOfGiven
  <2>11. Outcome(ee, "decode")
    BY <2>8, <2>9, <2>10 DEF Outcome
  <2> QED BY <2>1, <2>2, <2>11
<1>5. CASE ~(Total(ends) <= Left)
  <2> DEFINE ee == [Entered(d) EXCEPT !.pos = @ + Taken(ends, Left), !.cut = TRUE]
  <2>1. Short(ee, FALSE)
    BY <1>5 DEF Consume
  <2>2. Taken(ends, Left) \in Nat /\ Taken(ends, Left) <= Left
    BY <1>1, TakenOf
  <2>3. ee \in Decodings
    <3>1. Entered(d) \in Decodings /\ Entered(d).pos = d.pos
      BY <1>1 DEF Decodings, Entered
    <3>2. Entered(d).pos + Taken(ends, Left) \in Nat
      BY <1>1, <2>2, <3>1
    <3> QED BY <3>1, <3>2 DEF Decodings
  <2>4. /\ ee.starts = Append(d.starts, AtBit) /\ ee.pos = Byte(s) + Taken(ends, Left)
        /\ ee.level = d.level /\ ee.flags = d.flags /\ ee.optional = d.optional /\ ee.cut
        /\ ee.elements = d.elements /\ ee.defined = d.defined
    BY <1>1 DEF Decodings, Entered
  <2> HIDE DEF ee
  <2>5. Size < Byte(s + 1) /\ ee.pos <= Size /\ Len(ee.starts) = s
    BY <1>1, <1>3, <1>5, <2>2, <2>4
  <2>6. ReadTo(s, ee) /\ LevelTo(s, ee) /\ ElementsTo(s, Len(ee.elements))
    BY <1>2, <2>4 DEF ReadTo, LevelTo
  <2> QED BY <2>1, <2>3, <2>4, <2>5, <2>6, ShortSettles
<1> QED BY <1>4, <1>5

\* The state a field is read in.
LEMMA AtHere ==
  ASSUME Given, d \in Decodings, Outcome(d, phase), phase = "decode", Here <= Len(Fields)
  PROVE  Here \in DOMAIN Fields /\ Here = Len(d.starts) + 1 /\ AtField(Here, d)
<1>1. Here = Len(d.starts) + 1 /\ Len(d.starts) \in Nat
  BY DEF Here, Decodings
<1>2. AtField(Here, d)
  BY <1>1 DEF Outcome
<1> QED BY <1>1, <1>2, FieldsOfGiven

\* Fields that take nothing are only remembered.
LEMMA EnteredKeeps ==
  ASSUME Given, d \in Decodings, phase = "decode",
         NEW s \in DOMAIN Fields, s = Len(d.starts) + 1, AtField(s, d),
         Byte(s + 1) = Byte(s), At(s + 1).taken = At(s).taken,
         ~IsArray(s), GroupAt(s) => Byte(s) # Size,
         NEW ee \in Decodings, ee.starts = Append(d.starts, AtBit), ee.pos = d.pos,
         ee.flags = d.flags, ee.optional <=> d.optional \/ GroupAt(s), ee.cut = d.cut,
         ee.elements = d.elements, ee.taken = d.taken, LevelTo(s + 1, ee)
  PROVE  Outcome(ee, "decode")
<1>1. /\ s \in Nat /\ s + 1 \in 1 .. Len(Fields) + 1
      /\ Len(Append(d.starts, AtBit)) = s
      /\ d.pos = Byte(s) /\ ~d.cut /\ s <= Len(Fields)
  BY AtFieldFacts, FieldsOfGiven
<1>2. ReadTo(s, d) /\ LevelTo(s, d) /\ ElementsTo(s, Len(d.elements)) /\ d.taken = At(s).taken
  BY DEF AtField
<1>3. Byte(s + 1) <= Size
  BY <1>2 DEF ReadTo
<1>4. ReadTo(s + 1, ee)
  <2>1. ~IsLeftOver(s) /\ "PARTIAL" \notin ee.flags
    BY <1>2 DEF IsLeftOver, ReadTo
  <2> QED BY <1>2, <1>3, <2>1, ReadOnTo
<1>5. ElementsTo(s + 1, Len(ee.elements))
  BY <1>2, ElementsOnTo
<1>6. AtField(s + 1, ee)
  BY <1>1, <1>2, <1>4, <1>5 DEF AtField
<1> QED BY <1>1, <1>3, <1>6 DEF Outcome

LEMMA NotDecodedIs == NotDecoded \in Decodings
<1>1. NoVersion \in Nat /\ HeaderLength \in Nat /\ << >> \in Seq(Nat) /\ 0 \in Nat
  BY DEF NoVersion, V, HeaderLength
<1>2. {} \in SUBSET Names /\ FALSE \in BOOLEAN /\ {} \in SUBSET {"PARTIAL", "INCOMPLETE"}
      /\ "" \in Names
  BY DEF Names
<1> QED BY <1>1, <1>2, Zenon DEF NotDecoded, Decodings

LEMMA StartKeeps ==
  ASSUME Given, d \in Decodings, Outcome(d, phase), DecodeStart
  PROVE  d' \in Decodings /\ Outcome(d', phase')
<1>1. NotDecoded \in Decodings
  BY NotDecodedIs
<1>2. Size \in Nat /\ spec.minimum \in Nat /\ spec.minimum >= HeaderLength /\ spec.since \in Nat
  BY DEF Given, Body, Size, WellFormed
<1>3. CASE body.length < spec.minimum
  <2>1. phase' = "failed" /\ d' = NotDecoded
    BY <1>3 DEF DecodeStart
  <2>2. Broken(Begins)
    BY <1>3 DEF Broken
  <2>3. Len(NotDecoded.starts) <= Len(Fields)
    BY FieldsOfGiven DEF NotDecoded
  <2> QED BY <1>1, <2>1, <2>2, <2>3 DEF Outcome
<1>4. CASE ~(body.length < spec.minimum)
  <2> DEFINE ee == [NotDecoded EXCEPT !.level = spec.since]
  <2>1. phase' = "decode" /\ d' = ee
    BY <1>4 DEF DecodeStart
  <2>2. ee \in Decodings
    BY <1>1, <1>2 DEF Decodings
  <2>3. /\ ee.starts = << >> /\ ee.pos = HeaderLength /\ ~ee.cut /\ ee.taken = 0 /\ ~ee.optional
        /\ ee.flags = {} /\ ee.elements = << >> /\ ee.level = spec.since
    BY DEF NotDecoded
  <2> HIDE DEF ee
  <2>4. At(1).bit = 8 * HeaderLength /\ At(1).taken = 0
    BY BeginsOf DEF At, FirstBegins
  <2>5. Byte(1) = HeaderLength
    BY <2>4, BytesOfBits DEF Byte, HeaderLength
  <2>6. \A j : j \notin 1 .. 1 - 1
    OBVIOUS
  <2>7. Size >= HeaderLength /\ Size >= spec.minimum
    BY <1>2, <1>4 DEF Size, HeaderLength
  <2>8. ReadTo(1, ee)
    BY <2>3, <2>5, <2>6, <2>7 DEF ReadTo, HeaderLength
  <2>9. LevelTo(1, ee)
    BY <1>2, <2>3, <2>6 DEF LevelTo
  <2>10. ElementsTo(1, 0) /\ Len(ee.elements) = 0 /\ Len(ee.starts) = 0
    BY <2>3, <2>6 DEF ElementsTo
  <2>11. Len(Fields) \in Nat
    BY FieldsOfGiven
  <2>12. AtField(1, ee)
    BY <2>3, <2>4, <2>5, <2>8, <2>9, <2>10, <2>11 DEF AtField
  <2>13. Outcome(ee, "decode")
    BY <2>3, <2>7, <2>10, <2>11, <2>12 DEF Outcome
  <2> QED BY <2>1, <2>2, <2>13
<1> QED BY <1>3, <1>4

LEMMA OffsetKeeps ==
  ASSUME Given, d \in Decodings, Outcome(d, phase), DecodeOffset
  PROVE  d' \in Decodings /\ Outcome(d', phase')
<1> DEFINE s == Here
<1>1. phase = "decode" /\ Fields[s].kind = "offset" /\ Here <= Len(Fields)
  BY DEF DecodeOffset, Decodes
<1>2. s \in DOMAIN Fields /\ s = Len(d.starts) + 1 /\ AtField(s, d)
  BY <1>1, AtHere
<1> HIDE DEF s
<1>3. d.pos = Fields[s].offset
  BY <1>1, <1>2, OffsetPlaces DEF AtField
<1>4. d' = Entered(d) /\ phase' = "decode"
  BY <1>1, <1>3 DEF DecodeOffset, s
<1>5. Append(d.starts, AtBit) \in Seq(Nat)
  BY <1>2, AtFieldFacts
<1>6. Entered(d) \in Decodings /\ Entered(d).starts = Append(d.starts, AtBit)
      /\ Entered(d).pos = d.pos /\ Entered(d).flags = d.flags /\ Entered(d).optional = d.optional
      /\ Entered(d).cut = d.cut /\ Entered(d).elements = d.elements /\ Entered(d).taken = d.taken
      /\ Entered(d).level = d.level /\ Entered(d).defined = d.defined /\ d.defined \in Nat
  BY <1>5 DEF Entered, Decodings
<1>7. At(s + 1) = At(s) /\ Byte(s + 1) = Byte(s) /\ ~IsArray(s) /\ ~GroupAt(s) /\ Fields[s].kind # "bits"
  BY <1>1, <1>2, GroupsTakeNothing DEF IsArray, GroupAt
<1>8. LevelTo(s + 1, Entered(d))
  BY <1>2, <1>6, <1>7, LevelOnTo DEF AtField
<1>9. Outcome(Entered(d), "decode")
  BY <1>1, <1>2, <1>6, <1>7, <1>8, EnteredKeeps
<1> QED BY <1>4, <1>6, <1>9

LEMMA PresetKeeps ==
  ASSUME Given, d \in Decodings, Outcome(d, phase), DecodePreset
  PROVE  d' \in Decodings /\ Outcome(d', phase')
<1> DEFINE s == Here
<1>1. phase = "decode" /\ Fields[s].kind = "preset" /\ Here <= Len(Fields)
  BY DEF DecodePreset, Decodes
<1>2. s \in DOMAIN Fields /\ s = Len(d.starts) + 1 /\ AtField(s, d)
  BY <1>1, AtHere
<1>4. d' = Entered(d) /\ phase' = "decode"
  BY <1>1 DEF DecodePreset
<1> HIDE DEF s
<1>5. Append(d.starts, AtBit) \in Seq(Nat)
  BY <1>2, AtFieldFacts
<1>6. Entered(d) \in Decodings /\ Entered(d).starts = Append(d.starts, AtBit)
      /\ Entered(d).pos = d.pos /\ Entered(d).flags = d.flags /\ Entered(d).optional = d.optional
      /\ Entered(d).cut = d.cut /\ Entered(d).elements = d.elements /\ Entered(d).taken = d.taken
      /\ Entered(d).level = d.level /\ Entered(d).defined = d.defined /\ d.defined \in Nat
  BY <1>5 DEF Entered, Decodings
<1>7. At(s + 1) = At(s) /\ Byte(s + 1) = Byte(s) /\ ~IsArray(s) /\ ~GroupAt(s) /\ Fields[s].kind # "bits"
  BY <1>1, <1>2, GroupsTakeNothing DEF IsArray, GroupAt
<1>8. LevelTo(s + 1, Entered(d))
  BY <1>2, <1>6, <1>7, LevelOnTo DEF AtField
<1>9. Outcome(Entered(d), "decode")
  BY <1>1, <1>2, <1>6, <1>7, <1>8, EnteredKeeps
<1> QED BY <1>4, <1>6, <1>9

\* Marking the member of a group changes nothing else.
LEMMA MarkedIs ==
  ASSUME d \in Decodings
  PROVE  /\ Marked(d) \in Decodings /\ Marked(d).starts = d.starts /\ Marked(d).pos = d.pos
         /\ Marked(d).flags = d.flags /\ Marked(d).optional = d.optional /\ Marked(d).cut = d.cut
         /\ Marked(d).elements = d.elements /\ Marked(d).taken = d.taken
         /\ Marked(d).level = d.level /\ Marked(d).defined = d.defined
<1>1. d.marked \union ({d.group} \ {""}) \in SUBSET Names
  BY DEF Decodings
<1> QED BY <1>1 DEF Marked, Decodings

LEMMA GroupKeeps ==
  ASSUME Given, d \in Decodings, Outcome(d, phase), DecodeGroup
  PROVE  d' \in Decodings /\ Outcome(d', phase')
<1> DEFINE s == Here
           g == Fields[s]
           m == Marked(d)
<1>1. phase = "decode" /\ g.kind = "group" /\ Here <= Len(Fields)
  BY DEF DecodeGroup, Decodes
<1>2. s \in DOMAIN Fields /\ s = Len(d.starts) + 1 /\ AtField(s, d)
  BY <1>1, AtHere
<1>3. /\ s \in Nat /\ s + 1 \in 1 .. Len(Fields) + 1 /\ s \in 1 .. Len(Fields) + 1
      /\ Len(d.starts) \in Nat /\ Append(d.starts, AtBit) \in Seq(Nat)
      /\ Left = Size - Byte(s) /\ Left \in Nat /\ Byte(s) \in Nat /\ Size \in Nat
      /\ d.pos = Byte(s)
  BY <1>2, AtFieldFacts
<1>4. /\ m \in Decodings /\ m.starts = d.starts /\ m.pos = d.pos
      /\ m.flags = d.flags /\ m.optional = d.optional /\ m.cut = d.cut
      /\ m.elements = d.elements /\ m.taken = d.taken /\ m.level = d.level /\ m.defined = d.defined
  BY MarkedIs
<1>5. ReadTo(s, d) /\ LevelTo(s, d) /\ ElementsTo(s, Len(d.elements)) /\ ~d.cut
  BY <1>2 DEF AtField
<1>6. GroupAt(s) /\ ~IsArray(s) /\ g.kind # "bits" /\ At(s + 1) = At(s) /\ Byte(s + 1) = Byte(s)
  BY <1>1, <1>2, GroupsTakeNothing DEF GroupAt, IsArray
<1>7. IsField(g) /\ Len(Fields) \in Nat /\ s <= Len(Fields)
  BY <1>2, FieldsOfGiven
<1>8. CASE Left = 0
  <2>1. Decoded(m, {"PARTIAL"})
    BY <1>8 DEF DecodeGroup
  <2> HIDE DEF m, s, g
  <2>2. LevelTo(s, m)
    BY <1>4, <1>5 DEF LevelTo
  <2>3. Byte(s) = Size
    BY <1>3, <1>8
  <2>4. ~Broken(Begins)
    BY <1>3, <1>5, <1>6, NotBroken
  <2>5. FlagsTell(m.flags \union {"PARTIAL"})
    BY <1>2, <1>4, <1>5, <1>6, <2>3, FlagsAtGroup
  <2>6. ArraysWhole(Len(m.elements))
    <3>1. \A i \in DOMAIN Fields : i > s => Size <= Byte(i)
      <4> TAKE i \in DOMAIN Fields
      <4>1. i \in 1 .. Len(Fields) + 1 /\ i \in Nat
        BY FieldsOfGiven
      <4> QED BY <1>3, <2>3, <4>1, BeginsGrow
    <3> QED BY <1>2, <1>4, <1>5, <1>6, <3>1, ArraysAtStop
  <2>7. Len(m.starts) <= s /\ Len(m.starts) # s /\ Len(m.starts) <= Len(Fields) /\ m.pos <= Size
    BY <1>2, <1>3, <1>4, <1>7, <2>3
  <2> QED BY <1>3, <1>4, <2>1, <2>2, <2>4, <2>5, <2>6, <2>7, DecodedSettles
<1>9. CASE Left # 0
  <2> DEFINE ee == [Entered(m) EXCEPT !.group = g.present, !.optional = TRUE,
                                      !.level = IF g.since # NoVersion THEN g.since ELSE @]
  <2>1. d' = ee /\ phase' = "decode"
    BY <1>1, <1>9 DEF DecodeGroup
  <2> HIDE DEF m, s, g
  <2>2. Entered(m) \in Decodings /\ Entered(m).starts = Append(d.starts, AtBit)
        /\ Entered(m).pos = d.pos /\ Entered(m).flags = d.flags /\ Entered(m).cut = d.cut
        /\ Entered(m).elements = d.elements /\ Entered(m).taken = d.taken
        /\ Entered(m).level = d.level /\ Entered(m).defined = d.defined
    BY <1>3, <1>4 DEF Entered, Decodings
  <2>3. g.present \in Names /\ g.since \in Nat
    BY <1>7 DEF IsField, Names
  <2>4. ee \in Decodings
    BY <2>2, <2>3 DEF Decodings
  <2>5. /\ ee.starts = Append(d.starts, AtBit) /\ ee.pos = d.pos /\ ee.flags = d.flags /\ ee.optional
        /\ ee.cut = d.cut /\ ee.elements = d.elements /\ ee.taken = d.taken
        /\ ee.defined = d.defined
        /\ ee.level = IF g.since # NoVersion THEN g.since ELSE d.level
    BY <2>2 DEF Decodings
  <2> HIDE DEF ee
  <2>6. LevelTo(s + 1, ee)
    BY <1>2, <1>5, <1>6, <2>4, <2>5, LevelOfGroup DEF g
  <2>7. Byte(s) # Size
    BY <1>3, <1>9
  <2>8. Outcome(ee, "decode")
    BY <1>1, <1>2, <1>6, <2>4, <2>5, <2>6, <2>7, EnteredKeeps
  <2> QED BY <2>1, <2>4, <2>8
<1> QED BY <1>8, <1>9

LEMMA EndKeeps ==
  ASSUME Given, d \in Decodings, Outcome(d, phase), DecodeEnd
  PROVE  d' \in Decodings /\ Outcome(d', phase')
<1> DEFINE m == Marked(d)
           s == Len(Fields) + 1
<1>1. phase = "decode" /\ Here > Len(Fields) /\ Decoded(m, {})
  BY DEF DecodeEnd
<1>2. /\ m \in Decodings /\ m.starts = d.starts /\ m.pos = d.pos
      /\ m.flags = d.flags /\ m.optional = d.optional /\ m.cut = d.cut
      /\ m.elements = d.elements /\ m.taken = d.taken /\ m.level = d.level /\ m.defined = d.defined
  BY MarkedIs
<1>3. Len(Fields) \in Nat /\ DOMAIN Fields = 1 .. Len(Fields) /\ Len(d.starts) \in Nat
  BY FieldsOfGiven DEF Decodings
<1>4. AtField(s, d) /\ Len(d.starts) = Len(Fields)
  BY <1>1, <1>3 DEF Outcome, Here, AtField
<1>5. ReadTo(s, d) /\ LevelTo(s, d) /\ ElementsTo(s, Len(d.elements)) /\ ~d.cut
      /\ d.pos = Byte(s) /\ Byte(s) <= Size
  BY <1>4 DEF AtField, ReadTo
<1>6. s \in 1 .. Len(Fields) + 1 /\ s \notin DOMAIN Fields
  BY <1>3
<1>7. ~Broken(Begins)
  BY <1>5, <1>6, NotBroken
<1>8. FlagsTell(m.flags \union {}) /\ {} \in SUBSET {"PARTIAL", "INCOMPLETE"}
  <2>1. m.flags \union {} = d.flags
    BY <1>2
  <2> QED BY <1>5, <2>1, FlagsAtEnd
<1>9. ArraysWhole(Len(m.elements))
  BY <1>2, <1>5, ArraysAtEnd
<1>10. LevelTo(s, m)
  BY <1>2, <1>5 DEF LevelTo
<1>11. Len(m.starts) <= s /\ Len(m.starts) # s /\ Len(m.starts) <= Len(Fields) /\ m.pos <= Size
  <2>1. Len(m.starts) = Len(Fields) /\ m.pos = Byte(s)
    BY <1>2, <1>4, <1>5
  <2>2. Len(Fields) <= s /\ Len(Fields) # s /\ Len(Fields) <= Len(Fields)
    <3>1. \A n \in Nat : n <= n + 1 /\ n # n + 1 /\ n <= n
      OBVIOUS
    <3>2. Len(Fields) \in Nat
      BY <1>3
    <3> QED BY <3>1, <3>2
  <2>3. m.pos <= Size
    BY <1>5, <2>1
  <2> HIDE DEF m, s
  <2> QED BY <2>1, <2>2, <2>3
<1> HIDE DEF m, s
<1> QED BY <1>1, <1>2, <1>6, <1>7, <1>8, <1>9, <1>10, <1>11, DecodedSettles DEF s

LEMMA ValueKeeps ==
  ASSUME Given, d \in Decodings, Outcome(d, phase), DecodeValue
  PROVE  d' \in Decodings /\ Outcome(d', phase')
<1> DEFINE s == Here
           f == Fields[s]
           dd == [d EXCEPT !.kept = IF TellsLength(f) THEN body.declared ELSE @,
                           !.wide = IF f.extended /\ f.when \in body.extended
                                      THEN @ \union {f.member} ELSE @]
<1>1. /\ phase = "decode" /\ f.kind \in {"integer", "string", "bcd", "uuid", "binary", "skip"}
      /\ Here <= Len(Fields) /\ f.length \notin {Rest, Declared} /\ Consume({0, f.length}, dd)
  BY DEF DecodeValue, Decodes
<1>2. s \in DOMAIN Fields /\ s = Len(d.starts) + 1 /\ AtField(s, d)
  BY <1>1, AtHere
<1> HIDE DEF s
<1>3. IsField(f) /\ f.length \in Nat /\ f.member \in Names
  BY <1>1, <1>2, FieldsOfGiven DEF IsField, Names
<1>4. body.declared \in Nat
  BY DEF Given, Body
<1>5. /\ dd \in Decodings /\ dd.starts = d.starts /\ dd.pos = d.pos /\ dd.level = d.level
      /\ dd.flags = d.flags /\ dd.optional = d.optional /\ dd.cut = d.cut
      /\ dd.elements = d.elements /\ dd.taken = d.taken /\ dd.defined = d.defined /\ d.defined \in Nat
  <2>1. (IF TellsLength(f) THEN body.declared ELSE d.kept) \in Nat
    BY <1>4 DEF Decodings
  <2>2. (IF f.extended /\ f.when \in body.extended THEN d.wide \union {f.member} ELSE d.wide)
          \in SUBSET Names
    BY <1>3 DEF Decodings
  <2> HIDE DEF f
  <2> QED BY <2>1, <2>2 DEF Decodings
<1> HIDE DEF dd
<1>6. IsEnds({0, f.length}) /\ Total({0, f.length}) = f.length
  BY <1>3, ValueEnds
<1>7. Extent(s, Byte(s)) = f.length
  BY <1>1 DEF Extent
<1>8. At(s + 1).taken = At(s).taken /\ Byte(s + 1) = Byte(s) + f.length
  BY <1>1, <1>2, <1>7, PlainReaches
<1>9. ~IsArray(s) /\ ~GroupAt(s) /\ f.length # Declared /\ f.kind # "bits" /\ d.taken = At(s).taken
  BY <1>1, <1>2 DEF IsArray, GroupAt, AtField
<1> HIDE DEF f
<1> QED BY <1>1, <1>2, <1>5, <1>6, <1>8, <1>9, ConsumeKeeps DEF f

LEMMA VectorKeeps ==
  ASSUME Given, d \in Decodings, Outcome(d, phase), DecodeVector
  PROVE  d' \in Decodings /\ Outcome(d', phase')
<1> DEFINE s == Here
           f == Fields[s]
           ends == Repeated(f.count, Reads(s))
<1>1. phase = "decode" /\ f.kind = "vector" /\ Here <= Len(Fields) /\ Consume(ends, d)
  BY DEF DecodeVector, Decodes
<1>2. s \in DOMAIN Fields /\ s = Len(d.starts) + 1 /\ AtField(s, d)
  BY <1>1, AtHere
<1> HIDE DEF s
<1>3. IsField(f) /\ IsEnds(Reads(s)) /\ f.count \in Nat /\ f.count > 0
      /\ f.length # Rest /\ f.length # Declared
  BY <1>1, <1>2, FieldsOfGiven DEF IsField
<1>4. IsEnds(ends) /\ Total(ends) = f.count * ElementSize(s)
  BY <1>3, RepeatedEnds DEF ElementSize
<1>5. Extent(s, Byte(s)) = f.count * ElementSize(s)
  BY <1>1, <1>3 DEF Extent
<1> HIDE DEF ends
<1>6. At(s + 1).taken = At(s).taken /\ Byte(s + 1) = Byte(s) + Total(ends)
  BY <1>1, <1>2, <1>4, <1>5, PlainReaches
<1>7. ~IsArray(s) /\ ~GroupAt(s) /\ f.kind # "bits" /\ d.taken = At(s).taken /\ d.defined \in Nat
  BY <1>1, <1>2 DEF IsArray, GroupAt, AtField, Decodings
<1> HIDE DEF f
<1>8. d.defined >= d.defined
  BY <1>7
<1> QED BY <1>1, <1>2, <1>3, <1>4, <1>6, <1>7, <1>8, ConsumeKeeps DEF f

LEMMA BitsKeep ==
  ASSUME Given, d \in Decodings, Outcome(d, phase), DecodeBits
  PROVE  d' \in Decodings /\ Outcome(d', phase')
<1> DEFINE s == Here
           f == Fields[s]
           dd == [d EXCEPT !.taken = @ + f.bits, !.defined = Larger(@, f.from)]
           ends == Bytewise(BitsRead(d.taken, f.bits))
<1>1. /\ phase = "decode" /\ f.kind = "bits" /\ Here <= Len(Fields)
      /\ IF ~IsDefined(f, table) THEN d' = Entered(d) /\ UNCHANGED phase ELSE Consume(ends, dd)
  BY DEF DecodeBits, Decodes
<1>2. s \in DOMAIN Fields /\ s = Len(d.starts) + 1 /\ AtField(s, d)
  BY <1>1, AtHere
<1> HIDE DEF s
<1>3. IsField(f) /\ f.bits \in Nat /\ f.from \in Nat /\ f.length # Declared
      /\ d.taken \in Nat /\ d.defined \in Nat /\ d.taken = At(s).taken
  BY <1>1, <1>2, FieldsOfGiven DEF IsField, Decodings, AtField
<1>4. ~IsArray(s) /\ ~GroupAt(s)
  BY <1>1 DEF IsArray, GroupAt
<1>5. CASE ~IsDefined(f, table)
  <2>1. d' = Entered(d) /\ phase' = "decode"
    BY <1>1, <1>5
  <2>2. Append(d.starts, AtBit) \in Seq(Nat)
    BY <1>2, AtFieldFacts
  <2>3. Entered(d) \in Decodings /\ Entered(d).starts = Append(d.starts, AtBit)
        /\ Entered(d).pos = d.pos /\ Entered(d).flags = d.flags /\ Entered(d).optional = d.optional
        /\ Entered(d).cut = d.cut /\ Entered(d).elements = d.elements /\ Entered(d).taken = d.taken
        /\ Entered(d).level = d.level /\ Entered(d).defined = d.defined
    BY <2>2 DEF Entered, Decodings
  <2>4. At(s + 1) = At(s) /\ Byte(s + 1) = Byte(s)
    BY <1>1, <1>2, <1>5, BitsReach DEF Byte
  <2>5. LevelTo(s + 1, Entered(d))
    BY <1>2, <1>3, <1>4, <1>5, <2>3, LevelOnTo DEF AtField
  <2>6. Outcome(Entered(d), "decode")
    BY <1>1, <1>2, <1>4, <2>3, <2>4, <2>5, EnteredKeeps
  <2> QED BY <2>1, <2>3, <2>6
<1>6. CASE IsDefined(f, table)
  <2>1. Consume(ends, dd)
    BY <1>1, <1>6
  <2>2. Larger(d.defined, f.from) \in Nat /\ Larger(d.defined, f.from) >= d.defined
        /\ Larger(d.defined, f.from) >= f.from
    BY <1>3 DEF Larger
  <2>3. /\ dd \in Decodings /\ dd.starts = d.starts /\ dd.pos = d.pos /\ dd.level = d.level
        /\ dd.flags = d.flags /\ dd.optional = d.optional /\ dd.cut = d.cut
        /\ dd.elements = d.elements /\ dd.taken = d.taken + f.bits
        /\ dd.defined = Larger(d.defined, f.from)
    <3> DEFINE t == d.taken + f.bits
               l == Larger(d.defined, f.from)
    <3>1. t \in Nat /\ l \in Nat
      BY <1>3, <2>2
    <3>2. dd = [d EXCEPT !.taken = t, !.defined = l]
      OBVIOUS
    <3> HIDE DEF t, l, dd
    <3>3. /\ dd \in Decodings /\ dd.starts = d.starts /\ dd.pos = d.pos /\ dd.level = d.level
          /\ dd.flags = d.flags /\ dd.optional = d.optional /\ dd.cut = d.cut
          /\ dd.elements = d.elements /\ dd.taken = t /\ dd.defined = l
      BY <3>1, <3>2 DEF Decodings
    <3> QED BY <3>3 DEF t, l
  <2> HIDE DEF dd
  <2>4. At(s + 1).taken = d.taken + f.bits /\ BitsRead(d.taken, f.bits) \in Nat
        /\ Byte(s + 1) = Byte(s) + BitsRead(d.taken, f.bits)
    BY <1>1, <1>2, <1>3, <1>6, BitsReach
  <2>5. IsEnds(ends) /\ Total(ends) = BitsRead(d.taken, f.bits)
    BY <2>4, BytewiseEnds
  <2> HIDE DEF ends, f
  <2> QED BY <1>1, <1>2, <1>3, <1>4, <2>1, <2>2, <2>3, <2>4, <2>5, ConsumeKeeps DEF f
<1> QED BY <1>5, <1>6

LEMMA PadKeeps ==
  ASSUME Given, d \in Decodings, Outcome(d, phase), DecodePad
  PROVE  d' \in Decodings /\ Outcome(d', phase')
<1> DEFINE s == Here
           f == Fields[s]
           dd == [d EXCEPT !.taken = 0]
           n == BitsRead(d.taken, Padding(d.taken, f.bits))
<1>1. /\ phase = "decode" /\ f.kind = "pad" /\ Here <= Len(Fields) /\ Consume(Bytewise(n), dd)
  BY DEF DecodePad, Decodes
<1>2. s \in DOMAIN Fields /\ s = Len(d.starts) + 1 /\ AtField(s, d)
  BY <1>1, AtHere
<1> HIDE DEF s
<1>3. f.length # Declared /\ d.defined \in Nat /\ d.taken = At(s).taken
  BY <1>1, <1>2, FieldsOfGiven DEF IsField, Decodings, AtField
<1>4. ~IsArray(s) /\ ~GroupAt(s) /\ f.kind # "bits"
  BY <1>1 DEF IsArray, GroupAt
<1>5. /\ dd \in Decodings /\ dd.starts = d.starts /\ dd.pos = d.pos /\ dd.level = d.level
      /\ dd.flags = d.flags /\ dd.optional = d.optional /\ dd.cut = d.cut
      /\ dd.elements = d.elements /\ dd.taken = 0 /\ dd.defined = d.defined
  BY DEF Decodings
<1>6. At(s + 1).taken = 0 /\ n \in Nat /\ Byte(s + 1) = Byte(s) + n
  BY <1>1, <1>2, <1>3, PadReaches
<1> HIDE DEF dd, n, f
<1>7. IsEnds(Bytewise(n)) /\ Total(Bytewise(n)) = n
  BY <1>6, BytewiseEnds
<1>8. d.defined >= d.defined
  BY <1>3
<1> QED BY <1>1, <1>2, <1>3, <1>4, <1>5, <1>6, <1>7, <1>8, ConsumeKeeps DEF f

LEMMA BinaryKeeps ==
  ASSUME Given, d \in Decodings, Outcome(d, phase), DecodeBinary
  PROVE  d' \in Decodings /\ Outcome(d', phase')
<1> DEFINE s == Here
           f == Fields[s]
           n == IF f.length = Rest THEN Left ELSE Smaller(body.declared, Left)
           dd == [Entered(d) EXCEPT !.pos = @ + n, !.kept = n, !.data = TRUE]
<1>1. /\ phase = "decode" /\ f.kind = "binary" /\ Here <= Len(Fields) /\ f.length \in {Rest, Declared}
      /\ IF f.length = Declared /\ body.declared > Left THEN Short(dd, TRUE)
         ELSE d' = dd /\ UNCHANGED phase
  BY DEF DecodeBinary, Decodes
<1>2. s \in DOMAIN Fields /\ s = Len(d.starts) + 1 /\ AtField(s, d)
  BY <1>1, AtHere
<1> HIDE DEF s
<1>3. /\ s \in Nat /\ s + 1 \in 1 .. Len(Fields) + 1 /\ s \in 1 .. Len(Fields) + 1
      /\ Len(Append(d.starts, AtBit)) = s /\ Append(d.starts, AtBit) \in Seq(Nat)
      /\ Left = Size - Byte(s) /\ Left \in Nat /\ Byte(s) \in Nat /\ Size \in Nat
      /\ d.pos = Byte(s) /\ d.pos \in Nat /\ ~d.cut /\ s <= Len(Fields)
  <2>1. DOMAIN Fields = 1 .. Len(Fields) /\ Len(Fields) \in Nat
    BY FieldsOfGiven
  <2>2. s <= Len(Fields)
    BY <1>2, <2>1
  <2> QED BY <1>2, <2>2, AtFieldFacts
<1>4. body.declared \in Nat
  BY DEF Given, Body
<1>5. n \in Nat /\ n <= Left
  BY <1>3, <1>4 DEF Smaller
<1>6. ReadTo(s, d) /\ LevelTo(s, d) /\ ElementsTo(s, Len(d.elements)) /\ d.taken = At(s).taken
  BY <1>2 DEF AtField
<1>7. ~IsArray(s) /\ ~GroupAt(s) /\ f.kind # "bits" /\ f.kind \notin {"bits", "pad"}
  BY <1>1 DEF IsArray, GroupAt
<1>8. Extent(s, Byte(s)) = IF f.length = Rest THEN Left ELSE body.declared
  <2>1. Rest # Declared
    BY DEF Rest, Declared
  <2>2. Larger(body.length - Byte(s), 0) = Left
    BY <1>3 DEF Larger, Size
  <2> QED BY <1>1, <2>1, <2>2 DEF Extent
<1>9. At(s + 1).taken = At(s).taken /\ Byte(s + 1) = Byte(s) + Extent(s, Byte(s))
  BY <1>2, <1>7, PlainReaches
<1>10. /\ dd \in Decodings /\ dd.starts = Append(d.starts, AtBit) /\ dd.pos = Byte(s) + n
       /\ dd.level = d.level /\ dd.flags = d.flags /\ dd.optional = d.optional /\ ~dd.cut
       /\ dd.elements = d.elements /\ dd.taken = d.taken /\ dd.defined = d.defined
       /\ d.defined \in Nat
  <2> HIDE DEF n
  <2>1. Entered(d) \in Decodings /\ Entered(d).starts = Append(d.starts, AtBit)
        /\ Entered(d).pos = d.pos /\ Entered(d).flags = d.flags /\ Entered(d).optional = d.optional
        /\ Entered(d).cut = d.cut /\ Entered(d).elements = d.elements /\ Entered(d).taken = d.taken
        /\ Entered(d).level = d.level /\ Entered(d).defined = d.defined /\ d.defined \in Nat
    BY <1>3 DEF Entered, Decodings
  <2>2. d.pos + n \in Nat
    BY <1>3, <1>5
  <2>3. dd = [Entered(d) EXCEPT !.pos = d.pos + n, !.kept = n, !.data = TRUE]
    BY <2>1
  <2> HIDE DEF dd
  <2> QED BY <1>3, <1>5, <2>1, <2>2, <2>3 DEF Decodings
<1> HIDE DEF dd
<1>11. dd.pos <= Size
  BY <1>3, <1>5, <1>10
<1>12. CASE f.length = Declared /\ body.declared > Left
  <2>1. Short(dd, TRUE)
    BY <1>1, <1>12
  <2>2. Size < Byte(s + 1)
    <3>1. f.length # Rest
      BY <1>12 DEF Rest, Declared
    <3> QED BY <1>3, <1>4, <1>8, <1>9, <1>12, <3>1
  <2>3. ReadTo(s, dd) /\ LevelTo(s, dd)
    BY <1>6, <1>10 DEF ReadTo, LevelTo
  <2>4. TRUE <=> ~(IF IsArray(s) THEN HeaderEnds(Begins, s) \/ EndsInNumber(Begins, s)
                   ELSE f.length # Declared)
    BY <1>7, <1>12
  <2>5. Len(dd.starts) = s /\ ElementsTo(s, Len(dd.elements)) /\ TRUE \in BOOLEAN
    BY <1>3, <1>6, <1>10
  <2> HIDE DEF n
  <2> QED BY <1>2, <1>7, <1>10, <1>11, <2>1, <2>2, <2>3, <2>4, <2>5, ShortSettles
<1>13. CASE ~(f.length = Declared /\ body.declared > Left)
  <2>1. d' = dd /\ phase' = "decode"
    BY <1>1, <1>13
  <2>2. n = Extent(s, Byte(s))
    BY <1>1, <1>3, <1>4, <1>8, <1>13 DEF Smaller
  <2>3. Byte(s + 1) = dd.pos
    BY <1>9, <1>10, <2>2
  <2> HIDE DEF n, f
  <2>4. ReadTo(s + 1, dd)
    <3>1. ~IsLeftOver(s) /\ "PARTIAL" \notin dd.flags
      BY <1>6, <1>7, <1>10 DEF IsLeftOver, ReadTo
    <3> QED BY <1>2, <1>6, <1>7, <1>10, <1>11, <2>3, <3>1, ReadOnTo
  <2>5. LevelTo(s + 1, dd)
    <3>1. dd.defined >= d.defined
      BY <1>10
    <3>2. Fields[s].kind # "bits"
      BY <1>7 DEF f
    <3> QED BY <1>2, <1>6, <1>7, <1>10, <3>1, <3>2, LevelOnTo
  <2>6. ElementsTo(s + 1, Len(dd.elements))
    BY <1>2, <1>6, <1>7, <1>10, ElementsOnTo
  <2>7. AtField(s + 1, dd) /\ Len(dd.starts) = s
    BY <1>3, <1>6, <1>9, <1>10, <2>3, <2>4, <2>5, <2>6 DEF AtField
  <2>8. Outcome(dd, "decode")
    BY <1>3, <1>11, <2>7 DEF Outcome
  <2> QED BY <1>10, <2>1, <2>8
<1> QED BY <1>12, <1>13

\* What an array takes: its numbers, and the elements or what is passed.
LEMMA ArrayReaches ==
  ASSUME Given, NEW s \in DOMAIN Fields, IsArray(s)
  PROVE  LET f == Fields[s]
             header == f.count_length + f.stride_length
             n == Elements(f, Byte(s))
         IN /\ header \in Nat /\ n \in Nat /\ Stride(f) \in Nat /\ Step(s) \in Nat
            /\ Byte(s) \in Nat /\ Byte(s + 1) \in Nat /\ Size \in Nat /\ s + 1 \in 1 .. Len(Fields) + 1
            /\ At(s).taken = 0 /\ At(s + 1).taken = 0
            /\ HeaderEnds(Begins, s) <=> Size < Byte(s) + header
            /\ Byte(s + 1) >= Byte(s) + header
            /\ ArrayIsSkipped(f, Stride(f)) =>
                 Byte(s + 1) = Byte(s) + header
                                 + Smaller(n * Stride(f), Larger(Size - Byte(s) - header, 0))
            /\ ~ArrayIsSkipped(f, Stride(f)) => Byte(s + 1) = Byte(s) + header + (n * Step(s))
<1> DEFINE f == Fields[s]
           header == f.count_length + f.stride_length
           n == Elements(f, Byte(s))
           room == Larger(Size - Byte(s) - header, 0)
<1>1. f.kind = "array" /\ f.kind \notin {"bits", "pad"}
  BY DEF IsArray
<1>2. Byte(s) \in Nat /\ At(s).taken = 0 /\ Size \in Nat
      /\ (HeaderEnds(Begins, s) <=> Size < Byte(s) + f.count_length + f.stride_length)
  BY ArrayPlaces DEF Given, Body, Size
<1>3. f.count_length \in Nat /\ f.stride_length \in Nat /\ header \in Nat /\ n \in Nat
      /\ Stride(f) \in Nat /\ Step(s) \in Nat
  BY <1>1, <1>2, ArrayNumbers
<1>4. /\ s + 1 \in 1 .. Len(Fields) + 1 /\ At(s + 1).taken = At(s).taken
      /\ Byte(s + 1) = Byte(s) + Extent(s, Byte(s))
  BY <1>1, PlainReaches
<1>5. f.length # Rest /\ f.length # Declared
  BY <1>1, FieldsOfGiven DEF IsField
<1>6. Extent(s, Byte(s)) = header + IF ArrayIsSkipped(f, Stride(f))
                                      THEN Smaller(n * Stride(f), room) ELSE n * Step(s)
  BY <1>1, <1>5 DEF Extent, Size
<1>7. room \in Nat
  BY <1>2, <1>3 DEF Larger
<1>8. HeaderEnds(Begins, s) <=> Size < Byte(s) + header
  BY <1>2, <1>3
<1> HIDE DEF header, n, room, f
<1>9. n * Stride(f) \in Nat /\ n * Step(s) \in Nat
  BY <1>3
<1>10. Smaller(n * Stride(f), room) \in Nat
  BY <1>7, <1>9 DEF Smaller
<1>11. PICK x \in Nat : x = IF ArrayIsSkipped(f, Stride(f)) THEN Smaller(n * Stride(f), room)
                            ELSE n * Step(s)
  BY <1>9, <1>10
<1>12. Byte(s + 1) = Byte(s) + header + x
  BY <1>2, <1>3, <1>4, <1>6, <1>11
<1>13. Byte(s + 1) >= Byte(s) + header /\ Byte(s + 1) \in Nat
  BY <1>2, <1>3, <1>12
<1> QED BY <1>2, <1>3, <1>4, <1>8, <1>11, <1>12, <1>13 DEF header, n, room, f

LEMMA ArrayKeeps ==
  ASSUME Given, d \in Decodings, Outcome(d, phase), DecodeArray
  PROVE  d' \in Decodings /\ Outcome(d', phase')
<1> DEFINE s      == Here
           f      == Fields[s]
           header == f.count_length + f.stride_length
           rest   == Left - header
           count  == IF f.count_length = 0 THEN rest \div f.stride ELSE body.count
           stride == IF f.stride_length = 0 THEN f.stride ELSE body.stride
           over   == IF f.count_length = 0 THEN rest % f.stride ELSE 0
           dd     == [Entered(d) EXCEPT
                        !.pos = @ + header, !.count = count, !.stride = stride, !.leftover = over]
           cut    == [Entered(d) EXCEPT
                        !.pos = @ + Taken({0, f.count_length, header}, Left), !.cut = TRUE]
<1>1. /\ phase = "decode" /\ f.kind = "array" /\ Here <= Len(Fields)
      /\ IF rest < 0 THEN Short(cut, FALSE)
         ELSE IF ArrayIsSkipped(f, stride)
           THEN d' = [dd EXCEPT !.pos = @ + Passed(count * stride, rest)] /\ UNCHANGED phase
         ELSE d' = dd /\ phase' = "elements"
  BY DEF DecodeArray, Decodes
<1>2. s \in DOMAIN Fields /\ s = Len(d.starts) + 1 /\ AtField(s, d)
  BY <1>1, AtHere
<1> HIDE DEF s
<1>3. /\ s \in Nat /\ s + 1 \in 1 .. Len(Fields) + 1 /\ s \in 1 .. Len(Fields) + 1
      /\ Len(Append(d.starts, AtBit)) = s /\ Append(d.starts, AtBit) \in Seq(Nat)
      /\ Left = Size - Byte(s) /\ Left \in Nat /\ Byte(s) \in Nat /\ Size \in Nat
      /\ d.pos = Byte(s) /\ d.pos \in Nat /\ ~d.cut /\ s <= Len(Fields)
  <2>1. DOMAIN Fields = 1 .. Len(Fields) /\ Len(Fields) \in Nat
    BY FieldsOfGiven
  <2>2. s <= Len(Fields)
    BY <1>2, <2>1
  <2> QED BY <1>2, <2>2, AtFieldFacts
<1>4. ReadTo(s, d) /\ LevelTo(s, d) /\ ElementsTo(s, Len(d.elements))
  BY <1>2 DEF AtField
<1>5. IsArray(s) /\ ~GroupAt(s) /\ f.kind # "bits"
  BY <1>1 DEF IsArray, GroupAt
<1>6. Len(d.elements) = 0
  <2>1. \A j \in 1 .. s - 1 : ~IsArray(j)
    <3> TAKE j \in 1 .. s - 1
    <3>1. j \in DOMAIN Fields /\ j # s
      BY <1>3, FieldsOfGiven
    <3> QED BY <1>2, <1>5, <3>1, OneArray
  <2> QED BY <1>4, <2>1 DEF ElementsTo
<1>7. /\ header \in Nat /\ Elements(f, Byte(s)) \in Nat /\ Stride(f) \in Nat /\ Step(s) \in Nat
      /\ Byte(s + 1) \in Nat /\ At(s).taken = 0 /\ At(s + 1).taken = 0
      /\ HeaderEnds(Begins, s) <=> Size < Byte(s) + header
      /\ Byte(s + 1) >= Byte(s) + header
      /\ ArrayIsSkipped(f, Stride(f)) =>
           Byte(s + 1) = Byte(s) + header
                           + Smaller(Elements(f, Byte(s)) * Stride(f), Larger(Size - Byte(s) - header, 0))
  BY <1>2, <1>5, ArrayReaches
<1>8. /\ f.count_length \in Nat /\ f.stride_length \in Nat /\ f.stride \in Nat
      /\ f.count_length = 0 => f.stride_length = 0 /\ f.stride > 0 /\ header = 0
      /\ f.stride_length = 0 => f.stride_minimum = 0
  <2>1. IsField(f) /\ (f.count_length = 0 => f.stride_length = 0 /\ f.stride > 0)
        /\ (f.stride_length = 0 => f.stride_minimum = 0)
    BY <1>1, <1>2, FieldsOfGiven
  <2>2. {f.count_length, f.stride_length, f.stride} \subseteq Nat
    BY <2>1 DEF IsField
  <2>3. f.count_length = 0 => header = 0
    BY <2>1
  <2> QED BY <2>1, <2>2, <2>3
<1>9. stride = Stride(f)
  BY DEF Stride
<1>10. Entered(d) \in Decodings /\ Entered(d).starts = Append(d.starts, AtBit)
       /\ Entered(d).pos = d.pos /\ Entered(d).flags = d.flags /\ Entered(d).optional = d.optional
       /\ Entered(d).cut = d.cut /\ Entered(d).elements = d.elements /\ Entered(d).taken = d.taken
       /\ Entered(d).level = d.level /\ Entered(d).defined = d.defined /\ d.defined \in Nat
       /\ d.taken = 0
  BY <1>2, <1>3, <1>7 DEF Entered, Decodings, AtField
<1>13. /\ header \in Nat /\ Size \in Nat /\ Byte(s) \in Nat /\ rest = Size - Byte(s) - header
       /\ HeaderEnds(Begins, s) <=> Size < Byte(s) + header
  <2>1. header \in Nat /\ (HeaderEnds(Begins, s) <=> Size < Byte(s) + header)
    BY <1>7
  <2>2. Size \in Nat /\ Byte(s) \in Nat /\ rest = Size - Byte(s) - header
    BY <1>3
  <2> QED BY <2>1, <2>2
<1>11. CASE rest < 0
  <2>1. Short(cut, FALSE)
    BY <1>1, <1>11
  <2>2. IsEnds({0, f.count_length, header})
    <3>1. header \in Nat /\ f.count_length \in Nat /\ f.count_length <= header
      BY <1>7, <1>8
    <3> HIDE DEF header
    <3> QED BY <3>1 DEF IsEnds, IsBounded
  <2> DEFINE taken == Taken({0, f.count_length, header}, Left)
  <2>3. taken \in Nat /\ taken <= Left
    BY <1>3, <2>2, TakenOf
  <2>4. cut = [Entered(d) EXCEPT !.pos = d.pos + taken, !.cut = TRUE]
    BY <1>10
  <2> HIDE DEF taken, cut
  <2>5. /\ cut \in Decodings /\ cut.starts = Append(d.starts, AtBit) /\ cut.pos = Byte(s) + taken
        /\ cut.level = d.level /\ cut.flags = d.flags /\ cut.optional = d.optional /\ cut.cut
        /\ cut.elements = d.elements /\ cut.defined = d.defined
    <3>1. d.pos + taken \in Nat
      BY <1>3, <2>3
    <3> QED BY <1>3, <1>10, <2>4, <3>1 DEF Decodings
  <2>6. HeaderEnds(Begins, s) /\ Size < Byte(s + 1)
    <3>1. Byte(s + 1) \in Nat /\ Byte(s + 1) >= Byte(s) + header
      BY <1>7
    <3> HIDE DEF header, rest
    <3> QED BY <1>11, <1>13, <3>1
  <2>7. ReadTo(s, cut) /\ LevelTo(s, cut)
    BY <1>4, <2>5 DEF ReadTo, LevelTo
  <2>8. Len(cut.starts) = s /\ cut.pos <= Size /\ Len(cut.elements) = 0
    BY <1>3, <1>6, <2>3, <2>5
  <2>9. Whole(s, Len(cut.elements))
    BY <2>6, <2>8 DEF Whole
  <2>10. FALSE <=> ~(IF IsArray(s) THEN HeaderEnds(Begins, s) \/ EndsInNumber(Begins, s)
                     ELSE Fields[s].length # Declared)
    BY <1>5, <2>6
  <2>11. FALSE \in BOOLEAN
    OBVIOUS
  <2> QED BY <1>2, <1>5, <2>1, <2>5, <2>6, <2>7, <2>8, <2>9, <2>10, <2>11, ShortSettles
<1>12. CASE ~(rest < 0)
  <2>1. rest \in Nat /\ rest = Size - Byte(s) - header /\ Byte(s) + header <= Size
        /\ Larger(Size - Byte(s) - header, 0) = rest
    <3> HIDE DEF header, rest
    <3> QED BY <1>12, <1>13 DEF Larger
  <2>2. count = Elements(f, Byte(s))
    <3>1. CASE f.count_length = 0
      <4>1. rest = Larger(body.length - Byte(s), 0)
        BY <1>3, <1>8, <2>1, <3>1 DEF Larger, Size
      <4> QED BY <3>1, <4>1 DEF Elements
    <3>2. CASE f.count_length # 0
      BY <3>2 DEF Elements
    <3> QED BY <3>1, <3>2
  <2>3. count \in Nat /\ stride \in Nat
    BY <1>7, <1>9, <2>2
  <2>4. over \in Nat
        /\ over = IF f.count_length = 0 THEN (Size - Byte(s)) % f.stride ELSE 0
    <3>1. CASE f.count_length = 0
      <4>1. rest = Size - Byte(s)
        BY <1>3, <1>8, <2>1, <3>1
      <4>2. rest % f.stride \in Nat
        BY <1>8, <2>1, <3>1, Remainder
      <4> QED BY <3>1, <4>1, <4>2
    <3>2. CASE f.count_length # 0
      BY <3>2
    <3> QED BY <3>1, <3>2
  <2>5. ~HeaderEnds(Begins, s)
    <3> HIDE DEF header, rest
    <3> QED BY <1>13, <2>1
  <2> HIDE DEF over, count, stride, rest
  <2>6. dd = [Entered(d) EXCEPT !.pos = d.pos + header, !.count = count, !.stride = stride,
                                !.leftover = over]
    BY <1>10
  <2> HIDE DEF dd, header, f
  <2>7. /\ dd \in Decodings /\ dd.starts = Append(d.starts, AtBit) /\ dd.pos = Byte(s) + header
        /\ dd.level = d.level /\ dd.flags = d.flags /\ dd.optional = d.optional /\ ~dd.cut
        /\ dd.elements = d.elements /\ dd.defined = d.defined /\ dd.taken = 0
        /\ dd.count = count /\ dd.stride = stride /\ dd.leftover = over
    <3>1. d.pos + header \in Nat
      BY <1>3, <1>7
    <3> QED BY <1>3, <1>10, <2>3, <2>4, <2>6, <3>1, ZenonT(40) DEF Decodings
  <2>8. CASE ArrayIsSkipped(f, stride)
    <3> DEFINE p  == Passed(count * stride, rest)
               ee == [dd EXCEPT !.pos = @ + p]
    <3>1. d' = ee /\ phase' = "decode"
      BY <1>1, <1>12, <2>8
    <3>2. p \in Nat /\ p <= rest
      <4>1. count * stride \in Nat
        BY <2>3
      <4> QED BY <2>1, <4>1 DEF Passed, Smaller
    <3>3. Byte(s + 1) = Byte(s) + header + p
      BY <1>7, <1>9, <2>1, <2>2, <2>8 DEF Passed
    <3> HIDE DEF p
    <3>4. /\ ee \in Decodings /\ ee.starts = Append(d.starts, AtBit) /\ ee.pos = Byte(s + 1)
          /\ ee.level = d.level /\ ee.flags = d.flags /\ ee.optional = d.optional /\ ~ee.cut
          /\ ee.elements = d.elements /\ ee.defined = d.defined /\ ee.taken = 0
      <4>1. dd.pos + p \in Nat /\ dd.pos + p = Byte(s + 1)
        BY <1>3, <1>7, <2>7, <3>2, <3>3
      <4> QED BY <2>7, <4>1, ZenonT(40) DEF Decodings
    <3> HIDE DEF ee
    <3>5. ee.pos <= Size /\ Byte(s + 1) <= Size /\ Len(ee.starts) = s
      <4>1. Len(ee.starts) = s /\ ee.pos = Byte(s) + header + p
        BY <1>3, <3>3, <3>4
      <4>2. \A b, h, q, r, z \in Nat : r = z - b - h /\ q <= r => b + h + q <= z
        OBVIOUS
      <4>3. /\ Byte(s) \in Nat /\ header \in Nat /\ p \in Nat /\ rest \in Nat /\ Size \in Nat
            /\ rest = Size - Byte(s) - header /\ p <= rest
        BY <1>3, <1>7, <2>1, <3>2
      <4>4. Byte(s) + header + p <= Size
        BY <4>2, <4>3
      <4> QED BY <3>3, <4>1, <4>4
    <3>6. Whole(s, Len(ee.elements))
      BY <1>6, <1>9, <2>8, <3>4 DEF Whole, f
    <3>7. ~IsLeftOver(s)
      <4>1. f.count_length # 0
        BY <1>8, <2>8 DEF ArrayIsSkipped
      <4> QED BY <4>1 DEF IsLeftOver, f
    <3>8. ReadTo(s + 1, ee)
      <4>1. "PARTIAL" \notin ee.flags
        BY <1>4, <3>4 DEF ReadTo
      <4> QED BY <1>2, <1>4, <1>5, <3>4, <3>5, <3>7, <4>1, ReadOnTo
    <3>9. LevelTo(s + 1, ee)
      <4>1. ee.defined >= d.defined /\ Fields[s].kind # "bits"
        BY <1>5, <1>10, <3>4 DEF f
      <4> QED BY <1>2, <1>4, <1>5, <3>4, <4>1, LevelOnTo
    <3>10. ElementsTo(s + 1, Len(ee.elements))
      BY <1>2, <1>5, <3>6, ElementsOnTo
    <3>11. AtField(s + 1, ee)
      BY <1>3, <1>7, <3>4, <3>8, <3>9, <3>10 DEF AtField
    <3>12. Outcome(ee, "decode")
      BY <1>3, <3>5, <3>11 DEF Outcome
    <3> QED BY <3>1, <3>4, <3>12
  <2>9. CASE ~ArrayIsSkipped(f, stride)
    <3>1. d' = dd /\ phase' = "elements"
      BY <1>1, <1>12, <2>9
    <3>2. ReadTo(s, dd) /\ LevelTo(s, dd) /\ ElementsTo(s, 0)
      BY <1>4, <1>6, <2>7 DEF ReadTo, LevelTo
    <3>3. Len(dd.elements) = 0 /\ Len(dd.starts) = s /\ dd.pos <= Size
      BY <1>3, <1>6, <1>7, <2>1, <2>7
    <3>4. dd.pos = Byte(s) + f.count_length + f.stride_length + (Len(dd.elements) * Step(s))
      <4>1. 0 * Step(s) = 0
        BY <1>7
      <4>2. dd.pos = Byte(s) + f.count_length + f.stride_length
        BY <1>3, <1>8, <2>7 DEF header
      <4> QED BY <1>3, <1>8, <3>3, <4>1, <4>2
    <3>5. dd.count = Elements(f, Byte(s)) /\ dd.stride = Stride(f) /\ Len(dd.elements) <= dd.count
      BY <1>7, <1>9, <2>2, <2>7, <3>3
    <3>6. AtElement(s, dd)
      BY <1>2, <1>5, <1>9, <2>4, <2>5, <2>7, <2>9, <3>2, <3>4, <3>5 DEF AtElement, f
    <3>7. Outcome(dd, "elements")
      BY <1>3, <3>3, <3>6 DEF Outcome
    <3> QED BY <2>7, <3>1, <3>7
  <2> QED BY <2>8, <2>9
<1> QED BY <1>11, <1>12

\* What the state of a decoding within an array amounts to.
LEMMA AtElementFacts ==
  ASSUME Given, d \in Decodings, NEW s, AtElement(s, d), d.pos <= Size
  PROVE  LET f    == Fields[s]
             k    == Len(d.elements)
             size == ElementSize(s)
         IN /\ s \in DOMAIN Fields /\ s \in Nat /\ s <= Len(Fields) /\ s + 1 \in 1 .. Len(Fields) + 1
            /\ k \in Nat /\ d.count \in Nat /\ d.stride \in Nat /\ Step(s) \in Nat /\ size \in Nat
            /\ d.pos \in Nat /\ Size \in Nat /\ Left \in Nat /\ Left = Size - d.pos
            /\ Byte(s + 1) \in Nat /\ At(s + 1).taken = 0
            /\ Step(s) > 0 /\ Step(s) >= size
            /\ d.stride # 0 => Step(s) = d.stride
            /\ d.stride = 0 => Step(s) = size /\ f.stride_length = 0
            /\ f.count_length \in Nat /\ f.stride_length \in Nat /\ Byte(s) \in Nat
            /\ Size - Byte(s) - f.count_length - f.stride_length = (k * Step(s)) + Left
            /\ k < d.count => Byte(s + 1) >= d.pos + Step(s)
            /\ k = d.count => Byte(s + 1) = d.pos
            /\ k < d.count /\ Left < Step(s) => Whole(s, k)
            /\ k = d.count => Whole(s, k)
<1> DEFINE f    == Fields[s]
           k    == Len(d.elements)
           size == ElementSize(s)
           n    == d.count
           t    == Step(s)
           c    == f.count_length
           h    == f.stride_length
           b    == Byte(s)
<1>1. /\ s \in DOMAIN Fields /\ IsArray(s) /\ ~HeaderEnds(Begins, s) /\ ~ArrayIsSkipped(f, Stride(f))
      /\ n = Elements(f, b) /\ d.stride = Stride(f) /\ k <= n
      /\ d.pos = b + c + h + (k * t)
  BY DEF AtElement
<1>2. s \in Nat /\ s <= Len(Fields) /\ s + 1 \in 1 .. Len(Fields) + 1 /\ f.kind = "array"
      /\ size \in Nat /\ (h = 0 \/ f.stride_minimum >= size) /\ size > 0 /\ f.stride_minimum \in Nat
  <2>1. s \in Nat /\ s <= Len(Fields) /\ s + 1 \in 1 .. Len(Fields) + 1 /\ f.kind = "array"
        /\ IsField(f)
    BY <1>1, FieldsOfGiven DEF IsArray
  <2>2. f.stride_minimum \in Nat
    BY <2>1 DEF IsField
  <2> QED BY <1>1, <2>1, <2>2, FieldsOfGiven
<1>3. /\ b \in Nat /\ Byte(s + 1) \in Nat /\ Size \in Nat /\ At(s + 1).taken = 0
      /\ Byte(s + 1) = b + (c + h) + (n * t)
  BY <1>1, ArrayReaches
<1>4. c \in Nat /\ h \in Nat /\ t \in Nat /\ t > 0 /\ t >= size /\ n \in Nat /\ d.stride \in Nat
  BY <1>1, <1>2, <1>3, ArrayNumbers
<1>5. k \in Nat /\ d.pos \in Nat
  BY DEF Decodings
<1>6. Left = Size - d.pos /\ Left \in Nat
  BY <1>3, <1>5 DEF Left, Size
<1>7. /\ d.stride # 0 => t = d.stride
      /\ d.stride = 0 => t = size /\ h = 0
  <2>1. t = IF d.stride = 0 THEN size ELSE d.stride
    BY <1>1 DEF Step
  <2>2. d.stride = 0 => f.stride_minimum = 0
    BY <1>1, <1>2, <1>4 DEF ArrayIsSkipped
  <2> HIDE DEF t, size, h
  <2> QED BY <1>2, <2>1, <2>2
<1>8. At(s).bit \div 8 = b
  BY <1>1, ArrayPlaces
<1>9. Whole(s, k) <=> k = Smaller(n, (Size - b - c - h) \div t)
  BY <1>1, <1>8 DEF Whole
<1> HIDE DEF f, k, size, n, t, c, h, b
<1>10. PICK x \in Nat : x = k * t
  BY <1>4, <1>5
<1>11. PICK y \in Nat : y = n * t
  BY <1>4
<1>12. Size - b - c - h = (k * t) + Left
  BY <1>1, <1>3, <1>4, <1>5, <1>6, <1>10
<1>13. k < n => Byte(s + 1) >= d.pos + t
  <2> SUFFICES ASSUME k < n PROVE Byte(s + 1) >= d.pos + t
      OBVIOUS
  <2>1. (k + 1) * t = x + t /\ (k + 1) * t <= y
    <3>1. k + 1 \in Nat /\ k + 1 <= n
      BY <1>4, <1>5
    <3> QED BY <1>4, <1>5, <1>10, <1>11, <3>1, NextMultiple, TimesKeepsOrder
  <2>2. x + t <= y
    BY <2>1
  <2>3. d.pos = b + c + h + x /\ Byte(s + 1) = b + (c + h) + y
    BY <1>1, <1>3, <1>10, <1>11
  <2> QED BY <1>3, <1>4, <2>2, <2>3
<1>14. k = n => Byte(s + 1) = d.pos
  <2> SUFFICES ASSUME k = n PROVE Byte(s + 1) = d.pos
      OBVIOUS
  <2>1. x = y
    BY <1>10, <1>11
  <2> QED BY <1>1, <1>3, <1>4, <1>10, <1>11, <2>1
<1>15. k < n /\ Left < t => Whole(s, k)
  <2> SUFFICES ASSUME k < n, Left < t PROVE Whole(s, k)
      OBVIOUS
  <2>1. ((k * t) + Left) \div t = k
    <3>1. \A a \in Nat : a = (k * t) + Left => a \div t = k
      BY <1>4, <1>5, <1>6, QuotientIs
    <3>2. (k * t) + Left \in Nat
      BY <1>6, <1>10
    <3> QED BY <3>1, <3>2
  <2>2. k = Smaller(n, k)
    BY <1>4, <1>5 DEF Smaller
  <2> QED BY <1>9, <1>12, <2>1, <2>2
<1>16. k = n => Whole(s, k)
  <2> SUFFICES ASSUME k = n PROVE Whole(s, k)
      OBVIOUS
  <2>1. PICK a \in Nat : a = (k * t) + Left
    BY <1>6, <1>10
  <2>2. PICK q \in Nat : q = a \div t
    BY <1>4, Remainder
  <2>3. PICK r \in Nat : a = (q * t) + r /\ r < t
    <3>1. a = t * q + (a % t) /\ a % t \in Nat /\ a % t < t
      BY <1>4, <2>2, Remainder
    <3>2. t * q = q * t
      BY <1>4
    <3> QED BY <3>1, <3>2
  <2>4. k <= q
    <3> SUFFICES ASSUME q < k PROVE FALSE
        BY <1>5
    <3>1. q + 1 \in Nat /\ q + 1 <= k
      BY <1>5
    <3>2. (q + 1) * t = (q * t) + t /\ (q + 1) * t <= k * t /\ q * t \in Nat
      BY <1>4, <1>5, <3>1, NextMultiple, TimesKeepsOrder
    <3> QED BY <1>4, <1>6, <1>10, <2>1, <2>3, <3>2
  <2>5. k = Smaller(n, q)
    BY <1>4, <1>5, <2>4 DEF Smaller
  <2> QED BY <1>9, <1>12, <2>1, <2>2, <2>5
<1> QED BY <1>1, <1>2, <1>3, <1>4, <1>5, <1>6, <1>7, <1>12, <1>13, <1>14, <1>15, <1>16
        DEF f, k, size, n, t, c, h, b

LEMMA ElementKeeps ==
  ASSUME Given, d \in Decodings, Outcome(d, phase), DecodeElement
  PROVE  d' \in Decodings /\ Outcome(d', phase')
<1> DEFINE s == TheArray
           f == Fields[s]
           k == Len(d.elements)
           size == ElementSize(s)
           t == Step(s)
<1>1. /\ phase = "elements" /\ k < d.count
      /\ IF d.stride # 0 /\ Left < d.stride THEN Short(d, TRUE)
         ELSE IF size > Left
           THEN LET p == d.pos + Taken(Reads(s), Left) IN Short([d EXCEPT !.pos = p], p = body.length)
         ELSE /\ d' = [d EXCEPT !.elements = Append(@, d.pos),
                                !.pos = @ + (IF d.stride # 0 THEN d.stride ELSE size)]
              /\ UNCHANGED phase
  BY DEF DecodeElement
<1>2. s = Len(d.starts) /\ AtElement(s, d) /\ d.pos <= Size
  BY <1>1 DEF Outcome, TheArray
<1> HIDE DEF s
<1>3. /\ s \in DOMAIN Fields /\ s \in Nat /\ s <= Len(Fields)
      /\ k \in Nat /\ d.count \in Nat /\ d.stride \in Nat /\ t \in Nat /\ size \in Nat
      /\ d.pos \in Nat /\ Size \in Nat /\ Left \in Nat /\ Left = Size - d.pos
      /\ Byte(s + 1) \in Nat /\ t > 0 /\ t >= size
      /\ d.stride # 0 => t = d.stride
      /\ d.stride = 0 => t = size /\ f.stride_length = 0
      /\ f.count_length \in Nat /\ Byte(s) \in Nat
      /\ Size - Byte(s) - f.count_length - f.stride_length = (k * t) + Left
      /\ Byte(s + 1) >= d.pos + t
      /\ Left < t => Whole(s, k)
  BY <1>1, <1>2, AtElementFacts
<1>4. /\ IsArray(s) /\ ~d.cut /\ ReadTo(s, d) /\ LevelTo(s, d) /\ ElementsTo(s, 0)
      /\ ~HeaderEnds(Begins, s) /\ ~ArrayIsSkipped(f, Stride(f))
      /\ d.taken = 0 /\ d.count = Elements(f, Byte(s)) /\ d.stride = Stride(f)
      /\ d.leftover = (IF f.count_length = 0 THEN (Size - Byte(s)) % f.stride ELSE 0)
      /\ d.pos = Byte(s) + f.count_length + f.stride_length + (k * t)
  BY <1>2 DEF AtElement
<1>5. ~GroupAt(s) /\ Fields[s].kind # "bits"
  BY <1>4 DEF IsArray, GroupAt
<1>6. IsEnds(Reads(s)) /\ At(s).bit \div 8 = Byte(s)
  BY <1>3, <1>4, FieldsOfGiven, ArrayPlaces
<1> HIDE DEF f, size, t, k
<1>10. /\ k \in Nat /\ t \in Nat /\ d.pos \in Nat /\ Size \in Nat /\ Left \in Nat
       /\ Left = Size - d.pos /\ t > 0 /\ t >= size /\ size \in Nat /\ d.stride \in Nat
       /\ Byte(s + 1) \in Nat /\ Byte(s + 1) >= d.pos + t
       /\ d.stride # 0 => t = d.stride
       /\ d.stride = 0 => t = size /\ f.stride_length = 0
  BY <1>3
<1>11. PICK x \in Nat : x = k * t
  BY <1>10
<1>7. CASE d.stride # 0 /\ Left < d.stride
  <2>1. Short(d, TRUE)
    BY <1>1, <1>7
  <2>2. Left < t /\ Size < Byte(s + 1)
    BY <1>7, <1>10
  <2>3. TRUE <=> ~(IF IsArray(s) THEN HeaderEnds(Begins, s) \/ EndsInNumber(Begins, s)
                   ELSE Fields[s].length # Declared)
    BY <1>4, <1>7 DEF EndsInNumber, f
  <2>4. TRUE \in BOOLEAN
    OBVIOUS
  <2> QED BY <1>2, <1>3, <1>4, <1>5, <2>1, <2>2, <2>3, <2>4, ShortSettles DEF k
<1>8. CASE ~(d.stride # 0 /\ Left < d.stride) /\ size > Left
  <2> DEFINE q == Taken(Reads(s), Left)
             p == d.pos + q
             ee == [d EXCEPT !.pos = p]
  <2>1. Short(ee, p = body.length)
    BY <1>1, <1>8
  <2>2. d.stride = 0 /\ t = size /\ f.stride_length = 0 /\ Left < t /\ Size < Byte(s + 1)
    <3>1. d.stride = 0
      BY <1>8, <1>10
    <3> QED BY <1>8, <1>10, <3>1
  <2>3. q \in Reads(s) /\ q \in Nat /\ q <= Left /\ (Left \in Reads(s) => Left <= q)
    <3>1. /\ q \in Reads(s) /\ q \in Nat /\ q <= Left
          /\ \A r \in Reads(s) : r <= Left => r <= q
      BY <1>3, <1>6, TakenOf
    <3>2. Left <= Left
      BY <1>3
    <3> QED BY <3>1, <3>2
  <2> HIDE DEF q
  <2>4. p = Size <=> Left \in Reads(s)
    <3>1. p = Size <=> q = Left
      BY <1>10, <2>3
    <3>2. Left \in Reads(s) => q = Left
      BY <1>10, <2>3
    <3> QED BY <2>3, <3>1, <3>2
  <2>5. (Size - Byte(s) - f.count_length) % t = Left
    <3>1. Size - Byte(s) - f.count_length = (k * t) + Left
      <4>1. /\ Size - Byte(s) - f.count_length - f.stride_length = (k * t) + Left
            /\ f.count_length \in Nat /\ Byte(s) \in Nat
        BY <1>3
      <4>2. Size - Byte(s) - f.count_length - f.stride_length = x + Left
        BY <1>11, <4>1
      <4>3. Size - Byte(s) - f.count_length = x + Left
        BY <1>10, <2>2, <4>1, <4>2
      <4> QED BY <1>11, <4>3
    <3>2. \A a \in Nat : a = (k * t) + Left => a % t = Left
      <4>1. k \in Nat /\ t \in Nat /\ t > 0 /\ Left \in Nat /\ Left < t
        BY <1>10, <2>2
      <4> QED BY <4>1, QuotientIs
    <3>3. (k * t) + Left \in Nat
      BY <1>10, <1>11
    <3> QED BY <3>1, <3>2, <3>3
  <2>6. EndsInNumber(Begins, s) <=> Left \notin Reads(s)
    BY <1>4, <1>6, <2>2, <2>5 DEF EndsInNumber, At, Size, f, t
  <2>7. (p = body.length) <=> ~(IF IsArray(s) THEN HeaderEnds(Begins, s) \/ EndsInNumber(Begins, s)
                                ELSE Fields[s].length # Declared)
    BY <1>4, <2>4, <2>6 DEF Size
  <2>8. p \in Nat /\ p <= Size /\ (p = body.length) \in BOOLEAN
    BY <1>10, <2>3
  <2> HIDE DEF p
  <2>9. /\ ee \in Decodings /\ ee.starts = d.starts /\ ee.pos = p /\ ee.level = d.level
        /\ ee.flags = d.flags /\ ee.optional = d.optional /\ ee.cut = d.cut
        /\ ee.elements = d.elements /\ ee.defined = d.defined
    BY <2>8 DEF Decodings
  <2> HIDE DEF ee
  <2>10. ReadTo(s, ee) /\ LevelTo(s, ee) /\ Len(ee.starts) = s /\ ee.pos <= Size
         /\ Whole(s, Len(ee.elements))
    BY <1>2, <1>3, <1>4, <2>2, <2>8, <2>9 DEF ReadTo, LevelTo, k
  <2> QED BY <1>3, <1>4, <1>5, <2>1, <2>2, <2>7, <2>8, <2>9, <2>10, ShortSettles
<1>9. CASE ~(d.stride # 0 /\ Left < d.stride) /\ ~(size > Left)
  <2> DEFINE ee == [d EXCEPT !.elements = Append(@, d.pos),
                             !.pos = @ + (IF d.stride # 0 THEN d.stride ELSE size)]
  <2>1. d' = ee /\ phase' = "elements"
    BY <1>1, <1>9
  <2>2. (IF d.stride # 0 THEN d.stride ELSE size) = t
    BY <1>3
  <2>3. d.pos + t \in Nat /\ d.pos + t <= Size
    <3>1. ~(Left < t)
      BY <1>3, <1>9
    <3> QED BY <1>10, <3>1
  <2>4. Append(d.elements, d.pos) \in Seq(Nat) /\ Len(Append(d.elements, d.pos)) = k + 1
    BY <1>10 DEF Decodings, k
  <2>5. ee = [d EXCEPT !.elements = Append(d.elements, d.pos), !.pos = d.pos + t]
    BY <2>2
  <2> HIDE DEF ee
  <2>6. /\ ee \in Decodings /\ ee.starts = d.starts /\ ee.pos = d.pos + t /\ ee.level = d.level
        /\ ee.flags = d.flags /\ ee.optional = d.optional /\ ee.cut = d.cut
        /\ Len(ee.elements) = k + 1 /\ ee.defined = d.defined /\ ee.taken = d.taken
        /\ ee.count = d.count /\ ee.stride = d.stride /\ ee.leftover = d.leftover
    BY <2>3, <2>4, <2>5 DEF Decodings
  <2>7. ReadTo(s, ee) /\ LevelTo(s, ee)
    BY <1>4, <2>6 DEF ReadTo, LevelTo
  <2>8. Len(ee.elements) <= ee.count
    <3>1. k < d.count /\ d.count \in Nat
      BY <1>1, <1>3
    <3> QED BY <1>10, <2>6, <3>1
  <2>9. ee.pos = Byte(s) + f.count_length + f.stride_length + (Len(ee.elements) * Step(s))
    <3>1. (k + 1) * t = x + t
      BY <1>10, <1>11, NextMultiple
    <3>2. f.stride_length \in Nat /\ f.count_length \in Nat /\ Byte(s) \in Nat
      BY <1>2, AtElementFacts DEF f
    <3>4. d.pos = Byte(s) + f.count_length + f.stride_length + x
      BY <1>4, <1>11
    <3>5. d.pos + t = Byte(s) + f.count_length + f.stride_length + (x + t)
      BY <1>10, <3>2, <3>4
    <3>3. d.pos + t = Byte(s) + f.count_length + f.stride_length + ((k + 1) * t)
      BY <3>1, <3>5, Zenon
    <3> QED BY <2>6, <3>3 DEF t
  <2>10. AtElement(s, ee)
    BY <1>3, <1>4, <2>6, <2>7, <2>8, <2>9 DEF AtElement, f
  <2>11. Outcome(ee, "elements")
    BY <1>2, <1>3, <2>3, <2>6, <2>10 DEF Outcome
  <2> QED BY <2>1, <2>6, <2>11
<1> QED BY <1>7, <1>8, <1>9

LEMMA ArrayEndKeeps ==
  ASSUME Given, d \in Decodings, Outcome(d, phase), DecodeArrayEnd
  PROVE  d' \in Decodings /\ Outcome(d', phase')
<1> DEFINE s == TheArray
           f == Fields[s]
           ee == IF d.leftover = 0 THEN d ELSE [d EXCEPT !.flags = @ \union {"INCOMPLETE"}]
<1>1. phase = "elements" /\ Len(d.elements) = d.count /\ phase' = "decode" /\ d' = ee
  BY DEF DecodeArrayEnd
<1>2. s = Len(d.starts) /\ AtElement(s, d) /\ d.pos <= Size
  BY <1>1 DEF Outcome, TheArray
<1> HIDE DEF s
<1>3. /\ s \in DOMAIN Fields /\ s \in Nat /\ s <= Len(Fields) /\ s + 1 \in 1 .. Len(Fields) + 1
      /\ Byte(s + 1) = d.pos /\ At(s + 1).taken = 0 /\ Whole(s, Len(d.elements))
      /\ Left \in Nat /\ Left = Size - d.pos /\ Size \in Nat /\ d.pos \in Nat
      /\ f.count_length \in Nat /\ f.stride_length \in Nat /\ Byte(s) \in Nat
  BY <1>1, <1>2, AtElementFacts
<1>4. /\ IsArray(s) /\ ~d.cut /\ ReadTo(s, d) /\ LevelTo(s, d) /\ d.taken = 0
      /\ d.leftover = (IF f.count_length = 0 THEN (Size - Byte(s)) % f.stride ELSE 0)
      /\ Byte(s) <= Size
  BY <1>2 DEF AtElement, ReadTo
<1>5. IsLeftOver(s) <=> d.leftover # 0
  BY <1>4 DEF IsLeftOver, f
<1> HIDE DEF f
<1>6. /\ ee \in Decodings /\ ee.starts = d.starts /\ ee.pos = d.pos /\ ee.level = d.level
      /\ ee.optional = d.optional /\ ee.cut = d.cut
      /\ ee.elements = d.elements /\ ee.defined = d.defined /\ ee.taken = d.taken
      /\ ee.flags = d.flags \union (IF IsLeftOver(s) THEN {"INCOMPLETE"} ELSE {})
      /\ d.defined \in Nat
  BY <1>5 DEF Decodings
<1> HIDE DEF ee
<1>7. ~GroupAt(s) /\ Fields[s].kind # "bits"
  BY <1>4 DEF IsArray, GroupAt
<1>8. Byte(s + 1) <= Size /\ ee.pos <= Size
  BY <1>2, <1>3, <1>6
<1>9. ReadTo(s + 1, ee)
  <2>1. "PARTIAL" \notin ee.flags
        /\ ("INCOMPLETE" \in ee.flags <=> "INCOMPLETE" \in d.flags \/ IsLeftOver(s))
    BY <1>4, <1>6 DEF ReadTo
  <2> QED BY <1>3, <1>4, <1>6, <1>7, <1>8, <2>1, ReadOnTo
<1>10. LevelTo(s + 1, ee)
  <2>1. ee.defined >= d.defined
    BY <1>6
  <2> QED BY <1>3, <1>4, <1>6, <1>7, <2>1, LevelOnTo
<1>11. ElementsTo(s + 1, Len(ee.elements))
  BY <1>3, <1>4, <1>6, ElementsOnTo
<1>12. AtField(s + 1, ee)
  BY <1>3, <1>4, <1>6, <1>9, <1>10, <1>11 DEF AtField
<1>13. Outcome(ee, "decode")
  BY <1>2, <1>3, <1>6, <1>8, <1>12 DEF Outcome
<1> QED BY <1>1, <1>6, <1>13

\* What is known of the decoding is known after a step of it.
LEMMA SameOutcome ==
  ASSUME spec' = spec, body' = body, table' = table
  PROVE  Outcome(d', phase') => Outcome(d, phase)'
<1>1. Begins' = Begins /\ Fields' = Fields
  BY SameStructure
<1>2. Size' = Size
  BY DEF Size
<1>3. \A i : Reads(i)' = Reads(i)
  BY DEF Reads
<1>4. \A i : ElementSize(i)' = ElementSize(i)
  BY <1>3 DEF ElementSize
<1>5. \A f : Stride(f)' = Stride(f)
  BY DEF Stride
<1>6. \A f, x : Elements(f, x)' = Elements(f, x)
  BY DEF Elements
<1>7. \A i : Step(i)' = Step(i)
  BY <1>1, <1>4, <1>5 DEF Step
<1>8. \A i : At(i)' = At(i)
  BY <1>1 DEF At
<1>9. \A i : Byte(i)' = Byte(i)
  BY <1>8 DEF Byte
<1>10. \A i : IsArray(i)' = IsArray(i) /\ GroupAt(i)' = GroupAt(i)
  BY <1>1 DEF IsArray, GroupAt
<1>11. \A i : IsLeftOver(i)' = IsLeftOver(i)
  BY <1>1, <1>2, <1>9, <1>10 DEF IsLeftOver
<1>12. \A ps, i : HeaderEnds(ps, i)' = HeaderEnds(ps, i)
  BY <1>1 DEF HeaderEnds
<1>13. \A i : HeaderEnds(Begins, i)' = HeaderEnds(Begins, i)
  BY <1>1, <1>12
<1>14. \A i, n : Whole(i, n)' = Whole(i, n)
  BY <1>1, <1>2, <1>5, <1>6, <1>7, <1>8, <1>13 DEF Whole
<1>15. \A ps, i : EndsInNumber(ps, i)' = EndsInNumber(ps, i)
  BY <1>1, <1>3, <1>5, <1>7 DEF EndsInNumber
<1>16. \A ps, i : Reaches(ps, i)' = Reaches(ps, i) /\ EndsAt(ps, i)' = EndsAt(ps, i)
  BY DEF Reaches, EndsAt
<1>17. \A i : Required(i)' = Required(i)
  BY <1>10 DEF Required
<1>18. Broken(Begins)' = Broken(Begins)
  <2>1. \A ps : Broken(ps)' = Broken(ps)
    BY <1>1, <1>12, <1>15, <1>16, <1>17 DEF Broken
  <2> QED BY <1>1, <2>1
<1>19. \A ps : LeftOver(ps)' = LeftOver(ps)
  BY <1>1 DEF LeftOver
<1>20. EndsAtGroup' = EndsAtGroup
  BY <1>1, <1>10, <1>16 DEF EndsAtGroup
<1>21. \A fs : FlagsTell(fs)' = FlagsTell(fs)
  BY <1>1, <1>16, <1>19, <1>20 DEF FlagsTell
<1>22. \A n : ArraysWhole(n)' = ArraysWhole(n)
  BY <1>1, <1>10, <1>14 DEF ArraysWhole
<1>23. \A dd : Shown(dd)' = Shown(dd)
  BY <1>1 DEF Shown, Describes
<1>24. \A dd : Settled(dd)' = Settled(dd)
  BY <1>18, <1>21, <1>22, <1>23 DEF Settled
<1>25. \A i, dd : ReadTo(i, dd)' = ReadTo(i, dd) /\ LevelTo(i, dd)' = LevelTo(i, dd)
  BY <1>1, <1>2, <1>9, <1>10, <1>11 DEF ReadTo, LevelTo
<1>26. \A i, n : ElementsTo(i, n)' = ElementsTo(i, n)
  BY <1>10, <1>14 DEF ElementsTo
<1>27. \A i, dd : AtField(i, dd)' = AtField(i, dd)
  BY <1>1, <1>8, <1>9, <1>25, <1>26 DEF AtField
<1>28. \A i, dd : AtElement(i, dd)' = AtElement(i, dd)
  BY <1>1, <1>2, <1>5, <1>6, <1>7, <1>9, <1>10, <1>13, <1>25, <1>26 DEF AtElement
<1>29. \A dd, ph : Outcome(dd, ph)' = Outcome(dd, ph)
  BY <1>1, <1>2, <1>18, <1>24, <1>27, <1>28 DEF Outcome
<1> QED BY <1>29

-----------------------------------------------------------------------------
(* The inductive invariant.                                                *)

Encodings ==
  [mode : {"none", "preserve", "canonical"}, version : Nat, at : Nat, out : Nat, taken : Nat,
   stopped : BOOLEAN, same : BOOLEAN, element : Nat, count : Nat, stride : Nat,
   extended : SUBSET STRING]

\* The encoder is at a field, or past them.
EncoderAt(ee, ph) ==
  /\ ee \in Encodings /\ ee.at \in 1 .. Len(Fields) + 1
  /\ ph = "encode_elements" => ee.at <= Len(Fields)

\* Nothing is known between structures, and of one there is what the
\* decoding so far amounts to.
Inv ==
  /\ phase \in Phases /\ round \in {1, 2}
  /\ d \in Decodings /\ first \in Decodings
  /\ Len(d.starts) <= Len(Fields) /\ Len(first.starts) <= Len(Fields)
  /\ EncoderAt(e, phase)
  /\ phase = "idle" => Init
  /\ phase # "idle" => entity \in DOMAIN Bodies /\ Given /\ Outcome(d, phase)
  /\ phase \notin {"idle", "failed"} => d.pos <= Larger(Size, HeaderLength)

LEMMA InitHolds == Init => Inv
<1> SUFFICES ASSUME Init PROVE Inv
    OBVIOUS
<1>1. NotDecoded \in Decodings /\ d = NotDecoded /\ first = NotDecoded /\ phase = "idle" /\ round = 1
  BY NotDecodedIs DEF Init
<1>2. Fields = << >> /\ Len(Fields) = 0 /\ Len(NotDecoded.starts) = 0
  BY DEF Init, NoSpec, NoFields, Fields, NotDecoded
<1>3. NotEncoded \in Encodings
  BY DEF NotEncoded, Encodings, NoVersion, V, HeaderLength
<1>4. EncoderAt(e, phase)
  <2>1. e = NotEncoded /\ NotEncoded.at = 1
    BY DEF Init, NotEncoded
  <2>2. 1 \in 1 .. 0 + 1
    OBVIOUS
  <2>3. e \in Encodings /\ e.at \in 1 .. Len(Fields) + 1 /\ phase # "encode_elements"
    BY <1>1, <1>2, <1>3, <2>1, <2>2
  <2> QED BY <2>3 DEF EncoderAt
<1> QED BY <1>1, <1>2, <1>4 DEF Inv, Phases

\* What the engine goes by is a specification with the rules of it.
LEMMA ReadIsWellFormed ==
  ASSUME NEW n \in DOMAIN Bodies
  PROVE  WellFormed(Read(Specs[n]))
BY SpecsAssumption DEF WellFormed, Read, VersionRules

LEMMA TakeHolds == Inv /\ Take => Inv'
<1> SUFFICES ASSUME Inv, Take PROVE Inv'
    OBVIOUS
<1>1. phase = "idle" /\ Init
  BY DEF Take, Inv
<1>2. PICK n \in DOMAIN Bodies :
        /\ entity' = n /\ spec' = Read(Specs[n]) /\ body' \in Bodies[n] /\ table' \in TableVersions[n]
        /\ phase' = "start" /\ UNCHANGED <<round, d, e, first>>
  BY DEF Take
<1>3. WellFormed(spec')
  BY <1>2, ReadIsWellFormed
<1>4. Given'
  BY <1>2, <1>3, BodiesAssumption DEF Given, WellFormed
<1>5. d = NotDecoded /\ e = NotEncoded /\ first = NotDecoded
  BY <1>1 DEF Init
<1>6. Len(Fields') \in Nat
  BY <1>3 DEF Fields, WellFormed, IsList
<1>7. d'.starts = << >> /\ first'.starts = << >> /\ d'.pos = HeaderLength /\ e'.at = 1
  BY <1>2, <1>5 DEF NotDecoded, NotEncoded
<1>8. Outcome(d, phase)'
  BY <1>2, <1>5 DEF Outcome
<1>9. (d \in Decodings /\ first \in Decodings /\ e \in Encodings /\ round \in {1, 2})'
  BY <1>2 DEF Inv, EncoderAt
<1>10. EncoderAt(e, phase)'
  BY <1>2, <1>6, <1>7, <1>9 DEF EncoderAt
<1>11. (d.pos <= Larger(Size, HeaderLength))'
  <2>1. Size' \in Nat
    BY <1>4 DEF Given, Body, Size
  <2> QED BY <1>7, <2>1 DEF Larger, HeaderLength
<1>12. Len(d'.starts) <= Len(Fields') /\ Len(first'.starts) <= Len(Fields')
  BY <1>6, <1>7
<1> QED BY <1>2, <1>4, <1>8, <1>9, <1>10, <1>11, <1>12 DEF Inv, Phases

\* A step of the decoding.
LEMMA DecodeHolds == Inv /\ Decode => Inv'
<1> SUFFICES ASSUME Inv, Decode PROVE Inv'
    OBVIOUS
<1>1. phase \in {"start", "decode", "elements"} /\ phase' \in {"decode", "elements", "decoded", "failed"}
      /\ UNCHANGED <<entity, spec, table, body, round, e, first>>
  BY DEF Decode, DecodeStart, DecodeOffset, DecodePreset, DecodeGroup, DecodeValue, DecodeBinary,
         DecodeVector, DecodeBits, DecodePad, DecodeArray, DecodeElement, DecodeArrayEnd, DecodeEnd,
         Decodes, Decoded, Short, Consume
<1>2. Given /\ d \in Decodings /\ Outcome(d, phase) /\ entity \in DOMAIN Bodies
  BY <1>1 DEF Inv
<1>3. d' \in Decodings /\ Outcome(d', phase')
  BY <1>2, StartKeeps, OffsetKeeps, PresetKeeps, GroupKeeps, ValueKeeps, BinaryKeeps, VectorKeeps,
     BitsKeep, PadKeeps, ArrayKeeps, ElementKeeps, ArrayEndKeeps, EndKeeps DEF Decode
<1>4. Fields' = Fields /\ Given' /\ Outcome(d, phase)'
  BY <1>1, <1>2, <1>3, SameStructure, SameOutcome
<1>5. Len(d'.starts) <= Len(Fields)
  BY <1>1, <1>3 DEF Outcome
<1>6. Size' = Size /\ Size \in Nat
  BY <1>1, <1>2 DEF Given, Body, Size
<1>7. (phase \notin {"idle", "failed"} => d.pos <= Larger(Size, HeaderLength))'
  <2>1. phase' # "failed" => d'.pos <= Size /\ d'.pos \in Nat
    BY <1>1, <1>3 DEF Outcome, Decodings
  <2> QED BY <1>6, <2>1 DEF Larger, HeaderLength
<1>8. EncoderAt(e, phase)'
  BY <1>1, <1>4 DEF Inv, EncoderAt
<1> QED BY <1>1, <1>2, <1>3, <1>4, <1>5, <1>7, <1>8 DEF Inv, Phases

-----------------------------------------------------------------------------
(* Steps of the encoding, which leave the decoded structure as it is.      *)

Encoding == {"encode", "encode_elements", "encoded", "refused"}

EncodedOn == phase' \in Encoding /\ EncoderAt(e', phase')

LEMMA WrittenIs ==
  ASSUME Given, NEW ee \in Encodings, ee.at \in 1 .. Len(Fields),
         NEW n \in Nat, NEW faithful \in BOOLEAN
  PROVE  EncoderAt(Written(ee, n, faithful), "encode")
<1>1. Len(Fields) \in Nat /\ ee.at + 1 \in 1 .. Len(Fields) + 1 /\ ee.at + 1 \in Nat
  BY FieldsOfGiven
<1>2. ee.out + n \in Nat /\ (ee.same /\ faithful) \in BOOLEAN
  BY DEF Encodings
<1>3. Written(ee, n, faithful) \in Encodings /\ Written(ee, n, faithful).at = ee.at + 1
  BY <1>1, <1>2 DEF Written, Encodings
<1> QED BY <1>1, <1>3 DEF EncoderAt

LEMMA PutKeeps ==
  ASSUME Given, e \in Encodings, e.at \in 1 .. Len(Fields), phase = "encode",
         NEW n \in Nat, NEW faithful \in BOOLEAN, Put(n, faithful)
  PROVE  EncodedOn
<1>1. e' = Written(e, n, faithful) /\ phase' = "encode"
  BY DEF Put
<1>2. EncoderAt(Written(e, n, faithful), "encode")
  BY WrittenIs
<1> QED BY <1>1, <1>2 DEF EncodedOn, Encoding

LEMMA StopKeeps ==
  ASSUME Given, EncoderAt(e, phase), phase \in Encoding, Stop
  PROVE  EncodedOn
<1>1. Remaining \in Nat
  <2>1. body.length \in Nat /\ e.out \in Nat
    BY DEF Given, Body, EncoderAt, Encodings
  <2> QED BY <2>1 DEF Remaining, Larger
<1>2. e.out + Remaining \in Nat
  BY <1>1 DEF EncoderAt, Encodings
<1>3. e' = [e EXCEPT !.stopped = TRUE, !.out = @ + Remaining] /\ phase' = phase
  BY DEF Stop
<1>4. e' \in Encodings /\ e'.at = e.at
  BY <1>2, <1>3 DEF EncoderAt, Encodings
<1> QED BY <1>3, <1>4 DEF EncodedOn, EncoderAt

\* What a step of the encoding starts from.
LEMMA EncodesAt ==
  ASSUME Given, EncoderAt(e, phase), NEW kinds, Encodes(kinds)
  PROVE  /\ e \in Encodings /\ e.at \in 1 .. Len(Fields) /\ e.at \in DOMAIN Fields
         /\ phase = "encode" /\ phase \in Encoding /\ IsField(Fields[e.at]) /\ Fields[e.at].kind \in kinds
         /\ ElementSize(e.at) \in Nat /\ Held \in BOOLEAN /\ InPlace \in BOOLEAN
<1>1. e \in Encodings /\ e.at \in 1 .. Len(Fields) /\ phase = "encode" /\ Fields[e.at].kind \in kinds
  BY FieldsOfGiven DEF EncoderAt, Encodes
<1>2. Held \in BOOLEAN /\ InPlace \in BOOLEAN
  BY DEF Held, InPlace
<1> QED BY <1>1, <1>2, FieldsOfGiven DEF Encoding

LEMMA EncodePlainKeeps ==
  ASSUME Given, EncoderAt(e, phase), EncodeOffset \/ EncodePreset \/ EncodeGroup \/ EncodeSkip
  PROVE  EncodedOn
<1>1. CASE EncodeOffset
  <2>1. Encodes({"offset"}) /\ (Put(0, TRUE) \/ (phase' = "refused" /\ UNCHANGED e))
    BY <1>1 DEF EncodeOffset
  <2>2. CASE Put(0, TRUE)
    BY <2>1, <2>2, EncodesAt, PutKeeps
  <2>3. CASE phase' = "refused" /\ UNCHANGED e
    BY <2>3 DEF EncodedOn, EncoderAt, Encoding
  <2> QED BY <2>1, <2>2, <2>3
<1>2. CASE EncodePreset
  BY <1>2, EncodesAt, PutKeeps DEF EncodePreset
<1>3. CASE EncodeGroup
  <2>1. Encodes({"group"}) /\ \E ends \in BOOLEAN :
          e' = [e EXCEPT !.at = @ + 1, !.stopped = ends] /\ UNCHANGED phase
    BY <1>3 DEF EncodeGroup, GroupIsAbsent, Preserves
  <2>2. PICK ends \in BOOLEAN : e' = [e EXCEPT !.at = @ + 1, !.stopped = ends] /\ UNCHANGED phase
    BY <2>1
  <2>3. e \in Encodings /\ e.at \in 1 .. Len(Fields) /\ phase = "encode" /\ Len(Fields) \in Nat
    BY <2>1, EncodesAt, FieldsOfGiven
  <2>4. e' \in Encodings /\ e'.at = e.at + 1
    <3>1. e.at + 1 \in Nat
      BY <2>3
    <3>2. e' = [e EXCEPT !.at = e.at + 1, !.stopped = ends]
      BY <2>2
    <3> QED BY <2>3, <3>1, <3>2 DEF Encodings
  <2>5. e'.at \in 1 .. Len(Fields) + 1
    BY <2>3, <2>4
  <2> QED BY <2>2, <2>3, <2>4, <2>5 DEF EncodedOn, EncoderAt, Encoding
<1>4. CASE EncodeSkip
  <2>1. Encodes({"skip"}) /\ Put(Fields[e.at].length, TRUE)
    BY <1>4 DEF EncodeSkip, Reserve
  <2>2. Fields[e.at].length \in Nat
    BY <2>1, EncodesAt DEF IsField
  <2> QED BY <2>1, <2>2, EncodesAt, PutKeeps
<1> QED BY <1>1, <1>2, <1>3, <1>4

LEMMA EncodeBitsKeep ==
  ASSUME Given, EncoderAt(e, phase), EncodeBits \/ EncodePad
  PROVE  EncodedOn
<1> DEFINE f == Fields[e.at]
<1>1. CASE EncodeBits
  <2> DEFINE n  == (e.taken + f.bits) \div 8 - e.taken \div 8
             ee == [e EXCEPT !.taken = @ + f.bits]
             faithful == f.member = "" \/ Held
  <2>1. Encodes({"bits"})
        /\ IF ~IsDefined(f, Version) THEN Put(0, TRUE)
           ELSE e' = Written(ee, n, faithful) /\ UNCHANGED phase
    BY <1>1 DEF EncodeBits
  <2>2. /\ e \in Encodings /\ e.at \in 1 .. Len(Fields) /\ phase = "encode" /\ f.bits \in Nat
        /\ e.taken \in Nat
    BY <2>1, EncodesAt DEF IsField, Encodings
  <2>3. CASE ~IsDefined(f, Version)
    BY <2>1, <2>2, <2>3, PutKeeps
  <2>4. CASE IsDefined(f, Version)
    <3>1. n \in Nat /\ e.taken + f.bits \in Nat /\ faithful \in BOOLEAN
      <4>1. \A a, b \in Nat : (a + b) \div 8 - a \div 8 \in Nat /\ a + b \in Nat
        OBVIOUS
      <4>2. faithful \in BOOLEAN
        OBVIOUS
      <4> HIDE DEF faithful, f
      <4> QED BY <2>2, <4>1, <4>2
    <3>2. ee \in Encodings /\ ee.at = e.at
      BY <2>2, <3>1 DEF Encodings
    <3>3. e' = Written(ee, n, faithful) /\ phase' = "encode"
      BY <2>1, <2>2, <2>4
    <3> HIDE DEF ee, n, faithful
    <3>4. EncoderAt(Written(ee, n, faithful), "encode")
      BY <2>2, <3>1, <3>2, WrittenIs
    <3> QED BY <3>3, <3>4 DEF EncodedOn, Encoding
  <2> QED BY <2>3, <2>4
<1>2. CASE EncodePad
  <2> DEFINE p  == Padding(e.taken, f.bits)
             n  == (e.taken + p) \div 8 - e.taken \div 8
             ee == [e EXCEPT !.taken = 0]
  <2>1. Encodes({"pad"}) /\ e' = Written(ee, n, TRUE) /\ UNCHANGED phase
    BY <1>2 DEF EncodePad
  <2>2. /\ e \in Encodings /\ e.at \in 1 .. Len(Fields) /\ phase = "encode"
        /\ f.bits \in Nat /\ f.bits > 0 /\ e.taken \in Nat
    BY <2>1, EncodesAt DEF IsField, Encodings
  <2>3. p \in Nat
    BY <2>2, PaddingOf
  <2> HIDE DEF p
  <2>4. n \in Nat
    BY <2>2, <2>3
  <2>5. ee \in Encodings /\ ee.at = e.at
    BY <2>2 DEF Encodings
  <2> HIDE DEF n, ee
  <2>6. EncoderAt(Written(ee, n, TRUE), "encode")
    BY <2>2, <2>4, <2>5, WrittenIs
  <2> QED BY <2>1, <2>2, <2>6 DEF EncodedOn, Encoding
<1> QED BY <1>1, <1>2

LEMMA EncodeValuesKeep ==
  ASSUME Given, EncoderAt(e, phase), d \in Decodings,
         EncodeVector \/ EncodeUuid \/ EncodeBcd \/ EncodeBinary
  PROVE  EncodedOn
<1> DEFINE f == Fields[e.at]
<1>1. ASSUME phase' = "refused" /\ UNCHANGED e PROVE EncodedOn
  BY <1>1 DEF EncodedOn, EncoderAt, Encoding
<1>2. CASE EncodeVector
  <2> DEFINE n == f.count * ElementSize(e.at)
  <2>1. Encodes({"vector"})
        /\ IF CutAt(n) THEN e' = [e EXCEPT !.stopped = TRUE, !.out = @ + Remaining,
                                           !.same = @ /\ InPlace] /\ UNCHANGED phase
           ELSE Put(n, Held)
    BY <1>2 DEF EncodeVector
  <2>2. /\ e \in Encodings /\ e.at \in 1 .. Len(Fields) /\ phase = "encode" /\ Held \in BOOLEAN
        /\ f.count \in Nat /\ ElementSize(e.at) \in Nat
    BY <2>1, EncodesAt DEF IsField
  <2>3. n \in Nat
    BY <2>2
  <2> HIDE DEF n
  <2>4. CASE ~CutAt(n)
    BY <2>1, <2>2, <2>3, <2>4, PutKeeps
  <2>5. CASE CutAt(n)
    <3>1. e.out + Remaining \in Nat
      <4>1. body.length \in Nat /\ e.out \in Nat
        BY <2>2 DEF Given, Body, Encodings
      <4> QED BY <4>1 DEF Remaining, Larger
    <3>2. (e.same /\ InPlace) \in BOOLEAN
      OBVIOUS
    <3>3. e' \in Encodings /\ e'.at = e.at /\ phase' = "encode"
      BY <2>1, <2>2, <2>5, <3>1, <3>2, ZenonT(40) DEF Encodings
    <3> QED BY <3>3 DEF EncodedOn, EncoderAt, Encoding
  <2> QED BY <2>4, <2>5
<1>3. CASE EncodeUuid
  <2>1. Encodes({"uuid"}) /\ (Stop \/ Put(f.length, Held))
    BY <1>3 DEF EncodeUuid
  <2>2. f.length \in Nat
    BY <2>1, EncodesAt DEF IsField
  <2> QED BY <2>1, <2>2, EncodesAt, StopKeeps, PutKeeps
<1>4. CASE EncodeBcd
  <2>1. /\ Encodes({"bcd"})
        /\ \/ Stop \/ Put(f.length, Held /\ body.decimal) \/ (phase' = "refused" /\ UNCHANGED e)
    BY <1>4 DEF EncodeBcd
  <2>2. f.length \in Nat /\ (Held /\ body.decimal) \in BOOLEAN
    BY <2>1, EncodesAt DEF IsField
  <2> QED BY <1>1, <2>1, <2>2, EncodesAt, StopKeeps, PutKeeps
<1>5. CASE EncodeBinary
  <2>1. /\ Encodes({"binary"})
        /\ Put(d.kept, d.kept = 0 \/ InPlace) \/ (phase' = "refused" /\ UNCHANGED e)
    BY <1>5 DEF EncodeBinary
  <2>2. d.kept \in Nat /\ (d.kept = 0 \/ InPlace) \in BOOLEAN
    BY DEF Decodings
  <2> QED BY <1>1, <2>1, <2>2, EncodesAt, PutKeeps
<1> QED BY <1>2, <1>3, <1>4, <1>5

LEMMA EncodeValueKeeps ==
  ASSUME Given, EncoderAt(e, phase), EncodeValue
  PROVE  EncodedOn
<1> DEFINE f == Fields[e.at]
           Marks(x) == [e EXCEPT !.extended = IF x THEN @ \union {f.member} ELSE @]
<1>1. /\ Encodes({"integer", "string", "binary"}) /\ f.length \notin {Rest, Declared}
      /\ \/ Stop
         \/ Put(f.length, TRUE)
         \/ Put(f.length, NumberHeld(f))
         \/ \E x \in Elsewhere(f.member) : e' = Written(Marks(x), f.length, Held) /\ UNCHANGED phase
  BY DEF EncodeValue, Reserve
<1>2. /\ e \in Encodings /\ e.at \in 1 .. Len(Fields) /\ phase = "encode" /\ Held \in BOOLEAN
      /\ f.length \in Nat /\ f.member \in STRING /\ phase \in Encoding
  <2>1. IsField(f) /\ f.length \notin {Rest, Declared}
    BY <1>1, EncodesAt
  <2>2. f.length \in Nat /\ f.member \in STRING
    BY <2>1 DEF IsField
  <2> QED BY <1>1, <2>2, EncodesAt
<1>3. CASE Stop
  BY <1>2, <1>3, StopKeeps
<1>4. CASE Put(f.length, TRUE)
  BY <1>2, <1>4, PutKeeps
<1>5. CASE Put(f.length, NumberHeld(f))
  <2>1. NumberHeld(f) \in BOOLEAN
    BY DEF NumberHeld
  <2> QED BY <1>2, <1>5, <2>1, PutKeeps
<1>6. CASE \E x \in Elsewhere(f.member) : e' = Written(Marks(x), f.length, Held) /\ UNCHANGED phase
  <2>1. PICK x : e' = Written(Marks(x), f.length, Held) /\ phase' = "encode"
    BY <1>2, <1>6
  <2>2. (IF x THEN e.extended \union {f.member} ELSE e.extended) \in SUBSET STRING
    BY <1>2 DEF Encodings
  <2> HIDE DEF f
  <2>3. Marks(x) \in Encodings /\ Marks(x).at = e.at
    BY <1>2, <2>2 DEF Encodings
  <2> HIDE DEF Marks
  <2>4. EncoderAt(Written(Marks(x), f.length, Held), "encode")
    BY <1>2, <2>3, WrittenIs
  <2> QED BY <2>1, <2>4 DEF EncodedOn, Encoding
<1> QED BY <1>1, <1>3, <1>4, <1>5, <1>6

LEMMA EncodeArrayKeeps ==
  ASSUME Given, EncoderAt(e, phase), d \in Decodings, EncodeArray
  PROVE  EncodedOn
<1> DEFINE f      == Fields[e.at]
           header == f.count_length + f.stride_length
           count  == CountWritten(f, Len(d.elements))
           stride == StrideWritten(f)
           same   == /\ InPlace
                     /\ f.count_length # 0 => count = body.count
                     /\ f.stride_length # 0 => stride = body.stride
           ee     == [e EXCEPT !.count = count, !.stride = stride, !.element = 0]
           left   == Larger(Remaining - header, 0)
           n      == header + Smaller(count * stride, IF stride = 0 THEN 0 ELSE left)
           begun  == [ee EXCEPT !.out = @ + header, !.same = @ /\ same]
<1>1. /\ Encodes({"array"})
      /\ \/ Stop
         \/ e' = Written(ee, n, same) /\ UNCHANGED phase
         \/ e' = begun /\ phase' = "encode_elements"
  BY DEF EncodeArray
<1>2. /\ e \in Encodings /\ e.at \in 1 .. Len(Fields) /\ phase = "encode" /\ InPlace \in BOOLEAN
      /\ ElementSize(e.at) \in Nat /\ IsField(f) /\ phase \in Encoding
  BY <1>1, EncodesAt
<1>3. {f.count_length, f.stride_length, f.stride} \subseteq Nat
  BY <1>2 DEF IsField
<1>4. {body.length, body.count, body.stride, d.count, d.stride, Len(d.elements), e.out} \subseteq Nat
  BY <1>2 DEF Given, Body, Decodings, Encodings
<1>5. same \in BOOLEAN
  OBVIOUS
<1> HIDE DEF f, same
<1>6. count \in Nat /\ stride \in Nat
  BY <1>2, <1>3, <1>4 DEF CountWritten, StrideWritten, Larger
<1>7. header \in Nat
  BY <1>3
<1> HIDE DEF count, stride, header
<1>8. n \in Nat
  <2>1. Remaining \in Nat
    BY <1>4 DEF Remaining, Larger
  <2>2. left \in Nat
    BY <1>7, <2>1 DEF Larger
  <2> HIDE DEF left
  <2>3. count * stride \in Nat
    BY <1>6
  <2> QED BY <1>7, <2>2, <2>3 DEF Smaller
<1>9. ee \in Encodings /\ ee.at = e.at /\ ee.out = e.out
  BY <1>2, <1>6 DEF Encodings
<1> HIDE DEF n, ee
<1>10. CASE e' = Written(ee, n, same) /\ UNCHANGED phase
  <2>1. EncoderAt(Written(ee, n, same), "encode")
    BY <1>2, <1>5, <1>8, <1>9, WrittenIs
  <2> QED BY <1>2, <1>10, <2>1 DEF EncodedOn, Encoding
<1>11. CASE e' = begun /\ phase' = "encode_elements"
  <2>1. ee.out + header \in Nat /\ (ee.same /\ same) \in BOOLEAN
    BY <1>4, <1>7, <1>9
  <2>2. begun \in Encodings /\ begun.at = e.at
    BY <1>9, <2>1 DEF Encodings
  <2> HIDE DEF begun
  <2>3. e.at \in 1 .. Len(Fields) + 1 /\ e.at <= Len(Fields)
    BY <1>2, FieldsOfGiven
  <2> QED BY <1>11, <2>2, <2>3 DEF EncodedOn, EncoderAt, Encoding
<1> QED BY <1>1, <1>2, <1>10, <1>11, StopKeeps

LEMMA EncodeElementsKeep ==
  ASSUME Given, EncoderAt(e, phase), EncodeElement \/ EncodeArrayEnd \/ EncodeEnd
  PROVE  EncodedOn
<1>1. e \in Encodings /\ e.at \in 1 .. Len(Fields) + 1 /\ Len(Fields) \in Nat
      /\ (phase = "encode_elements" => e.at <= Len(Fields))
  BY FieldsOfGiven DEF EncoderAt
<1>2. e.out + Remaining \in Nat
  <2>1. body.length \in Nat /\ e.out \in Nat
    BY <1>1 DEF Given, Body, Encodings
  <2> QED BY <2>1 DEF Remaining, Larger
<1>3. CASE EncodeElement
  <2> DEFINE n    == ElementSize(e.at)
             same == d.elements[e.element + 1] = e.out
  <2>1. /\ phase = "encode_elements"
        /\ \/ Stop
           \/ /\ e' = [e EXCEPT !.element = @ + 1, !.out = @ + Larger(n, e.stride), !.same = @ /\ same]
              /\ UNCHANGED phase
    BY <1>3 DEF EncodeElement
  <2>2. CASE Stop
    BY <2>1, <2>2, StopKeeps DEF Encoding
  <2>3. CASE /\ e' = [e EXCEPT !.element = @ + 1, !.out = @ + Larger(n, e.stride), !.same = @ /\ same]
             /\ UNCHANGED phase
    <3>1. n \in Nat /\ e.stride \in Nat /\ e.out \in Nat /\ e.element \in Nat
      BY <1>1, <2>1, FieldsOfGiven DEF Encodings
    <3>2. e.out + Larger(n, e.stride) \in Nat /\ e.element + 1 \in Nat
      BY <3>1 DEF Larger
    <3>3. (e.same /\ same) \in BOOLEAN
      OBVIOUS
    <3> HIDE DEF n, same
    <3>4. e' \in Encodings /\ e'.at = e.at
      BY <1>1, <2>3, <3>2, <3>3 DEF Encodings
    <3> QED BY <1>1, <2>1, <2>3, <3>4 DEF EncodedOn, EncoderAt, Encoding
  <2> QED BY <2>1, <2>2, <2>3
<1>4. CASE EncodeArrayEnd
  <2>1. phase = "encode_elements" /\ phase' = "encode" /\ e' = [e EXCEPT !.at = @ + 1]
    BY <1>4 DEF EncodeArrayEnd
  <2>2. e.at + 1 \in Nat /\ e.at + 1 \in 1 .. Len(Fields) + 1
    BY <1>1, <2>1
  <2>3. e' \in Encodings /\ e'.at = e.at + 1
    BY <1>1, <2>1, <2>2 DEF Encodings
  <2> QED BY <2>1, <2>2, <2>3 DEF EncodedOn, EncoderAt, Encoding
<1>5. CASE EncodeEnd
  <2> DEFINE out  == e.out + Remaining
             same == Preserves => out = body.length
  <2>1. /\ phase' \in {"refused", "encoded"}
        /\ e' = [e EXCEPT !.out = out, !.same = @ /\ same]
    BY <1>5 DEF EncodeEnd
  <2>2. (e.same /\ same) \in BOOLEAN
    OBVIOUS
  <2> HIDE DEF same, out
  <2>3. out \in Nat
    BY <1>2 DEF out
  <2>4. e' \in Encodings /\ e'.at = e.at
    BY <1>1, <2>1, <2>2, <2>3 DEF Encodings
  <2> QED BY <1>1, <2>1, <2>4 DEF EncodedOn, EncoderAt, Encoding
<1> QED BY <1>3, <1>4, <1>5

LEMMA EncodeStartKeeps ==
  ASSUME Given, entity \in DOMAIN Bodies, EncodeStart
  PROVE  EncodedOn
<1>1. /\ phase' = "encode"
      /\ \/ e' = [NotEncoded EXCEPT !.mode = "preserve"]
         \/ \E v \in WrittenVersions[entity] :
              e' = [NotEncoded EXCEPT !.mode = "canonical", !.version = v]
  BY DEF EncodeStart
<1>2. NotEncoded \in Encodings /\ NotEncoded.at = 1
  BY DEF NotEncoded, Encodings, NoVersion, V, HeaderLength
<1>3. WrittenVersions[entity] \subseteq Nat
  BY BodiesAssumption
<1>4. e' \in Encodings /\ e'.at = 1
  <2>1. CASE e' = [NotEncoded EXCEPT !.mode = "preserve"]
    BY <1>2, <2>1 DEF Encodings
  <2>2. CASE \E v \in WrittenVersions[entity] :
               e' = [NotEncoded EXCEPT !.mode = "canonical", !.version = v]
    <3>1. PICK v \in Nat : e' = [NotEncoded EXCEPT !.mode = "canonical", !.version = v]
      BY <1>3, <2>2
    <3> QED BY <1>2, <3>1 DEF Encodings
  <2> QED BY <1>1, <2>1, <2>2
<1>5. 1 \in 1 .. Len(Fields) + 1
  BY FieldsOfGiven
<1> QED BY <1>1, <1>4, <1>5 DEF EncodedOn, EncoderAt, Encoding

-----------------------------------------------------------------------------
(* The invariant holds of every state.                                     *)

LEMMA EncodeHolds == Inv /\ (EncodeStart \/ Encode) => Inv'
<1> SUFFICES ASSUME Inv, EncodeStart \/ Encode PROVE Inv'
    OBVIOUS
<1>1. /\ phase \in {"decoded", "encode", "encode_elements"}
      /\ UNCHANGED <<entity, spec, table, body, round, d, first>>
  BY DEF Encode, EncodeStart, EncodeOffset, EncodePreset, EncodeGroup, EncodeBits, EncodePad,
         EncodeSkip, EncodeVector, EncodeUuid, EncodeBcd, EncodeBinary, EncodeValue, EncodeArray,
         EncodeElement, EncodeArrayEnd, EncodeEnd, Encodes
<1>2. Given /\ d \in Decodings /\ EncoderAt(e, phase) /\ entity \in DOMAIN Bodies
      /\ d.pos <= Larger(Size, HeaderLength)
  BY <1>1 DEF Inv
<1>3. EncodedOn
  BY <1>2, EncodeStartKeeps, EncodePlainKeeps, EncodeBitsKeep, EncodeValuesKeep, EncodeValueKeeps,
     EncodeArrayKeeps, EncodeElementsKeep DEF Encode
<1>4. Fields' = Fields /\ Given' /\ Size' = Size
  BY <1>1, <1>2, SameStructure DEF Size
<1>5. EncoderAt(e, phase)'
  BY <1>3, <1>4 DEF EncodedOn, EncoderAt
<1>6. phase' \notin {"idle", "start", "decode", "elements", "decoded", "failed"} /\ phase' \in Phases
  BY <1>3 DEF EncodedOn, Encoding, Phases
<1>7. Outcome(d, phase)'
  BY <1>6 DEF Outcome
<1> QED BY <1>1, <1>2, <1>4, <1>5, <1>6, <1>7 DEF Inv

\* What is written for a version is a body, and is read as one.
LEMMA RereadHolds == Inv /\ Reread => Inv'
<1> SUFFICES ASSUME Inv, Reread PROVE Inv'
    OBVIOUS
<1>1. /\ phase = "encoded" /\ phase' = "start" /\ round' = 2 /\ table' = e.version /\ first' = d
      /\ body' = [length |-> e.out, count |-> e.count, stride |-> e.stride,
                  declared |-> d.kept, extended |-> e.extended, decimal |-> TRUE]
      /\ d' = NotDecoded /\ e' = NotEncoded /\ entity' = entity /\ spec' = spec
  BY DEF Reread
<1>2. Given /\ d \in Decodings /\ e \in Encodings /\ entity \in DOMAIN Bodies
      /\ Len(d.starts) <= Len(Fields)
  BY <1>1 DEF Inv, EncoderAt
<1>3. body' \in Body /\ table' \in Nat
  BY <1>1, <1>2 DEF Body, Encodings, Decodings
<1>4. Given' /\ Fields' = Fields
  BY <1>1, <1>2, <1>3 DEF Given, Fields
<1>5. Len(Fields) \in Nat
  BY <1>2, FieldsOfGiven
<1>6. d' \in Decodings /\ Len(d'.starts) <= Len(Fields) /\ d'.pos = HeaderLength
  <2>1. NotDecoded.starts = << >> /\ Len(<< >>) = 0 /\ NotDecoded.pos = HeaderLength
    BY DEF NotDecoded
  <2> QED BY <1>1, <1>5, <2>1, NotDecodedIs
<1>7. EncoderAt(e, phase)'
  <2>1. NotEncoded \in Encodings /\ NotEncoded.at = 1
    BY DEF NotEncoded, Encodings, NoVersion, V, HeaderLength
  <2>2. 1 \in 1 .. Len(Fields) + 1
    BY <1>5
  <2> QED BY <1>1, <1>4, <2>1, <2>2 DEF EncoderAt
<1>8. Outcome(d, phase)'
  BY <1>1 DEF Outcome
<1>9. (d.pos <= Larger(Size, HeaderLength))'
  <2>1. Size' \in Nat
    BY <1>3 DEF Body, Size
  <2> QED BY <1>6, <2>1 DEF Larger, HeaderLength
<1> QED BY <1>1, <1>2, <1>4, <1>6, <1>7, <1>8, <1>9 DEF Inv, Phases

LEMMA ReleaseHolds == Release => Inv'
<1> SUFFICES ASSUME Release PROVE Inv'
    OBVIOUS
<1>1. /\ phase' = "idle" /\ spec' = NoSpec /\ round' = 1
      /\ d' = NotDecoded /\ e' = NotEncoded /\ first' = NotDecoded /\ Init'
  BY DEF Release, Init
<1>2. Fields' = << >> /\ Len(Fields') = 0 /\ Len(NotDecoded.starts) = 0
  BY <1>1 DEF NoSpec, NoFields, Fields, NotDecoded
<1>3. EncoderAt(e, phase)'
  <2>1. NotEncoded \in Encodings /\ NotEncoded.at = 1
    BY DEF NotEncoded, Encodings, NoVersion, V, HeaderLength
  <2>2. 1 \in 1 .. 0 + 1
    OBVIOUS
  <2> QED BY <1>1, <1>2, <2>1, <2>2 DEF EncoderAt
<1> QED BY <1>1, <1>2, <1>3, NotDecodedIs DEF Inv, Phases

LEMMA StutterHolds == Inv /\ UNCHANGED vars => Inv'
<1> SUFFICES ASSUME Inv, UNCHANGED vars PROVE Inv'
    OBVIOUS
<1>1. /\ entity' = entity /\ spec' = spec /\ table' = table /\ body' = body /\ round' = round
      /\ phase' = phase /\ d' = d /\ e' = e /\ first' = first
  BY DEF vars
<1>2. Fields' = Fields /\ Size' = Size /\ (Given <=> Given')
  BY <1>1, SameStructure DEF Size
<1>3. Outcome(d, phase) => Outcome(d, phase)'
  BY <1>1, SameOutcome
<1>4. Init => Init'
  BY <1>1 DEF Init
<1> QED BY <1>1, <1>2, <1>3, <1>4 DEF Inv, EncoderAt

LEMMA InvHolds == Spec => []Inv
<1>1. Inv /\ [Next]_vars => Inv'
  BY TakeHolds, DecodeHolds, EncodeHolds, RereadHolds, ReleaseHolds, StutterHolds DEF Next
<1> QED BY <1>1, InitHolds, PTL DEF Spec

-----------------------------------------------------------------------------
(* What the invariant tells.                                               *)

\* Every number the engine keeps is one of its kind, for structures of any
\* length: no position is negative or past the data.
THEOREM TypeCorrect == Spec => []TypeOK
<1>1. ASSUME Inv PROVE TypeOK
  <2>1. (phase = "idle" => entity = "" /\ spec = NoSpec) /\ table \in Nat /\ body \in Body
    <3>1. CASE phase = "idle"
      <4>1. Init
        BY <1>1, <3>1 DEF Inv
      <4>2. NoVersion \in Nat
        BY DEF NoVersion, V
      <4>3. entity = "" /\ spec = NoSpec /\ table \in Nat /\ body = NoBody
        BY <4>1, <4>2 DEF Init
      <4> QED BY <4>3 DEF NoBody, Body
    <3>2. CASE phase # "idle"
      BY <1>1, <3>2 DEF Inv, Given
    <3> QED BY <3>1, <3>2
  <2>2. ASSUME NEW dd \in {d, first}
        PROVE  /\ Len(dd.starts) <= Len(Fields) /\ Range(dd.starts) \subseteq Nat
               /\ dd.pos \in Nat /\ dd.taken \in Nat /\ dd.level \in Nat /\ dd.defined \in Nat
               /\ dd.flags \subseteq {"PARTIAL", "INCOMPLETE"}
               /\ dd.cut \in BOOLEAN /\ dd.optional \in BOOLEAN /\ dd.data \in BOOLEAN
               /\ {dd.kept, dd.count, dd.stride, dd.leftover} \subseteq Nat
               /\ Range(dd.elements) \subseteq Nat
    <3>1. dd \in Decodings /\ Len(dd.starts) <= Len(Fields)
      BY <1>1 DEF Inv
    <3>2. dd.starts \in Seq(Nat) /\ dd.elements \in Seq(Nat)
      BY <3>1 DEF Decodings
    <3>3. \A s \in Seq(Nat) : Range(s) \subseteq Nat
      BY DEF Range
    <3> QED BY <3>1, <3>2, <3>3 DEF Decodings
  <2>3. /\ e.mode \in {"none", "preserve", "canonical"} /\ e.version \in Nat
        /\ e.at \in 1 .. Len(Fields) + 1 /\ {e.out, e.taken, e.element, e.count, e.stride} \subseteq Nat
        /\ e.same \in BOOLEAN /\ e.stopped \in BOOLEAN
    BY <1>1 DEF Inv, EncoderAt, Encodings
  <2> QED BY <1>1, <2>1, <2>2, <2>3 DEF Inv, TypeOK, Size
<1> QED BY <1>1, InvHolds, PTL

\* A structure is rejected exactly when its data is too short for the
\* fields it has to have, whatever the specification and the data.
THEOREM RejectedIffBroken == Spec => []RejectedIfBroken
<1>1. ASSUME Inv PROVE RejectedIfBroken
  <2>1. phase = "decoded" => ~Broken(Begins)
    BY <1>1 DEF Inv, Outcome, Settled
  <2>2. phase = "failed" => Broken(Begins)
    BY <1>1 DEF Inv, Outcome
  <2>3. Broken(Begins) \in BOOLEAN
    BY DEF Broken
  <2>4. Verdict => (phase = "failed") = Broken(Begins)
    BY <2>1, <2>2, <2>3 DEF Verdict
  <2> QED BY <2>4 DEF RejectedIfBroken
<1> QED BY <1>1, InvHolds, PTL

\* The states of a decoded structure tell where its data ends, at which
\* field and version the data ends and whatever arrays it has.
THEOREM FlagsAreTrue == Spec => []FlagsTellTheLength
<1>1. ASSUME Inv PROVE FlagsTellTheLength
  <2> SUFFICES ASSUME phase = "decoded" PROVE FlagsTellTheLength
      BY DEF FlagsTellTheLength
  <2>1. FlagsTell(d.flags)
    BY <1>1 DEF Inv, Outcome, Settled
  <2> DEFINE partial == \E i \in DOMAIN Fields : GroupAt(i) /\ EndsAt(Begins, i)
             short   == LeftOver(Begins) \/ (~Reaches(Begins, Len(Fields) + 1) /\ ~partial)
  <2>2. /\ "PARTIAL" \in d.flags <=> partial
        /\ "INCOMPLETE" \in d.flags <=> short
    BY <2>1 DEF FlagsTell, EndsAtGroup
  <2>3. ("PARTIAL" \in d.flags) = partial /\ ("INCOMPLETE" \in d.flags) = short
    <3>1. partial \in BOOLEAN /\ short \in BOOLEAN
      OBVIOUS
    <3> HIDE DEF partial, short
    <3> QED BY <2>2, <3>1
  <2> QED BY <2>3 DEF FlagsTellTheLength
<1> QED BY <1>1, InvHolds, PTL

\* The elements of a decoded structure are the ones its data has in full,
\* whatever number and length of them the data declares.
THEOREM ElementsAreWhole == Spec => []ArraysAreWhole
<1>1. ASSUME Inv PROVE ArraysAreWhole
  <2> SUFFICES ASSUME phase = "decoded" PROVE ArraysAreWhole
      BY DEF ArraysAreWhole
  <2>1. ArraysWhole(Len(d.elements))
    BY <1>1 DEF Inv, Outcome, Settled
  <2> QED BY <2>1 DEF ArraysWhole, Whole, IsArray, Size, At, ArraysAreWhole
<1> QED BY <1>1, InvHolds, PTL

\* What has been read of a structure is shown: the level it ends at is not
\* below the one of an attribute of a field it has.
THEOREM ReadingIsShown == Spec => []ReadIsShown
<1>1. ASSUME Inv PROVE ReadIsShown
  <2> SUFFICES ASSUME phase = "decoded" PROVE ReadIsShown
      BY DEF ReadIsShown
  <2>1. Shown(d)
    BY <1>1 DEF Inv, Outcome, Settled
  <2> QED BY <2>1 DEF Shown, ReadIsShown, WasRead, IsShown
<1> QED BY <1>1, InvHolds, PTL

-----------------------------------------------------------------------------
(* What a decoded structure remembers is what its fields say, which is why *)
(* the encoder finds each value at the place it was read from.             *)

Header(i) == Fields[i].count_length + Fields[i].stride_length

\* Numbers which are the length of the data of the open field.
Tells(i) ==
  /\ Fields[i].kind \in {"integer", "string", "bcd", "uuid", "binary", "skip"}
  /\ ~IsOpen(Fields[i]) /\ TellsLength(Fields[i])

\* Each field was read from where it begins.
StartsKept(dd) == \A i \in 1 .. Len(dd.starts) : dd.starts[i] = At(i).bit

\* The length of the data is the one it has, and the one declared.
DataKept(i, dd) ==
  /\ IsOpen(Fields[i]) => dd.kept = Extent(i, Byte(i))
  /\ Tells(i) => dd.kept = body.declared

\* The elements are at equal distances, and as many as the array declares.
ElementsAt(i, dd) ==
  \A k \in 1 .. Len(dd.elements) :
    dd.elements[k] = Byte(i) + Header(i) + ((k - 1) * Step(i))
ArrayKept(i, dd) == LET f == Fields[i] IN
  /\ dd.count = Elements(f, Byte(i)) /\ dd.stride = Stride(f)
  /\ Len(dd.elements) = IF ArrayIsSkipped(f, Stride(f)) THEN 0 ELSE dd.count
  /\ ElementsAt(i, dd)

\* All of the fields before the s-th.
Traced(s, dd) ==
  /\ StartsKept(dd)
  /\ \A i \in 1 .. s - 1 : DataKept(i, dd) /\ (IsArray(i) => ArrayKept(i, dd))

\* The data of a decoded structure goes as far as its fields do or ends at a
\* group, or it ends within the last field that was begun.
EndsWhole(dd) ==
  LET s == Len(dd.starts) + 1 IN
  /\ Traced(s, dd) /\ ~dd.cut /\ Byte(s) <= Size
  /\ s <= Len(Fields) => GroupAt(s) /\ Byte(s) = Size
EndsShort(dd) ==
  LET s == Len(dd.starts) IN
  /\ s \in DOMAIN Fields /\ Byte(s) <= Size /\ Size < Byte(s + 1)
  /\ "INCOMPLETE" \in dd.flags /\ StartsKept(dd)
  /\ Traced(s, dd) \/ Fields[s].length = Declared
Ended(dd) == EndsWhole(dd) \/ EndsShort(dd)

Trace(dd, ph) ==
  /\ ph = "decode" => Traced(Len(dd.starts) + 1, dd)
  /\ ph = "elements" => Traced(Len(dd.starts), dd) /\ ElementsAt(Len(dd.starts), dd)
  /\ ph = "decoded" => Ended(dd)

\* A field is read from the bit it begins at.
LEMMA ReadFrom ==
  ASSUME Given, d \in Decodings, NEW s, AtField(s, d)
  PROVE  AtBit = At(s).bit
<1>1. s \in 1 .. Len(Fields) + 1 /\ d.pos = Byte(s) /\ d.taken = At(s).taken
  BY DEF AtField
<1>2. PICK k \in Nat : At(s).bit = 8 * k + At(s).taken
  BY <1>1, BeginsOf DEF At, IsPlaced
<1>3. At(s).taken \in Nat
  BY <1>1, BytePlaces DEF Place
<1> DEFINE t == At(s).taken
<1>4. Byte(s) = k + BytesOf(t) /\ BytesOf(t) \in Nat
  BY <1>2, <1>3, BytesOfBits DEF Byte
<1> HIDE DEF t
<1>5. 8 * BytesOf(t) - Padding(t, 8) = t
  <2>1. t \in Nat
    BY <1>3 DEF t
  <2> QED BY <2>1 DEF BytesOf, Padding
<1>6. Padding(t, 8) \in Nat
  BY <1>3, PaddingOf DEF t
<1>7. AtBit = 8 * (k + BytesOf(t)) - Padding(t, 8)
  BY <1>1, <1>4 DEF AtBit, t
<1> QED BY <1>2, <1>4, <1>5, <1>6, <1>7 DEF t

\* There is one open field, which is the one whose length is told.
LEMMA OneOpen ==
  ASSUME Given
  PROVE  /\ \A i, j \in DOMAIN Fields : IsOpen(Fields[i]) /\ IsOpen(Fields[j]) => i = j
         /\ \A i, j \in DOMAIN Fields :
              Tells(i) /\ IsOpen(Fields[j]) => Extent(j, Byte(j)) = body.declared
<1>1. \A i, j \in DOMAIN Fields : IsOpen(Fields[i]) /\ IsOpen(Fields[j]) => i = j
  BY DEF Given, WellFormed, FieldRules, Fields
<1>2. ASSUME NEW i \in DOMAIN Fields, NEW j \in DOMAIN Fields, Tells(i), IsOpen(Fields[j])
      PROVE  Extent(j, Byte(j)) = body.declared
  <2>1. PICK g \in Range(Fields) : g.length = Declared
    BY <1>2 DEF Tells, TellsLength
  <2>2. PICK k \in DOMAIN Fields : Fields[k] = g
    BY DEF Range
  <2>3. k = j
    BY <1>1, <1>2, <2>1, <2>2 DEF IsOpen
  <2>4. Fields[j].length = Declared /\ Fields[j].kind = "binary"
    BY <2>1, <2>2, <2>3, FieldsOfGiven DEF IsField
  <2> QED BY <2>4 DEF Extent, Rest, Declared
<1> QED BY <1>1, <1>2

\* The place of a field is remembered after the ones before it.
LEMMA StartsOn ==
  ASSUME Given, d \in Decodings, NEW s \in DOMAIN Fields, s = Len(d.starts) + 1,
         AtField(s, d), StartsKept(d), NEW ee, ee.starts = Append(d.starts, AtBit)
  PROVE  StartsKept(ee) /\ Len(ee.starts) = s
<1>1. s \in Nat /\ Len(Append(d.starts, AtBit)) = s /\ Len(d.starts) \in Nat
  BY AtFieldFacts
<1>2. d.starts \in Seq(Nat) /\ AtBit = At(s).bit
  BY ReadFrom DEF Decodings
<1> SUFFICES ASSUME NEW i \in 1 .. s PROVE ee.starts[i] = At(i).bit
    BY <1>1 DEF StartsKept
<1>3. CASE i = s
  BY <1>1, <1>2, <1>3
<1>4. CASE i # s
  <2>1. i \in 1 .. Len(d.starts)
    BY <1>1, <1>4
  <2>2. ee.starts[i] = d.starts[i]
    BY <1>2, <2>1
  <2> QED BY <2>1, <2>2 DEF StartsKept
<1> QED BY <1>3, <1>4

\* A field that has been read is remembered with the ones before it.
LEMMA TracedOn ==
  ASSUME Given, d \in Decodings, NEW s \in DOMAIN Fields, s = Len(d.starts) + 1,
         AtField(s, d), Traced(s, d), ~IsArray(s),
         NEW ee, ee.starts = Append(d.starts, AtBit),
         ee.count = d.count, ee.stride = d.stride, ee.elements = d.elements,
         \/ ~IsOpen(Fields[s]) /\ ~Tells(s) /\ ee.kept = d.kept
         \/ Tells(s) /\ ee.kept = body.declared
         \/ IsOpen(Fields[s]) /\ ee.kept = Extent(s, Byte(s))
  PROVE  Traced(s + 1, ee) /\ Len(ee.starts) = s
<1>1. /\ s \in Nat /\ Len(Append(d.starts, AtBit)) = s /\ Len(d.starts) \in Nat
      /\ DOMAIN Fields = 1 .. Len(Fields)
  BY AtFieldFacts, FieldsOfGiven
<1>4. StartsKept(ee) /\ Len(ee.starts) = s
  BY StartsOn DEF Traced
<1>5. \A i \in 1 .. s : i \in DOMAIN Fields /\ (i \in 1 .. s - 1 \/ i = s)
  BY <1>1
<1>6. \A i \in 1 .. s : DataKept(i, ee)
  <2> TAKE i \in 1 .. s
  <2>1. i \in DOMAIN Fields /\ s \in DOMAIN Fields
    BY <1>5
  <2>2. Tells(i) => ~IsOpen(Fields[i])
    BY DEF Tells
  <2>3. CASE i = s
    BY <2>2, <2>3 DEF DataKept
  <2>4. CASE i \in 1 .. s - 1
    <3>1. DataKept(i, d) /\ i # s
      BY <1>1, <2>4 DEF Traced
    <3>2. CASE ee.kept = d.kept
      BY <3>1, <3>2 DEF DataKept
    <3>3. CASE Tells(s) /\ ee.kept = body.declared
      BY <2>1, <3>1, <3>3, OneOpen DEF DataKept
    <3>4. CASE IsOpen(Fields[s]) /\ ee.kept = Extent(s, Byte(s))
      BY <2>1, <3>1, <3>4, OneOpen DEF DataKept
    <3> QED BY <3>2, <3>3, <3>4
  <2> QED BY <1>5, <2>3, <2>4
<1>7. \A i \in 1 .. s : IsArray(i) => ArrayKept(i, ee)
  <2> TAKE i \in 1 .. s
  <2> HAVE IsArray(i)
  <2>1. ArrayKept(i, d)
    BY <1>5 DEF Traced
  <2> QED BY <2>1 DEF ArrayKept, ElementsAt
<1>8. (s + 1) - 1 = s
  BY <1>1
<1> QED BY <1>1, <1>4, <1>6, <1>7, <1>8 DEF Traced

\* The structure is decoded although its data ends within a field.
LEMMA ShortTraces ==
  ASSUME Given, NEW s \in DOMAIN Fields, NEW dd \in Decodings, Len(dd.starts) = s,
         Byte(s) <= Size, Size < Byte(s + 1), StartsKept(dd),
         Traced(s, dd) \/ Fields[s].length = Declared,
         NEW incomplete, Short(dd, incomplete)
  PROVE  Trace(d', phase')
<1>1. CASE dd.optional \/ incomplete
  <2>1. Decoded(dd, {"INCOMPLETE"})
    BY <1>1 DEF Short
  <2> DEFINE ee == [dd EXCEPT !.flags = @ \union {"INCOMPLETE"}, !.level = Larger(@, dd.defined)]
  <2>2. d' = ee /\ phase' = "decoded"
    BY <2>1 DEF Decoded
  <2>3. /\ ee.starts = dd.starts /\ "INCOMPLETE" \in ee.flags /\ ee.kept = dd.kept
        /\ ee.count = dd.count /\ ee.stride = dd.stride /\ ee.elements = dd.elements
    BY DEF Decodings
  <2> HIDE DEF ee
  <2>4. StartsKept(ee) /\ (Traced(s, dd) => Traced(s, ee))
    BY <2>3 DEF StartsKept, Traced, DataKept, ArrayKept, ElementsAt
  <2>5. EndsShort(ee)
    BY <2>3, <2>4 DEF EndsShort
  <2> QED BY <2>2, <2>5 DEF Trace, Ended
<1>2. CASE ~(dd.optional \/ incomplete)
  BY <1>2 DEF Short, Trace
<1> QED BY <1>1, <1>2

\* A value, a vector or a range of bits is remembered, or the data ends in it.
LEMMA ConsumeTraces ==
  ASSUME Given, d \in Decodings, phase = "decode",
         NEW s \in DOMAIN Fields, s = Len(d.starts) + 1, AtField(s, d), Traced(s, d),
         ~IsArray(s), ~IsOpen(Fields[s]),
         NEW ends, IsEnds(ends), Byte(s + 1) = Byte(s) + Total(ends),
         NEW dd \in Decodings, dd.starts = d.starts,
         dd.count = d.count, dd.stride = d.stride, dd.elements = d.elements,
         dd.kept = IF Tells(s) THEN body.declared ELSE d.kept,
         Consume(ends, dd)
  PROVE  Trace(d', phase')
<1>1. /\ s \in Nat /\ Len(Append(d.starts, AtBit)) = s /\ Append(d.starts, AtBit) \in Seq(Nat)
      /\ Left = Size - Byte(s) /\ Byte(s) \in Nat /\ Size \in Nat /\ Left \in Nat
      /\ Byte(s + 1) \in Nat /\ d.pos \in Nat
  BY AtFieldFacts
<1>2. Total(ends) \in Nat
  BY TotalOf
<1>3. CASE Total(ends) <= Left
  <2> DEFINE ee == [Entered(dd) EXCEPT !.pos = @ + Total(ends)]
  <2>1. d' = ee /\ phase' = "decode"
    BY <1>3 DEF Consume
  <2>2. /\ ee.starts = Append(d.starts, AtBit) /\ ee.kept = dd.kept /\ ee.count = d.count
        /\ ee.stride = d.stride /\ ee.elements = d.elements
    BY <1>1 DEF Decodings, Entered
  <2> HIDE DEF ee
  <2>3. Traced(s + 1, ee) /\ Len(ee.starts) = s
    BY <2>2, TracedOn
  <2> QED BY <2>1, <2>3 DEF Trace
<1>4. CASE ~(Total(ends) <= Left)
  <2> DEFINE ee == [Entered(d) EXCEPT !.pos = @ + Taken(ends, Left), !.cut = TRUE]
  <2>1. Short(ee, FALSE)
    BY <1>4 DEF Consume
  <2>2. Taken(ends, Left) \in Nat
    BY <1>1, TakenOf
  <2>3. /\ ee \in Decodings /\ ee.starts = Append(d.starts, AtBit) /\ ee.kept = d.kept
        /\ ee.count = d.count /\ ee.stride = d.stride /\ ee.elements = d.elements
    <3>1. Entered(d) \in Decodings /\ Entered(d).pos = d.pos
      BY <1>1 DEF Decodings, Entered
    <3>2. Entered(d).pos + Taken(ends, Left) \in Nat
      BY <1>1, <2>2, <3>1
    <3> QED BY <1>1, <3>1, <3>2 DEF Decodings, Entered
  <2> HIDE DEF ee
  <2>4. Traced(s, ee)
    <3>2. StartsKept(ee)
      BY <2>3, StartsOn DEF Traced
    <3> QED BY <2>3, <3>2 DEF Traced, DataKept, ArrayKept, ElementsAt
  <2>5. Byte(s) <= Size /\ Size < Byte(s + 1) /\ Len(ee.starts) = s
    <3>1. Byte(s) <= Size
      BY DEF AtField, ReadTo
    <3> QED BY <1>1, <1>2, <1>4, <2>3, <3>1
  <2>6. StartsKept(ee)
    BY <2>4 DEF Traced
  <2> QED BY <2>1, <2>3, <2>4, <2>5, <2>6, ShortTraces
<1> QED BY <1>3, <1>4

\* Fields that take nothing are remembered.
LEMMA EnteredTraces ==
  ASSUME Given, d \in Decodings, Outcome(d, phase), Trace(d, phase),
         DecodeOffset \/ DecodePreset
  PROVE  Trace(d', phase')
<1> DEFINE s == Here
<1>1. phase = "decode" /\ Fields[s].kind \in {"offset", "preset"} /\ Here <= Len(Fields)
  BY DEF DecodeOffset, DecodePreset, Decodes
<1>2. s \in DOMAIN Fields /\ s = Len(d.starts) + 1 /\ AtField(s, d) /\ Traced(s, d)
  BY <1>1, AtHere DEF Trace
<1>3. (d' = Entered(d) /\ phase' = "decode") \/ phase' = "failed"
  BY <1>1 DEF DecodeOffset, DecodePreset
<1> HIDE DEF s
<1>4. ~IsArray(s) /\ ~IsOpen(Fields[s]) /\ ~Tells(s)
  BY <1>1, <1>2, FieldsOfGiven DEF IsArray, IsOpen, Tells, IsField
<1>5. /\ Entered(d).starts = Append(d.starts, AtBit) /\ Entered(d).kept = d.kept
      /\ Entered(d).count = d.count /\ Entered(d).stride = d.stride
      /\ Entered(d).elements = d.elements
  BY <1>2, AtFieldFacts DEF Entered, Decodings
<1>6. Traced(s + 1, Entered(d)) /\ Len(Entered(d).starts) = s
  BY <1>2, <1>4, <1>5, TracedOn
<1> QED BY <1>3, <1>6 DEF Trace

\* A group is remembered, or ends the structure.
LEMMA GroupTraces ==
  ASSUME Given, d \in Decodings, Outcome(d, phase), Trace(d, phase), DecodeGroup
  PROVE  Trace(d', phase')
<1> DEFINE s == Here
           g == Fields[s]
           m == Marked(d)
<1>1. phase = "decode" /\ g.kind = "group" /\ Here <= Len(Fields)
  BY DEF DecodeGroup, Decodes
<1>2. s \in DOMAIN Fields /\ s = Len(d.starts) + 1 /\ AtField(s, d) /\ Traced(s, d)
  BY <1>1, AtHere DEF Trace
<1>3. /\ m \in Decodings /\ m.starts = d.starts /\ m.cut = d.cut /\ m.elements = d.elements
      /\ m.kept = d.kept /\ m.count = d.count /\ m.stride = d.stride
  BY MarkedIs DEF Marked, Decodings
<1>4. /\ Left = Size - Byte(s) /\ Byte(s) \in Nat /\ Size \in Nat /\ ~d.cut
      /\ Append(d.starts, AtBit) \in Seq(Nat)
  BY <1>2, AtFieldFacts
<1>5. CASE Left = 0
  <2> DEFINE ee == [m EXCEPT !.flags = @ \union {"PARTIAL"}, !.level = Larger(@, m.defined)]
  <2>1. d' = ee /\ phase' = "decoded"
    BY <1>5 DEF DecodeGroup, Decoded
  <2>2. /\ ee.starts = d.starts /\ ee.cut = d.cut /\ ee.elements = d.elements
        /\ ee.kept = d.kept /\ ee.count = d.count /\ ee.stride = d.stride
    BY <1>3 DEF Decodings
  <2> HIDE DEF ee, m, s
  <2>3. Traced(s, ee)
    BY <1>2, <2>2 DEF Traced, StartsKept, DataKept, ArrayKept, ElementsAt
  <2>4. Byte(s) = Size /\ GroupAt(s)
    BY <1>1, <1>4, <1>5 DEF GroupAt
  <2>5. EndsWhole(ee)
    BY <1>2, <1>4, <2>2, <2>3, <2>4 DEF EndsWhole
  <2> QED BY <2>1, <2>5 DEF Trace, Ended
<1>6. CASE Left # 0
  <2> DEFINE ee == [Entered(m) EXCEPT !.group = g.present, !.optional = TRUE,
                                      !.level = IF g.since # NoVersion THEN g.since ELSE @]
  <2>1. d' = ee /\ phase' = "decode"
    BY <1>1, <1>6 DEF DecodeGroup
  <2> HIDE DEF m, s
  <2>2. /\ Entered(m) \in Decodings /\ Entered(m).starts = Append(d.starts, AtBit)
        /\ Entered(m).kept = d.kept /\ Entered(m).count = d.count
        /\ Entered(m).stride = d.stride /\ Entered(m).elements = d.elements
    BY <1>3, <1>4 DEF Entered, Decodings
  <2>3. /\ ee.starts = Append(d.starts, AtBit) /\ ee.kept = d.kept /\ ee.count = d.count
        /\ ee.stride = d.stride /\ ee.elements = d.elements
    BY <2>2 DEF Decodings
  <2> HIDE DEF ee
  <2>4. ~IsArray(s) /\ ~IsOpen(Fields[s]) /\ ~Tells(s)
    BY <1>1, <1>2, FieldsOfGiven DEF IsArray, IsOpen, Tells, IsField
  <2>5. Traced(s + 1, ee) /\ Len(ee.starts) = s
    BY <1>2, <2>3, <2>4, TracedOn
  <2> QED BY <2>1, <2>5 DEF Trace
<1> QED BY <1>5, <1>6

\* The list ends with every field remembered.
LEMMA EndTraces ==
  ASSUME Given, d \in Decodings, Outcome(d, phase), Trace(d, phase), DecodeEnd
  PROVE  Trace(d', phase')
<1> DEFINE m == Marked(d)
           ee == [m EXCEPT !.flags = @ \union {}, !.level = Larger(@, m.defined)]
           s == Len(d.starts) + 1
<1>1. phase = "decode" /\ Here > Len(Fields) /\ d' = ee /\ phase' = "decoded"
  BY DEF DecodeEnd, Decoded
<1>2. /\ m \in Decodings /\ m.starts = d.starts /\ m.cut = d.cut /\ m.elements = d.elements
      /\ m.kept = d.kept /\ m.count = d.count /\ m.stride = d.stride
  BY MarkedIs DEF Marked, Decodings
<1>3. /\ ee.starts = d.starts /\ ee.cut = d.cut /\ ee.elements = d.elements
      /\ ee.kept = d.kept /\ ee.count = d.count /\ ee.stride = d.stride
  BY <1>2 DEF Decodings
<1>4. AtField(s, d) /\ Traced(s, d) /\ ~(s <= Len(Fields))
  <2>1. s = Here /\ s \in Nat /\ Len(Fields) \in Nat
    BY FieldsOfGiven DEF Here, Decodings
  <2> QED BY <1>1, <2>1 DEF Outcome, Trace
<1> HIDE DEF ee, m
<1>5. Traced(s, ee)
  BY <1>3, <1>4 DEF Traced, StartsKept, DataKept, ArrayKept, ElementsAt
<1>6. Byte(s) <= Size /\ ~d.cut
  BY <1>4 DEF AtField, ReadTo
<1>7. EndsWhole(ee)
  BY <1>3, <1>4, <1>5, <1>6 DEF EndsWhole
<1> QED BY <1>1, <1>7 DEF Trace, Ended

LEMMA ValueTraces ==
  ASSUME Given, d \in Decodings, Outcome(d, phase), Trace(d, phase), DecodeValue
  PROVE  Trace(d', phase')
<1> DEFINE s == Here
           f == Fields[s]
           dd == [d EXCEPT !.kept = IF TellsLength(f) THEN body.declared ELSE @,
                           !.wide = IF f.extended /\ f.when \in body.extended
                                      THEN @ \union {f.member} ELSE @]
<1>1. /\ phase = "decode" /\ f.kind \in {"integer", "string", "bcd", "uuid", "binary", "skip"}
      /\ Here <= Len(Fields) /\ f.length \notin {Rest, Declared} /\ Consume({0, f.length}, dd)
  BY DEF DecodeValue, Decodes
<1>2. s \in DOMAIN Fields /\ s = Len(d.starts) + 1 /\ AtField(s, d) /\ Traced(s, d)
  BY <1>1, AtHere DEF Trace
<1> HIDE DEF s
<1>3. IsField(f) /\ f.length \in Nat /\ f.member \in Names
  BY <1>1, <1>2, FieldsOfGiven DEF IsField, Names
<1>4. Tells(s) <=> TellsLength(f)
  BY <1>1 DEF Tells, IsOpen
<1>5. /\ dd \in Decodings /\ dd.starts = d.starts /\ dd.count = d.count /\ dd.stride = d.stride
      /\ dd.elements = d.elements /\ dd.kept = IF Tells(s) THEN body.declared ELSE d.kept
  <2>1. (IF TellsLength(f) THEN body.declared ELSE d.kept) \in Nat
    BY DEF Given, Body, Decodings
  <2>2. (IF f.extended /\ f.when \in body.extended THEN d.wide \union {f.member} ELSE d.wide)
          \in SUBSET Names
    BY <1>3 DEF Decodings
  <2> HIDE DEF f
  <2> QED BY <1>4, <2>1, <2>2 DEF Decodings
<1> HIDE DEF dd
<1>6. IsEnds({0, f.length}) /\ Total({0, f.length}) = f.length
  BY <1>3, ValueEnds
<1>7. Byte(s + 1) = Byte(s) + f.length
  BY <1>1, <1>2, PlainReaches DEF Extent
<1>8. ~IsArray(s) /\ ~IsOpen(Fields[s])
  BY <1>1 DEF IsArray, IsOpen
<1> HIDE DEF f
<1> QED BY <1>1, <1>2, <1>5, <1>6, <1>7, <1>8, ConsumeTraces DEF f

LEMMA VectorTraces ==
  ASSUME Given, d \in Decodings, Outcome(d, phase), Trace(d, phase), DecodeVector
  PROVE  Trace(d', phase')
<1> DEFINE s == Here
           f == Fields[s]
           ends == Repeated(f.count, Reads(s))
<1>1. phase = "decode" /\ f.kind = "vector" /\ Here <= Len(Fields) /\ Consume(ends, d)
  BY DEF DecodeVector, Decodes
<1>2. s \in DOMAIN Fields /\ s = Len(d.starts) + 1 /\ AtField(s, d) /\ Traced(s, d)
  BY <1>1, AtHere DEF Trace
<1> HIDE DEF s
<1>3. IsEnds(Reads(s)) /\ f.count \in Nat /\ f.count > 0 /\ ~IsOpen(Fields[s])
  BY <1>1, <1>2, FieldsOfGiven DEF IsField, IsOpen
<1>4. IsEnds(ends) /\ Total(ends) = f.count * ElementSize(s)
  BY <1>3, RepeatedEnds DEF ElementSize
<1>7. Extent(s, Byte(s)) = f.count * ElementSize(s)
  BY <1>1, <1>3 DEF Extent, IsOpen
<1> HIDE DEF ends
<1>5. Byte(s + 1) = Byte(s) + Total(ends)
  BY <1>1, <1>2, <1>4, <1>7, PlainReaches
<1>6. ~IsArray(s) /\ ~Tells(s)
  BY <1>1 DEF IsArray, Tells
<1> HIDE DEF f
<1> QED BY <1>1, <1>2, <1>3, <1>4, <1>5, <1>6, ConsumeTraces

LEMMA BitsTrace ==
  ASSUME Given, d \in Decodings, Outcome(d, phase), Trace(d, phase), DecodeBits \/ DecodePad
  PROVE  Trace(d', phase')
<1> DEFINE s == Here
           f == Fields[s]
<1>1. phase = "decode" /\ f.kind \in {"bits", "pad"} /\ Here <= Len(Fields)
  BY DEF DecodeBits, DecodePad, Decodes
<1>2. s \in DOMAIN Fields /\ s = Len(d.starts) + 1 /\ AtField(s, d) /\ Traced(s, d)
  BY <1>1, AtHere DEF Trace
<1> HIDE DEF s
<1>3. f.bits \in Nat /\ f.from \in Nat /\ ~IsOpen(Fields[s]) /\ ~IsArray(s) /\ ~Tells(s)
      /\ d.taken \in Nat /\ d.defined \in Nat /\ d.taken = At(s).taken
  BY <1>1, <1>2, FieldsOfGiven DEF IsField, IsOpen, IsArray, Tells, Decodings, AtField
<1>4. CASE DecodePad
  <2> DEFINE dd == [d EXCEPT !.taken = 0]
             n == BitsRead(d.taken, Padding(d.taken, f.bits))
  <2>1. f.kind = "pad" /\ Consume(Bytewise(n), dd)
    BY <1>4 DEF DecodePad, Decodes, s
  <2>2. /\ dd \in Decodings /\ dd.starts = d.starts /\ dd.count = d.count /\ dd.stride = d.stride
        /\ dd.elements = d.elements /\ dd.kept = d.kept
    BY DEF Decodings
  <2>3. n \in Nat /\ Byte(s + 1) = Byte(s) + n
    BY <1>2, <1>3, <2>1, PadReaches
  <2> HIDE DEF dd, n
  <2>4. IsEnds(Bytewise(n)) /\ Total(Bytewise(n)) = n
    BY <2>3, BytewiseEnds
  <2> HIDE DEF f
  <2> QED BY <1>1, <1>2, <1>3, <2>1, <2>2, <2>3, <2>4, ConsumeTraces
<1>5. CASE DecodeBits /\ ~IsDefined(f, table)
  <2>1. d' = Entered(d) /\ phase' = "decode"
    BY <1>1, <1>5 DEF DecodeBits, s
  <2>2. /\ Entered(d).starts = Append(d.starts, AtBit) /\ Entered(d).kept = d.kept
        /\ Entered(d).count = d.count /\ Entered(d).stride = d.stride
        /\ Entered(d).elements = d.elements
    BY <1>2, AtFieldFacts DEF Entered, Decodings
  <2>3. Traced(s + 1, Entered(d)) /\ Len(Entered(d).starts) = s
    BY <1>2, <1>3, <2>2, TracedOn
  <2> QED BY <2>1, <2>3 DEF Trace
<1>6. CASE DecodeBits /\ IsDefined(f, table)
  <2> DEFINE t == d.taken + f.bits
             l == Larger(d.defined, f.from)
             dd == [d EXCEPT !.taken = t, !.defined = l]
             n == BitsRead(d.taken, f.bits)
  <2>1. f.kind = "bits" /\ Consume(Bytewise(n), dd)
    BY <1>6 DEF DecodeBits, Decodes, s
  <2>2. t \in Nat /\ l \in Nat
    BY <1>3 DEF Larger
  <2> HIDE DEF t, l
  <2>3. /\ dd \in Decodings /\ dd.starts = d.starts /\ dd.count = d.count /\ dd.stride = d.stride
        /\ dd.elements = d.elements /\ dd.kept = d.kept
    BY <2>2 DEF Decodings
  <2>4. n \in Nat /\ Byte(s + 1) = Byte(s) + n
    BY <1>2, <1>3, <1>6, <2>1, BitsReach
  <2> HIDE DEF dd, n
  <2>5. IsEnds(Bytewise(n)) /\ Total(Bytewise(n)) = n
    BY <2>4, BytewiseEnds
  <2> HIDE DEF f
  <2> QED BY <1>1, <1>2, <1>3, <2>1, <2>3, <2>4, <2>5, ConsumeTraces
<1> QED BY <1>4, <1>5, <1>6

\* The length of the data is remembered with the data there is.
LEMMA BinaryTraces ==
  ASSUME Given, d \in Decodings, Outcome(d, phase), Trace(d, phase), DecodeBinary
  PROVE  Trace(d', phase')
<1> DEFINE s == Here
           f == Fields[s]
           n == IF f.length = Rest THEN Left ELSE Smaller(body.declared, Left)
           dd == [Entered(d) EXCEPT !.pos = @ + n, !.kept = n, !.data = TRUE]
<1>1. /\ phase = "decode" /\ f.kind = "binary" /\ Here <= Len(Fields) /\ f.length \in {Rest, Declared}
      /\ IF f.length = Declared /\ body.declared > Left THEN Short(dd, TRUE)
         ELSE d' = dd /\ UNCHANGED phase
  BY DEF DecodeBinary, Decodes
<1>2. s \in DOMAIN Fields /\ s = Len(d.starts) + 1 /\ AtField(s, d) /\ Traced(s, d)
  BY <1>1, AtHere DEF Trace
<1> HIDE DEF s
<1>3. /\ Left = Size - Byte(s) /\ Left \in Nat /\ Byte(s) \in Nat /\ Size \in Nat
      /\ Append(d.starts, AtBit) \in Seq(Nat) /\ d.pos \in Nat
  BY <1>2, AtFieldFacts
<1>4. body.declared \in Nat
  BY DEF Given, Body
<1>5. n \in Nat
  BY <1>3, <1>4 DEF Smaller
<1>6. Extent(s, Byte(s)) = IF f.length = Rest THEN Left ELSE body.declared
  <2>1. Rest # Declared
    BY DEF Rest, Declared
  <2>2. Larger(body.length - Byte(s), 0) = Left
    BY <1>3 DEF Larger, Size
  <2> QED BY <1>1, <2>1, <2>2 DEF Extent
<1>7. Byte(s + 1) = Byte(s) + Extent(s, Byte(s)) /\ ~IsArray(s) /\ IsOpen(Fields[s])
  BY <1>1, <1>2, PlainReaches DEF IsArray, IsOpen
<1>8. /\ dd \in Decodings /\ dd.starts = Append(d.starts, AtBit) /\ dd.kept = n
      /\ dd.count = d.count /\ dd.stride = d.stride /\ dd.elements = d.elements
  <2> HIDE DEF n
  <2>1. /\ Entered(d) \in Decodings /\ Entered(d).starts = Append(d.starts, AtBit)
        /\ Entered(d).pos = d.pos /\ Entered(d).elements = d.elements
        /\ Entered(d).count = d.count /\ Entered(d).stride = d.stride
    BY <1>3 DEF Entered, Decodings
  <2>2. d.pos + n \in Nat /\ dd = [Entered(d) EXCEPT !.pos = d.pos + n, !.kept = n, !.data = TRUE]
    BY <1>3, <1>5, <2>1
  <2> HIDE DEF dd
  <2> QED BY <1>5, <2>1, <2>2 DEF Decodings
<1> HIDE DEF dd
<1>9. StartsKept(dd) /\ Len(dd.starts) = s
  BY <1>2, <1>8, StartsOn DEF Traced
<1>10. CASE f.length = Declared /\ body.declared > Left
  <2>1. Short(dd, TRUE)
    BY <1>1, <1>10
  <2>2. Extent(s, Byte(s)) = body.declared
    BY <1>6, <1>10 DEF Rest, Declared
  <2>3. Size < Byte(s + 1) /\ Byte(s) <= Size
    BY <1>3, <1>4, <1>7, <1>10, <2>2
  <2> HIDE DEF n
  <2> QED BY <1>2, <1>8, <1>9, <1>10, <2>1, <2>3, ShortTraces
<1>11. CASE ~(f.length = Declared /\ body.declared > Left)
  <2>1. d' = dd /\ phase' = "decode"
    BY <1>1, <1>11
  <2>2. n = Extent(s, Byte(s))
    BY <1>1, <1>3, <1>4, <1>6, <1>11 DEF Smaller
  <2> HIDE DEF n, f
  <2>3. Traced(s + 1, dd)
    BY <1>2, <1>7, <1>8, <2>2, TracedOn
  <2> QED BY <1>9, <2>1, <2>3 DEF Trace
<1> QED BY <1>10, <1>11

\* What is kept of the fields before an array stays when nothing but the
\* elements and the numbers of the array change.
LEMMA TracedBefore ==
  ASSUME Given, NEW dd, NEW s \in DOMAIN Fields, Traced(s, dd), IsArray(s),
         NEW ee, StartsKept(ee), ee.kept = dd.kept
  PROVE  Traced(s, ee)
<1>1. \A i \in 1 .. s - 1 : ~IsArray(i)
  <2> TAKE i \in 1 .. s - 1
  <2>1. i \in DOMAIN Fields /\ i # s
    BY FieldsOfGiven
  <2> QED BY <2>1, OneArray
<1> QED BY <1>1 DEF Traced, DataKept

\* An array that has been read is remembered with the fields before it.
LEMMA TracedArray ==
  ASSUME Given, NEW s \in DOMAIN Fields, NEW dd, Traced(s, dd), IsArray(s), ArrayKept(s, dd)
  PROVE  Traced(s + 1, dd)
<1>1. s \in Nat /\ (s + 1) - 1 = s /\ (\A i \in 1 .. s : i \in 1 .. s - 1 \/ i = s)
  BY FieldsOfGiven
<1>2. ~IsOpen(Fields[s]) /\ ~Tells(s)
  BY FieldsOfGiven DEF IsArray, IsOpen, Tells, IsField
<1>3. DataKept(s, dd)
  BY <1>2 DEF DataKept
<1> QED BY <1>1, <1>3 DEF Traced

LEMMA ArrayTraces ==
  ASSUME Given, d \in Decodings, Outcome(d, phase), Trace(d, phase), DecodeArray
  PROVE  Trace(d', phase')
<1> DEFINE s      == Here
           f      == Fields[s]
           header == f.count_length + f.stride_length
           rest   == Left - header
           count  == IF f.count_length = 0 THEN rest \div f.stride ELSE body.count
           stride == IF f.stride_length = 0 THEN f.stride ELSE body.stride
           over   == IF f.count_length = 0 THEN rest % f.stride ELSE 0
           dd     == [Entered(d) EXCEPT
                        !.pos = @ + header, !.count = count, !.stride = stride, !.leftover = over]
           cut    == [Entered(d) EXCEPT
                        !.pos = @ + Taken({0, f.count_length, header}, Left), !.cut = TRUE]
           past   == [dd EXCEPT !.pos = @ + Passed(count * stride, rest)]
<1>1. /\ phase = "decode" /\ f.kind = "array" /\ Here <= Len(Fields)
      /\ IF rest < 0 THEN Short(cut, FALSE)
         ELSE IF ArrayIsSkipped(f, stride) THEN d' = past /\ UNCHANGED phase
         ELSE d' = dd /\ phase' = "elements"
  BY DEF DecodeArray, Decodes
<1>2. s \in DOMAIN Fields /\ s = Len(d.starts) + 1 /\ AtField(s, d) /\ Traced(s, d) /\ IsArray(s)
  BY <1>1, AtHere DEF Trace, IsArray
<1>3. d' \in Decodings /\ Outcome(d', phase')
  BY ArrayKeeps
<1> HIDE DEF s
<1>4. /\ Left = Size - Byte(s) /\ Left \in Nat /\ Byte(s) \in Nat /\ Size \in Nat
      /\ Append(d.starts, AtBit) \in Seq(Nat) /\ s \in Nat
  BY <1>2, AtFieldFacts
<1>5. /\ header \in Nat /\ Byte(s + 1) \in Nat /\ Byte(s + 1) >= Byte(s) + header
  BY <1>2, ArrayReaches
<1>6. Len(d.elements) = 0
  <2>1. \A j \in 1 .. s - 1 : ~IsArray(j)
    <3> TAKE j \in 1 .. s - 1
    <3>1. Len(Fields) \in Nat /\ DOMAIN Fields = 1 .. Len(Fields) /\ s \in DOMAIN Fields
      BY <1>2, FieldsOfGiven
    <3>2. j \in DOMAIN Fields /\ j # s
      BY <3>1
    <3> QED BY <1>2, <3>2, OneArray
  <2> QED BY <1>2, <2>1 DEF AtField, ElementsTo
<1>7. /\ Entered(d) \in Decodings /\ Entered(d).starts = Append(d.starts, AtBit)
      /\ Entered(d).kept = d.kept /\ Entered(d).elements = d.elements
  BY <1>4 DEF Entered, Decodings
<1>8. CASE rest < 0
  <2>1. Short(cut, FALSE)
    BY <1>1, <1>8
  <2>2. cut.starts = Append(d.starts, AtBit) /\ cut.kept = d.kept
    BY <1>7 DEF Decodings
  <2>3. cut \in Decodings
    <3> DEFINE pos == Entered(d).pos + Taken({0, f.count_length, header}, Left)
    <3>1. pos \in Nat
      <4>1. IsEnds({0, f.count_length, header})
        <5>1. f.count_length \in Nat /\ f.count_length <= header
          <6>1. {f.count_length, f.stride_length} \subseteq Nat
            BY <1>2, FieldsOfGiven DEF IsField
          <6> QED BY <6>1
        <5> HIDE DEF header
        <5> QED BY <1>5, <5>1 DEF IsEnds, IsBounded
      <4>2. Taken({0, f.count_length, header}, Left) \in Nat /\ Entered(d).pos \in Nat
        BY <1>4, <1>7, <4>1, TakenOf DEF Decodings
      <4> QED BY <4>2
    <3>2. cut = [Entered(d) EXCEPT !.pos = pos, !.cut = TRUE]
      BY <1>7
    <3> HIDE DEF pos, cut
    <3> QED BY <1>7, <3>1, <3>2 DEF Decodings
  <2> HIDE DEF cut
  <2>4. StartsKept(cut) /\ Len(cut.starts) = s
    BY <1>2, <2>2, StartsOn DEF Traced
  <2>5. Byte(s) <= Size /\ Size < Byte(s + 1)
    <3> HIDE DEF header
    <3>1. rest = Size - Byte(s) - header
      BY <1>4
    <3> QED BY <1>4, <1>5, <1>8, <3>1
  <2>6. Traced(s, cut)
    BY <1>2, <2>2, <2>4, TracedBefore
  <2> QED BY <1>2, <2>1, <2>3, <2>4, <2>5, <2>6, ShortTraces
<1>9. CASE ~(rest < 0) /\ ~ArrayIsSkipped(f, stride)
  <2>1. d' = dd /\ phase' = "elements"
    BY <1>1, <1>9
  <2>2. dd.starts = Append(d.starts, AtBit) /\ dd.kept = d.kept /\ dd.elements = d.elements
    BY <1>7 DEF Decodings
  <2> HIDE DEF dd
  <2>3. StartsKept(dd) /\ Len(dd.starts) = s
    BY <1>2, <2>2, StartsOn DEF Traced
  <2>4. Traced(s, dd)
    BY <1>2, <2>2, <2>3, TracedBefore
  <2>5. ElementsAt(s, dd)
    BY <1>6, <2>2 DEF ElementsAt
  <2> QED BY <2>1, <2>3, <2>4, <2>5 DEF Trace
<1>10. CASE ~(rest < 0) /\ ArrayIsSkipped(f, stride)
  <2>1. d' = past /\ phase' = "decode"
    BY <1>1, <1>10
  <2>2. /\ past.starts = Append(d.starts, AtBit) /\ past.kept = d.kept /\ past.elements = d.elements
        /\ past.count = count /\ past.stride = stride
    BY <1>7 DEF Decodings
  <2> HIDE DEF past
  <2>3. StartsKept(past) /\ Len(past.starts) = s
    BY <1>2, <2>2, StartsOn DEF Traced
  <2>4. Traced(s, past)
    BY <1>2, <2>2, <2>3, TracedBefore
  <2>5. count = Elements(f, Byte(s)) /\ stride = Stride(f)
    <3>1. f.count_length # 0
      BY <1>2, <1>10, FieldsOfGiven DEF ArrayIsSkipped, IsArray
    <3> QED BY <3>1 DEF Elements, Stride
  <2>6. ArrayKept(s, past)
    <3>1. Len(past.elements) = 0
      BY <1>6, <2>2
    <3> QED BY <1>10, <2>2, <2>5, <3>1 DEF ArrayKept, ElementsAt
  <2>7. Traced(s + 1, past)
    BY <1>2, <2>4, <2>6, TracedArray
  <2> QED BY <2>1, <2>3, <2>7 DEF Trace
<1> QED BY <1>8, <1>9, <1>10

LEMMA ElementTraces ==
  ASSUME Given, d \in Decodings, Outcome(d, phase), Trace(d, phase), DecodeElement
  PROVE  Trace(d', phase')
<1> DEFINE s == TheArray
           k == Len(d.elements)
           size == ElementSize(s)
           t == Step(s)
<1>1. /\ phase = "elements" /\ k < d.count
      /\ IF d.stride # 0 /\ Left < d.stride THEN Short(d, TRUE)
         ELSE IF size > Left
           THEN LET p == d.pos + Taken(Reads(s), Left) IN Short([d EXCEPT !.pos = p], p = body.length)
         ELSE /\ d' = [d EXCEPT !.elements = Append(@, d.pos),
                                !.pos = @ + (IF d.stride # 0 THEN d.stride ELSE size)]
              /\ UNCHANGED phase
  BY DEF DecodeElement
<1>2. /\ s = Len(d.starts) /\ AtElement(s, d) /\ d.pos <= Size
      /\ Traced(s, d) /\ ElementsAt(s, d) /\ StartsKept(d)
  BY <1>1 DEF Outcome, TheArray, Trace, Traced
<1> HIDE DEF s
<1>3. /\ s \in DOMAIN Fields /\ k \in Nat /\ d.stride \in Nat /\ t \in Nat /\ size \in Nat
      /\ d.pos \in Nat /\ Size \in Nat /\ Left \in Nat /\ Left = Size - d.pos
      /\ Byte(s + 1) \in Nat /\ t >= size
      /\ d.stride # 0 => t = d.stride
      /\ d.stride = 0 => t = size
      /\ Byte(s + 1) >= d.pos + t
  BY <1>1, <1>2, AtElementFacts
<1>4. /\ IsArray(s) /\ Byte(s) <= Size
      /\ d.pos = Byte(s) + Fields[s].count_length + Fields[s].stride_length + (k * t)
  BY <1>2 DEF AtElement, ReadTo
<1> HIDE DEF size, t
<1>5. CASE d.stride # 0 /\ Left < d.stride
  <2>1. Short(d, TRUE)
    BY <1>1, <1>5
  <2>2. Size < Byte(s + 1)
    BY <1>3, <1>5
  <2> QED BY <1>2, <1>3, <1>4, <2>1, <2>2, ShortTraces
<1>6. CASE ~(d.stride # 0 /\ Left < d.stride) /\ size > Left
  <2> DEFINE p  == d.pos + Taken(Reads(s), Left)
             ee == [d EXCEPT !.pos = p]
  <2>1. Short(ee, p = body.length)
    BY <1>1, <1>6
  <2>6. Size < Byte(s + 1)
    BY <1>3, <1>6
  <2>2. p \in Nat
    <3>1. IsEnds(Reads(s)) /\ Left \in Nat
      BY <1>3, FieldsOfGiven
    <3>2. Taken(Reads(s), Left) \in Nat
      BY <3>1, TakenOf
    <3> QED BY <1>3, <3>2
  <2> HIDE DEF p
  <2>3. /\ ee \in Decodings /\ ee.starts = d.starts /\ ee.kept = d.kept /\ ee.elements = d.elements
    BY <2>2 DEF Decodings
  <2> HIDE DEF ee
  <2>4. StartsKept(ee)
    BY <1>2, <2>3 DEF StartsKept
  <2>5. Traced(s, ee)
    BY <1>2, <1>3, <1>4, <2>3, <2>4, TracedBefore
  <2> QED BY <1>2, <1>3, <1>4, <2>1, <2>3, <2>4, <2>5, <2>6, ShortTraces
<1>7. CASE ~(d.stride # 0 /\ Left < d.stride) /\ ~(size > Left)
  <2> DEFINE q  == d.pos + (IF d.stride # 0 THEN d.stride ELSE size)
             ee == [d EXCEPT !.elements = Append(@, d.pos), !.pos = q]
  <2>1. d' = ee /\ phase' = "elements"
    BY <1>1, <1>7
  <2> HIDE DEF q
  <2>2. /\ ee.starts = d.starts /\ ee.kept = d.kept /\ ee.elements = Append(d.elements, d.pos)
    BY DEF Decodings
  <2> HIDE DEF ee
  <2>3. StartsKept(ee)
    BY <1>2, <2>2 DEF StartsKept
  <2>4. Traced(s, ee)
    BY <1>2, <1>3, <1>4, <2>2, <2>3, TracedBefore
  <2>5. ElementsAt(s, ee)
    <3>1. d.elements \in Seq(Nat) /\ Len(ee.elements) = k + 1
      BY <1>3, <2>2 DEF Decodings
    <3> SUFFICES ASSUME NEW j \in 1 .. k + 1
                 PROVE  ee.elements[j] = Byte(s) + Header(s) + ((j - 1) * Step(s))
        BY <3>1 DEF ElementsAt
    <3>2. CASE j = k + 1
      <4>1. ee.elements[j] = d.pos /\ j - 1 = k
        BY <1>3, <2>2, <3>1, <3>2
      <4>2. Fields[s].count_length \in Nat /\ Fields[s].stride_length \in Nat /\ Byte(s) \in Nat
        BY <1>2, AtElementFacts
      <4>3. Byte(s) + Fields[s].count_length + Fields[s].stride_length = Byte(s) + Header(s)
        BY <4>2 DEF Header
      <4> QED BY <1>4, <4>1, <4>3 DEF t
    <3>3. CASE j # k + 1
      <4>1. j \in 1 .. k
        BY <1>3, <3>3
      <4>2. ee.elements[j] = d.elements[j]
        BY <2>2, <3>1, <4>1
      <4> QED BY <1>2, <4>1, <4>2 DEF ElementsAt
    <3> QED BY <3>2, <3>3
  <2> QED BY <1>2, <2>1, <2>2, <2>4, <2>5 DEF Trace
<1> QED BY <1>5, <1>6, <1>7

LEMMA ArrayEndTraces ==
  ASSUME Given, d \in Decodings, Outcome(d, phase), Trace(d, phase), DecodeArrayEnd
  PROVE  Trace(d', phase')
<1> DEFINE s == Len(d.starts)
           ee == IF d.leftover = 0 THEN d ELSE [d EXCEPT !.flags = @ \union {"INCOMPLETE"}]
<1>1. phase = "elements" /\ Len(d.elements) = d.count /\ phase' = "decode" /\ d' = ee
  BY DEF DecodeArrayEnd
<1>2. AtElement(s, d) /\ Traced(s, d) /\ ElementsAt(s, d)
  BY <1>1 DEF Outcome, Trace
<1>3. /\ ee.starts = d.starts /\ ee.kept = d.kept /\ ee.count = d.count /\ ee.stride = d.stride
      /\ ee.elements = d.elements
  BY DEF Decodings
<1> HIDE DEF ee
<1>4. Traced(s, ee) /\ ElementsAt(s, ee)
  BY <1>2, <1>3 DEF Traced, StartsKept, DataKept, ArrayKept, ElementsAt
<1>5. ArrayKept(s, ee) /\ IsArray(s) /\ s \in DOMAIN Fields
  BY <1>1, <1>2, <1>3, <1>4 DEF AtElement, ArrayKept
<1>6. Traced(s + 1, ee)
  BY <1>4, <1>5, TracedArray
<1> QED BY <1>1, <1>3, <1>6 DEF Trace

\* A step of the decoding remembers what it reads.
LEMMA DecodeTraces ==
  ASSUME Given, d \in Decodings, Outcome(d, phase), Trace(d, phase), Decode
  PROVE  Trace(d', phase')
<1>1. CASE DecodeStart
  <2>1. phase' = "failed" \/ (phase' = "decode" /\ d' = [NotDecoded EXCEPT !.level = spec.since])
    BY <1>1 DEF DecodeStart
  <2>2. [NotDecoded EXCEPT !.level = spec.since].starts = << >>
    BY DEF NotDecoded
  <2>4. \A ee : ee.starts = << >> => Traced(1, ee) /\ Len(ee.starts) = 0
    <3> TAKE ee
    <3> HAVE ee.starts = << >>
    <3>1. Len(ee.starts) = 0 /\ (\A i : i \notin 1 .. 0) /\ 1 - 1 = 0
      OBVIOUS
    <3> QED BY <3>1 DEF Traced, StartsKept
  <2>3. phase' = "decode" => Traced(1, d') /\ Len(d'.starts) = 0
    BY <2>1, <2>2, <2>4
  <2> QED BY <2>1, <2>3 DEF Trace
<1> QED BY <1>1, EnteredTraces, GroupTraces, ValueTraces, BinaryTraces, VectorTraces, BitsTrace,
        ArrayTraces, ElementTraces, ArrayEndTraces, EndTraces DEF Decode

-----------------------------------------------------------------------------
(* The encoder follows the fields the way the decoder did.                 *)

\* The field to be written begins at the bit the writing has come to.
Placed(ee) == 8 * ee.out + (ee.taken % 8) = At(ee.at).bit /\ ee.taken = At(ee.at).taken

\* The field the encoder has come to is remembered and all of it is there;
\* or the data ends within it; or it is the group the structure ended at.
IsHeld(i, dd) ==
  /\ i \in 1 .. Len(dd.starts) /\ dd.starts[i] = At(i).bit /\ ~(dd.cut /\ i = Len(dd.starts))
  /\ Byte(i + 1) <= Size /\ DataKept(i, dd) /\ (IsArray(i) => ArrayKept(i, dd))
IsCut(i, dd) ==
  /\ i \in 1 .. Len(dd.starts) /\ dd.starts[i] = At(i).bit
  /\ Byte(i) <= Size /\ Size < Byte(i + 1) /\ ~IsOpen(Fields[i])
  /\ Fields[i].kind \in {"integer", "string", "bcd", "uuid", "binary", "vector"}
IsPast(i) == GroupAt(i) /\ Byte(i) = Size

\* A structure that is written as it was decoded, with none of what may be
\* lost.
Keeping ==
  /\ Given /\ d \in Decodings /\ Len(d.starts) <= Len(Fields) /\ Ended(d)
  /\ ~EndsInPart /\ body.decimal /\ Preserves

\* What has been written is what there was, and the encoder is at the place
\* of its field, or of its element, as long as it writes.
Follows(dd, ee, ph) == LET i == ee.at IN
  /\ ee.same /\ ee.out <= Size
  /\ ph = "encode" /\ ~ee.stopped =>
       i <= Len(dd.starts) + 1 /\ Byte(i) <= Size /\ Placed(ee)
  /\ ph = "encode_elements" /\ ~ee.stopped =>
       /\ i \in 1 .. Len(dd.starts) /\ IsArray(i) /\ ~ArrayIsSkipped(Fields[i], Stride(Fields[i]))
       /\ ee.taken = 0 /\ ee.stride = Stride(Fields[i]) /\ ee.element <= Len(dd.elements)
       /\ ee.out = Byte(i) + Header(i) + (ee.element * Step(i))

LEMMA WhereAt ==
  ASSUME Keeping, NEW i \in DOMAIN Fields, i <= Len(d.starts) + 1, Byte(i) <= Size
  PROVE  IsHeld(i, d) \/ IsCut(i, d) \/ IsPast(i)
<1>1. /\ Given /\ d \in Decodings /\ Len(d.starts) \in Nat /\ Len(Fields) \in Nat
      /\ Len(d.starts) <= Len(Fields) /\ DOMAIN Fields = 1 .. Len(Fields) /\ i \in Nat /\ i >= 1
  <2>1. d.starts \in Seq(Nat)
    BY DEF Keeping, Decodings
  <2> QED BY <2>1, FieldsOfGiven DEF Keeping
<1>2. \A j, k \in 1 .. Len(Fields) + 1 : j <= k => Byte(j) <= Byte(k)
  BY <1>1, BeginsGrow
<1>3. \A j \in 1 .. Len(Fields) + 1 : Byte(j) \in Nat
  BY <1>1, BytePlaces
<1>4. Size \in Nat
  BY <1>1, Arrived
<1>5. CASE EndsWhole(d)
  <2> DEFINE s == Len(d.starts) + 1
  <2>1. Traced(s, d) /\ ~d.cut /\ Byte(s) <= Size /\ (s <= Len(Fields) => GroupAt(s) /\ Byte(s) = Size)
    BY <1>5 DEF EndsWhole
  <2>2. CASE i = s
    <3>1. s <= Len(Fields)
      BY <1>1, <2>2
    <3> QED BY <2>1, <2>2, <3>1 DEF IsPast
  <2>3. CASE i # s
    <3>1. i \in 1 .. Len(d.starts) /\ i \in 1 .. s - 1 /\ i + 1 <= s
          /\ i + 1 \in 1 .. Len(Fields) + 1 /\ s \in 1 .. Len(Fields) + 1
      BY <1>1, <2>3
    <3>2. Byte(i + 1) <= Size
      BY <1>2, <1>3, <1>4, <2>1, <3>1
    <3>3. d.starts[i] = At(i).bit /\ DataKept(i, d) /\ (IsArray(i) => ArrayKept(i, d))
      BY <2>1, <3>1 DEF Traced, StartsKept
    <3> QED BY <2>1, <3>1, <3>2, <3>3 DEF IsHeld
  <2> QED BY <2>2, <2>3
<1>6. CASE EndsShort(d)
  <2> DEFINE s == Len(d.starts)
             f == Fields[s]
  <2>1. /\ s \in DOMAIN Fields /\ Byte(s) <= Size /\ Size < Byte(s + 1)
        /\ "INCOMPLETE" \in d.flags /\ StartsKept(d) /\ (Traced(s, d) \/ f.length = Declared)
    BY <1>6 DEF EndsShort
  <2>2. f.kind \notin {"array", "skip", "bits", "pad"} /\ f.length # Declared
    BY <2>1 DEF Keeping, EndsInPart
  <2>3. Byte(s + 1) = Byte(s) + Extent(s, Byte(s)) /\ Byte(s) \in Nat /\ IsField(f)
    BY <1>1, <1>3, <2>1, <2>2, PlainReaches, FieldsOfGiven
  <2>4. f.kind \notin {"offset", "preset", "group"}
    <3> SUFFICES ASSUME f.kind \in {"offset", "preset", "group"} PROVE FALSE
        OBVIOUS
    <3>1. Byte(s + 1) = Byte(s)
      BY <1>1, <2>1, GroupsTakeNothing
    <3> QED BY <1>4, <2>1, <2>3, <3>1
  <2>5. f.length # Rest
    <3> SUFFICES ASSUME f.length = Rest PROVE FALSE
        OBVIOUS
    <3>1. f.kind = "binary"
      BY <2>3 DEF IsField
    <3>2. Extent(s, Byte(s)) = Larger(Size - Byte(s), 0)
      BY <3>1, <2>2 DEF Extent, Size
    <3> QED BY <1>4, <2>1, <2>3, <3>2 DEF Larger
  <2>6. f.kind \in {"integer", "string", "bcd", "uuid", "binary", "vector"} /\ ~IsOpen(f)
    BY <2>2, <2>3, <2>4, <2>5 DEF IsField, Kinds, IsOpen
  <2>7. i \in 1 .. Len(Fields) /\ i \in 1 .. Len(Fields) + 1 /\ s \in 1 .. Len(Fields) + 1
        /\ s + 1 \in 1 .. Len(Fields) + 1
    BY <1>1, <2>1
  <2>8. ~(i = s + 1)
    BY <1>3, <1>4, <2>1, <2>7
  <2>9. CASE i = s
    <3>1. i \in 1 .. Len(d.starts) /\ d.starts[i] = At(i).bit
      BY <1>1, <2>1, <2>9 DEF StartsKept
    <3> QED BY <2>1, <2>6, <2>9, <3>1 DEF IsCut
  <2>10. CASE i # s
    <3>1. /\ i \in 1 .. Len(d.starts) /\ i \in 1 .. s - 1 /\ i + 1 <= s /\ i # Len(d.starts)
          /\ i + 1 \in 1 .. Len(Fields) + 1
      BY <1>1, <2>7, <2>8, <2>10
    <3>2. Byte(i + 1) <= Byte(s)
      BY <1>2, <2>7, <3>1
    <3>3. Byte(i + 1) <= Size
      BY <1>3, <1>4, <2>1, <2>7, <3>1, <3>2
    <3>4. d.starts[i] = At(i).bit /\ DataKept(i, d) /\ (IsArray(i) => ArrayKept(i, d))
      BY <2>1, <2>2, <3>1 DEF Traced, StartsKept
    <3> QED BY <3>1, <3>3, <3>4 DEF IsHeld
  <2> QED BY <2>9, <2>10
<1> QED BY <1>5, <1>6 DEF Keeping, Ended

\* A place of whole bytes.
LEMMA WholePlace ==
  ASSUME Given, NEW i \in 1 .. Len(Fields) + 1, At(i).taken = 0
  PROVE  Byte(i) \in Nat /\ At(i).bit = 8 * Byte(i)
<1>1. PICK k \in Nat : At(i).bit = 8 * k + At(i).taken
  BY BeginsOf DEF At, IsPlaced
<1>2. At(i).bit = 8 * k
  BY <1>1
<1> QED BY <1>2, BytesOfBits DEF Byte

LEMMA PlacedOut ==
  ASSUME Given, NEW ee \in Encodings, ee.at \in 1 .. Len(Fields) + 1, Placed(ee)
  PROVE  /\ ee.out <= Byte(ee.at) /\ Byte(ee.at) \in Nat /\ ee.out \in Nat
         /\ At(ee.at).taken = 0 => ee.out = Byte(ee.at) /\ ee.taken = 0
<1> DEFINE i == ee.at
<1>1. ee.out \in Nat /\ ee.taken \in Nat /\ ee.taken % 8 \in 0 .. 7
  BY DEF Encodings
<1>2. At(i).bit \in Nat /\ Byte(i) \in Nat
  BY BytePlaces DEF Place
<1>3. 8 * ee.out + (ee.taken % 8) = At(i).bit /\ ee.taken = At(i).taken
  BY DEF Placed
<1>4. ee.out <= Byte(i)
  BY <1>1, <1>2, <1>3 DEF Byte, BytesOf
<1>5. At(i).taken = 0 => ee.out = Byte(i) /\ ee.taken = 0
  <2> SUFFICES ASSUME At(i).taken = 0 PROVE ee.out = Byte(i)
      BY <1>3
  <2>1. At(i).bit = 8 * Byte(i)
    BY WholePlace
  <2>2. ee.taken % 8 = 0
    BY <1>3
  <2> QED BY <1>1, <1>2, <1>3, <2>1, <2>2
<1> QED BY <1>1, <1>2, <1>4, <1>5

\* What is written of a field leaves the encoder where the next one begins.
LEMMA PlainPlaced ==
  ASSUME Given, NEW ee \in Encodings, ee.at \in DOMAIN Fields, Placed(ee),
         Fields[ee.at].kind \notin {"bits", "pad"},
         NEW w, w.at = ee.at + 1, w.taken = ee.taken, w.out = ee.out + Extent(ee.at, Byte(ee.at))
  PROVE  Placed(w)
<1> DEFINE i == ee.at
<1>1. i \in 1 .. Len(Fields) + 1 /\ i + 1 \in 1 .. Len(Fields) + 1
  BY FieldsOfGiven
<1>2. /\ At(i + 1).taken = At(i).taken /\ Byte(i + 1) = Byte(i) + Extent(i, Byte(i))
      /\ At(i).taken = 0
  BY <1>1, PlainReaches, BeginsWhole
<1>3. ee.out = Byte(i) /\ ee.taken = 0
  BY <1>1, <1>2, PlacedOut
<1>4. At(i + 1).bit = 8 * Byte(i + 1) /\ Byte(i + 1) \in Nat
  BY <1>1, <1>2, WholePlace
<1>5. w.out = Byte(i + 1) /\ w.taken = 0 /\ w.taken % 8 = 0
  BY <1>2, <1>3
<1> QED BY <1>2, <1>4, <1>5 DEF Placed

LEMMA BitsPlaced ==
  ASSUME Given, NEW ee \in Encodings, ee.at \in DOMAIN Fields, Placed(ee),
         Fields[ee.at].kind = "bits", NEW w, w.at = ee.at + 1,
         IF IsDefined(Fields[ee.at], table)
           THEN /\ w.taken = ee.taken + Fields[ee.at].bits
                /\ w.out = ee.out + ((ee.taken + Fields[ee.at].bits) \div 8 - ee.taken \div 8)
           ELSE w.taken = ee.taken /\ w.out = ee.out
  PROVE  Placed(w)
<1> DEFINE i == ee.at
           b == Fields[i].bits
           t == ee.taken
<1>1. /\ At(i + 1) = Begin(At(i), Fields[i], table, Extent(i, At(i).bit \div 8))
      /\ i \in 1 .. Len(Fields) + 1
  BY BeginsOf, FieldsOfGiven DEF At, BeginAfter
<1>2. At(i).bit \in Nat /\ t = At(i).taken /\ 8 * ee.out + (t % 8) = At(i).bit
  BY <1>1, BytePlaces DEF Place, Placed
<1>3. CASE ~IsDefined(Fields[i], table)
  BY <1>1, <1>2, <1>3 DEF Begin, Placed
<1>4. CASE IsDefined(Fields[i], table)
  <2>1. At(i + 1) = [bit |-> At(i).bit + b, taken |-> t + b]
    BY <1>1, <1>2, <1>4 DEF Begin
  <2>2. At(i + 1).bit = At(i).bit + b /\ At(i + 1).taken = t + b
    BY <2>1
  <2>3. b \in Nat /\ t \in Nat /\ ee.out \in Nat
    BY FieldsOfGiven DEF IsField, Encodings
  <2>4. w.taken = t + b /\ w.out = ee.out + ((t + b) \div 8 - t \div 8)
    BY <1>4
  <2>5. 8 * w.out + (w.taken % 8) = At(i).bit + b
    <3> HIDE DEF b, t
    <3> QED BY <1>2, <2>3, <2>4
  <2> QED BY <2>2, <2>4, <2>5 DEF Placed
<1> QED BY <1>3, <1>4

LEMMA PadPlaced ==
  ASSUME Given, NEW ee \in Encodings, ee.at \in DOMAIN Fields, Placed(ee),
         Fields[ee.at].kind = "pad", NEW w, w.at = ee.at + 1, w.taken = 0,
         LET n == Padding(ee.taken, Fields[ee.at].bits)
         IN w.out = ee.out + ((ee.taken + n) \div 8 - ee.taken \div 8)
  PROVE  Placed(w)
<1> DEFINE i == ee.at
           u == Fields[i].bits
           t == ee.taken
           n == Padding(t, u)
<1>1. /\ At(i + 1) = Begin(At(i), Fields[i], table, Extent(i, At(i).bit \div 8))
      /\ i \in 1 .. Len(Fields) + 1
  BY BeginsOf, FieldsOfGiven DEF At, BeginAfter
<1>2. At(i).bit \in Nat /\ t = At(i).taken /\ 8 * ee.out + (t % 8) = At(i).bit
  BY <1>1, BytePlaces DEF Place, Placed
<1>3. At(i + 1) = [bit |-> At(i).bit + n, taken |-> 0]
  BY <1>1, <1>2 DEF Begin
<1>4. At(i + 1).bit = At(i).bit + n /\ At(i + 1).taken = 0
  BY <1>3
<1>5. u \in Nat /\ u > 0 /\ u % 8 = 0 /\ t \in Nat /\ ee.out \in Nat
  BY FieldsOfGiven DEF IsField, Encodings
<1>6. w.out = ee.out + ((t + n) \div 8 - t \div 8)
  OBVIOUS
<1> HIDE DEF u, t
<1>7. n \in Nat
  BY <1>5, PaddingOf
<1>8. PICK m \in Nat : t + n = m * u
  BY <1>5, PaddingFills
<1> HIDE DEF n
<1>9. PICK c \in Nat : u = 8 * c
  BY <1>5
<1>10. PICK q \in Nat : q = m * c
  OBVIOUS
<1>11. t + n = 8 * q
  BY <1>8, <1>9, <1>10
<1>12. 8 * w.out + (0 % 8) = At(i).bit + n
  BY <1>2, <1>5, <1>6, <1>7, <1>11
<1> QED BY <1>4, <1>12 DEF Placed

LEMMA WrittenHas ==
  ASSUME NEW ee \in Encodings, NEW n \in Nat, NEW faithful \in BOOLEAN
  PROVE  /\ Written(ee, n, faithful).at = ee.at + 1 /\ Written(ee, n, faithful).out = ee.out + n
         /\ Written(ee, n, faithful).same <=> ee.same /\ faithful
         /\ Written(ee, n, faithful).taken = ee.taken
         /\ Written(ee, n, faithful).stopped = ee.stopped
BY DEF Written, Encodings

LEMMA ExtentHas ==
  ASSUME Given, NEW i \in DOMAIN Fields, NEW start \in Nat
  PROVE  /\ Fields[i].kind \in {"offset", "preset", "group"} => Extent(i, start) = 0
         /\ Fields[i].kind = "vector" =>
              Extent(i, start) = Fields[i].count * ElementSize(i)
         /\ Fields[i].kind \in {"integer", "string", "bcd", "uuid", "binary", "skip"}
            /\ ~IsOpen(Fields[i]) => Extent(i, start) = Fields[i].length /\ Fields[i].length \in Nat
<1> DEFINE f == Fields[i]
<1>1. IsField(f)
  BY FieldsOfGiven
<1>2. f.length \in Nat \union {Rest, Declared}
  BY <1>1 DEF IsField
<1>6. f.kind # "binary" => f.length # Rest /\ f.length # Declared
  BY <1>1 DEF IsField
<1>3. f.kind \in {"offset", "preset", "group"} => Extent(i, start) = 0
  BY <1>6 DEF Extent
<1>4. f.kind = "vector" => Extent(i, start) = f.count * ElementSize(i)
  BY <1>6 DEF Extent
<1>5. ASSUME f.kind \in {"integer", "string", "bcd", "uuid", "binary", "skip"}, ~IsOpen(f)
      PROVE  Extent(i, start) = f.length /\ f.length \in Nat
  <2>1. f.length # Rest /\ f.length # Declared /\ f.length \in Nat
    BY <1>2, <1>5 DEF IsOpen
  <2> QED BY <1>5, <2>1 DEF Extent
<1> QED BY <1>3, <1>4, <1>5

\* Sizes of a field written are the ones it has in the table.
SizedWell(i) == LET f == Fields[i] IN
  /\ f.kind = "bits" => (IsDefined(f, Version) <=> IsDefined(f, table))
  /\ IsOpen(f) => d.kept = Extent(i, Byte(i))

Ready   == Placed(e) /\ SizedWell(e.at)
GoesOn  == phase' = "encode" /\ e'.at = e.at + 1 /\ (Ready => Placed(e'))
Stops   == phase' = "encode" /\ e'.stopped /\ e'.out \in {e.out, e.out + Remaining}
Refuses == phase' = "refused" /\ e' = e

EncodeField ==
  \/ EncodeOffset \/ EncodePreset \/ EncodeGroup \/ EncodeBits \/ EncodePad
  \/ EncodeSkip \/ EncodeVector \/ EncodeUuid \/ EncodeBcd \/ EncodeBinary \/ EncodeValue

LEMMA WrittenPlain ==
  ASSUME NEW ee \in Encodings, NEW n \in Nat
  PROVE  /\ Written(ee, n, TRUE).at = ee.at + 1 /\ Written(ee, n, TRUE).out = ee.out + n
         /\ Written(ee, n, TRUE).taken = ee.taken
BY DEF Written, Encodings

LEMMA PutPlaced ==
  ASSUME Given, e \in Encodings, e.at \in DOMAIN Fields, phase = "encode",
         Fields[e.at].kind \notin {"bits", "pad"},
         NEW n \in Nat, Ready => n = Extent(e.at, Byte(e.at)),
         NEW faithful \in BOOLEAN, Put(n, faithful)
  PROVE  GoesOn
<1>3. e' = Written(e, n, faithful) /\ phase' = "encode"
  BY DEF Put
<1>4. e'.at = e.at + 1 /\ e'.out = e.out + n /\ e'.taken = e.taken
  BY <1>3, WrittenHas
<1>5. Ready => Placed(e')
  BY <1>4, PlainPlaced DEF Ready
<1> QED BY <1>3, <1>4, <1>5 DEF GoesOn

LEMMA StopStops ==
  ASSUME e \in Encodings, phase = "encode", Stop, Remaining \in Nat
  PROVE  Stops /\ e'.same = e.same
<1>1. e' = [e EXCEPT !.stopped = TRUE, !.out = @ + Remaining] /\ phase' = "encode"
  BY DEF Stop
<1>2. e'.stopped /\ e'.out = e.out + Remaining /\ e'.same = e.same
  BY <1>1 DEF Encodings
<1> QED BY <1>1, <1>2 DEF Stops

LEMMA RemainingIs ==
  ASSUME Given, e \in Encodings
  PROVE  /\ Remaining \in Nat /\ Size \in Nat /\ e.out \in Nat
         /\ Preserves /\ e.out <= Size => Remaining = Size - e.out
<1>1. body.length \in Nat /\ e.out \in Nat
  BY DEF Given, Body, Encodings
<1> QED BY <1>1 DEF Remaining, Larger, Size

LEMMA FieldAt ==
  ASSUME Given, EncoderAt(e, phase), EncodeField
  PROVE  phase = "encode" /\ ~e.stopped /\ e.at \in 1 .. Len(Fields) /\ e \in Encodings /\ e.at \in DOMAIN Fields
<1>1. phase = "encode" /\ ~e.stopped /\ e.at <= Len(Fields)
  BY DEF EncodeField, EncodeOffset, EncodePreset, EncodeGroup, EncodeBits, EncodePad,
         EncodeSkip, EncodeVector, EncodeUuid, EncodeBcd, EncodeBinary, EncodeValue, Encodes
<1> QED BY <1>1, FieldsOfGiven DEF EncoderAt

LEMMA FieldPlaced ==
  ASSUME Given, EncoderAt(e, phase), d \in Decodings, EncodeField
  PROVE  GoesOn \/ Stops \/ Refuses
<1> DEFINE i == e.at
           f == Fields[i]
<1>1. /\ phase = "encode" /\ e.at \in 1 .. Len(Fields) /\ e \in Encodings /\ e.at \in DOMAIN Fields
      /\ Held \in BOOLEAN /\ InPlace \in BOOLEAN /\ IsField(f) /\ Byte(i) \in Nat /\ f.bits \in Nat
  <2>1. phase = "encode" /\ e.at \in 1 .. Len(Fields) /\ e \in Encodings /\ e.at \in DOMAIN Fields
    BY FieldAt
  <2>2. IsField(f) /\ Byte(i) \in Nat
    BY <2>1, FieldsOfGiven, BytePlaces
  <2>3. Held \in BOOLEAN /\ InPlace \in BOOLEAN /\ f.bits \in Nat
    BY <2>2 DEF Held, InPlace, IsField
  <2> QED BY <2>1, <2>2, <2>3
<1>2. Remaining \in Nat
  BY <1>1, RemainingIs
<1>3. CASE EncodeOffset
  <2>1. f.kind = "offset" /\ (Put(0, TRUE) \/ Refuses)
    BY <1>3 DEF EncodeOffset, Encodes, Refuses
  <2>2. 0 = Extent(e.at, Byte(e.at)) /\ 0 \in Nat /\ TRUE \in BOOLEAN
        /\ f.kind \notin {"bits", "pad"}
    BY <1>1, <2>1, ExtentHas
  <2>3. Put(0, TRUE) => GoesOn
    BY <1>1, <2>1, <2>2, PutPlaced
  <2> QED BY <2>1, <2>3
<1>4. CASE EncodePreset
  <2>1. f.kind = "preset" /\ Put(0, TRUE)
    BY <1>4 DEF EncodePreset, Encodes
  <2>2. 0 = Extent(e.at, Byte(e.at)) /\ 0 \in Nat /\ TRUE \in BOOLEAN
        /\ f.kind \notin {"bits", "pad"}
    BY <1>1, <2>1, ExtentHas
  <2> QED BY <1>1, <2>1, <2>2, PutPlaced
<1>5. CASE EncodeGroup
  <2>1. PICK ends \in BOOLEAN : e' = [e EXCEPT !.at = @ + 1, !.stopped = ends] /\ UNCHANGED phase
    BY <1>5 DEF EncodeGroup, GroupIsAbsent, Preserves
  <2>2. f.kind = "group"
    BY <1>5 DEF EncodeGroup, Encodes
  <2>3. e'.at = e.at + 1 /\ e'.taken = e.taken /\ e'.out = e.out
    BY <1>1, <2>1 DEF Encodings
  <2>4. Extent(i, Byte(i)) = 0 /\ e.out + 0 = e.out
    BY <1>1, <2>2, ExtentHas DEF Encodings
  <2>5. Ready => Placed(e')
    BY <1>1, <2>2, <2>3, <2>4, PlainPlaced DEF Ready
  <2> QED BY <1>1, <2>1, <2>3, <2>5 DEF GoesOn
<1>6. CASE EncodeBits
  <2> DEFINE n  == (e.taken + f.bits) \div 8 - e.taken \div 8
             ee == [e EXCEPT !.taken = @ + f.bits]
             faithful == f.member = "" \/ Held
  <2>1. /\ f.kind = "bits"
        /\ IF ~IsDefined(f, Version) THEN Put(0, TRUE)
           ELSE e' = Written(ee, n, faithful) /\ UNCHANGED phase
    BY <1>6 DEF EncodeBits, Encodes
  <2>2. Ready => Placed(e) /\ (IsDefined(f, Version) <=> IsDefined(f, table))
    BY <2>1 DEF Ready, SizedWell
  <2>3. CASE ~IsDefined(f, Version)
    <3>1. e' = Written(e, 0, TRUE) /\ phase' = "encode"
      BY <1>1, <2>1, <2>3 DEF Put
    <3>4. e.out \in Nat /\ 0 \in Nat
      BY <1>1 DEF Encodings
    <3>5. e'.at = e.at + 1 /\ e'.out = e.out + 0 /\ e'.taken = e.taken
      BY <1>1, <3>1, <3>4, WrittenPlain
    <3>2. e'.at = e.at + 1 /\ e'.out = e.out /\ e'.taken = e.taken
      BY <3>4, <3>5
    <3>3. Ready => Placed(e')
      BY <1>1, <2>1, <2>2, <2>3, <3>2, BitsPlaced
    <3> QED BY <3>1, <3>2, <3>3 DEF GoesOn
  <2>4. CASE IsDefined(f, Version)
    <3>1. n \in Nat /\ e.taken + f.bits \in Nat /\ faithful \in BOOLEAN
      <4>1. \A a, b \in Nat : (a + b) \div 8 - a \div 8 \in Nat /\ a + b \in Nat
        OBVIOUS
      <4>2. faithful \in BOOLEAN /\ e.taken \in Nat
        BY <1>1 DEF Encodings
      <4> HIDE DEF faithful, f
      <4> QED BY <1>1, <4>1, <4>2
    <3>2. ee \in Encodings /\ ee.at = e.at /\ ee.out = e.out /\ ee.taken = e.taken + f.bits
      BY <1>1, <3>1 DEF Encodings
    <3>3. e' = Written(ee, n, faithful) /\ phase' = "encode"
      BY <1>1, <2>1, <2>4
    <3> HIDE DEF ee, faithful
    <3>4. e'.at = e.at + 1 /\ e'.out = e.out + n /\ e'.taken = e.taken + f.bits
      <4> HIDE DEF n
      <4> QED BY <3>1, <3>2, <3>3, WrittenHas
    <3>5. Ready => Placed(e')
      BY <1>1, <2>1, <2>2, <2>4, <3>4, BitsPlaced
    <3> QED BY <3>3, <3>4, <3>5 DEF GoesOn
  <2> QED BY <2>3, <2>4
<1>7. CASE EncodePad
  <2> DEFINE p  == Padding(e.taken, f.bits)
             n  == (e.taken + p) \div 8 - e.taken \div 8
             ee == [e EXCEPT !.taken = 0]
  <2>1. f.kind = "pad" /\ e' = Written(ee, n, TRUE) /\ phase' = "encode"
    BY <1>1, <1>7 DEF EncodePad, Encodes
  <2>2. f.bits > 0 /\ e.taken \in Nat
    BY <1>1, <2>1 DEF IsField, Encodings
  <2>3. p \in Nat
    BY <1>1, <2>2, PaddingOf
  <2>4. n \in Nat
    <3> HIDE DEF p
    <3> QED BY <2>2, <2>3
  <2>5. ee \in Encodings /\ ee.at = e.at /\ ee.out = e.out /\ ee.taken = 0
    BY <1>1 DEF Encodings
  <2> HIDE DEF ee
  <2>6. e'.at = e.at + 1 /\ e'.out = e.out + n /\ e'.taken = 0
    <3> HIDE DEF n
    <3> QED BY <2>1, <2>4, <2>5, WrittenPlain
  <2>7. Ready => Placed(e')
    BY <1>1, <2>1, <2>6, PadPlaced DEF Ready
  <2> QED BY <2>1, <2>6, <2>7 DEF GoesOn
<1>8. CASE EncodeSkip
  <2>1. f.kind = "skip" /\ Put(f.length, TRUE)
    BY <1>8 DEF EncodeSkip, Reserve, Encodes
  <2>2. ~IsOpen(f)
    BY <1>1, <2>1 DEF IsField, IsOpen
  <2>3. /\ f.length = Extent(e.at, Byte(e.at)) /\ f.length \in Nat /\ TRUE \in BOOLEAN
        /\ f.kind \notin {"bits", "pad"}
    BY <1>1, <2>1, <2>2, ExtentHas
  <2> QED BY <1>1, <2>1, <2>3, PutPlaced
<1>9. CASE EncodeVector
  <2> DEFINE n == f.count * ElementSize(i)
  <2>1. /\ f.kind = "vector"
        /\ \/ /\ e' = [e EXCEPT !.stopped = TRUE, !.out = @ + Remaining, !.same = @ /\ InPlace]
              /\ UNCHANGED phase
           \/ Put(n, Held)
    BY <1>9 DEF EncodeVector, Encodes
  <2>2. n = Extent(e.at, Byte(e.at)) /\ n \in Nat /\ f.kind \notin {"bits", "pad"}
    BY <1>1, <2>1, ExtentHas, ExtentIsNat
  <2> HIDE DEF n
  <2>3. CASE Put(n, Held)
    BY <1>1, <2>1, <2>2, <2>3, PutPlaced
  <2>4. CASE /\ e' = [e EXCEPT !.stopped = TRUE, !.out = @ + Remaining, !.same = @ /\ InPlace]
             /\ UNCHANGED phase
    <3>1. e'.stopped /\ e'.out = e.out + Remaining
      BY <1>1, <2>4 DEF Encodings
    <3> QED BY <1>1, <2>4, <3>1 DEF Stops
  <2> QED BY <2>1, <2>3, <2>4
<1>10. CASE EncodeUuid
  <2>1. f.kind = "uuid" /\ (Stop \/ Put(f.length, Held))
    BY <1>10 DEF EncodeUuid, Encodes
  <2>2. ~IsOpen(f)
    BY <1>1, <2>1 DEF IsField, IsOpen
  <2>3. /\ f.length = Extent(e.at, Byte(e.at)) /\ f.length \in Nat /\ TRUE \in BOOLEAN
        /\ f.kind \notin {"bits", "pad"}
    BY <1>1, <2>1, <2>2, ExtentHas
  <2> QED BY <1>1, <1>2, <2>1, <2>3, PutPlaced, StopStops
<1>11. CASE EncodeBcd
  <2>1. f.kind = "bcd" /\ (Stop \/ Put(f.length, Held /\ body.decimal) \/ Refuses)
    BY <1>11 DEF EncodeBcd, Encodes, Refuses
  <2>2. ~IsOpen(f) /\ (Held /\ body.decimal) \in BOOLEAN
    BY <1>1, <2>1 DEF IsField, IsOpen
  <2>3. /\ f.length = Extent(e.at, Byte(e.at)) /\ f.length \in Nat /\ TRUE \in BOOLEAN
        /\ f.kind \notin {"bits", "pad"}
    BY <1>1, <2>1, <2>2, ExtentHas
  <2> QED BY <1>1, <1>2, <2>1, <2>2, <2>3, PutPlaced, StopStops
<1>12. CASE EncodeBinary
  <2>1. /\ f.kind = "binary" /\ IsOpen(f)
        /\ Put(d.kept, d.kept = 0 \/ InPlace) \/ Refuses
    BY <1>12 DEF EncodeBinary, Encodes, Refuses, IsOpen
  <2>2. /\ Ready => d.kept = Extent(i, Byte(i))
        /\ d.kept \in Nat /\ (d.kept = 0 \/ InPlace) \in BOOLEAN
    BY <2>1 DEF Ready, SizedWell, Decodings
  <2> QED BY <1>1, <2>1, <2>2, PutPlaced
<1>13. CASE EncodeValue
  <2> DEFINE Marks(x) == [e EXCEPT !.extended = IF x THEN @ \union {f.member} ELSE @]
  <2>1. /\ f.kind \in {"integer", "string", "binary"} /\ ~IsOpen(f)
        /\ \/ Stop
           \/ Put(f.length, TRUE)
           \/ Put(f.length, NumberHeld(f))
           \/ \E x \in Elsewhere(f.member) : e' = Written(Marks(x), f.length, Held) /\ UNCHANGED phase
    BY <1>13 DEF EncodeValue, Reserve, Encodes, IsOpen
  <2>2. Extent(i, Byte(i)) = f.length /\ f.length \in Nat /\ f.member \in STRING
    <3>1. Extent(i, Byte(i)) = f.length /\ f.length \in Nat
      BY <1>1, <2>1, ExtentHas
    <3>2. f.member \in STRING
      BY <1>1 DEF IsField
    <3> QED BY <3>1, <3>2
  <2>3. CASE Stop
    BY <1>1, <1>2, <2>3, StopStops
  <2>4. CASE Put(f.length, TRUE)
    BY <1>1, <2>1, <2>2, <2>4, PutPlaced
  <2>5. CASE Put(f.length, NumberHeld(f))
    <3>1. NumberHeld(f) \in BOOLEAN
      BY DEF NumberHeld
    <3> QED BY <1>1, <2>1, <2>2, <2>5, <3>1, PutPlaced
  <2>6. CASE \E x \in Elsewhere(f.member) : e' = Written(Marks(x), f.length, Held) /\ UNCHANGED phase
    <3>1. PICK x : e' = Written(Marks(x), f.length, Held) /\ phase' = "encode"
      BY <1>1, <2>6
    <3>2. (IF x THEN e.extended \union {f.member} ELSE e.extended) \in SUBSET STRING
      BY <1>1, <2>2 DEF Encodings
    <3>3. /\ Marks(x) \in Encodings /\ Marks(x).at = e.at /\ Marks(x).out = e.out
          /\ Marks(x).taken = e.taken
      <4> HIDE DEF f
      <4> QED BY <1>1, <3>2 DEF Encodings
    <3> HIDE DEF Marks
    <3>4. e'.at = e.at + 1 /\ e'.out = e.out + f.length /\ e'.taken = e.taken
      BY <1>1, <2>2, <3>1, <3>3, WrittenHas
    <3>5. Ready => Placed(e')
      BY <1>1, <2>1, <2>2, <3>4, PlainPlaced DEF Ready
    <3> QED BY <3>1, <3>4, <3>5 DEF GoesOn
  <2> QED BY <2>1, <2>3, <2>4, <2>5, <2>6
<1> QED BY <1>3, <1>4, <1>5, <1>6, <1>7, <1>8, <1>9, <1>10, <1>11, <1>12, <1>13 DEF EncodeField

\* Everything written is what was read from there.
LEMMA FieldSame ==
  ASSUME Keeping, EncoderAt(e, phase), Follows(d, e, phase), EncodeField
  PROVE  e'.same /\ (IsHeld(e.at, d) \/ Stops \/ Refuses)
<1> DEFINE i == e.at
           f == Fields[i]
<1>1. /\ Given /\ d \in Decodings /\ body.decimal /\ Preserves
      /\ phase = "encode" /\ ~e.stopped /\ i \in 1 .. Len(Fields) /\ e \in Encodings
      /\ i \in DOMAIN Fields
  BY FieldAt DEF Keeping
<1>2. /\ e.same /\ e.out <= Size /\ i <= Len(d.starts) + 1 /\ Byte(i) <= Size /\ Placed(e)
  BY <1>1 DEF Follows
<1>3. IsHeld(i, d) \/ IsCut(i, d) \/ IsPast(i)
  BY <1>1, <1>2, WhereAt
<1>4. IsHeld(i, d) => Held /\ InPlace
  <2> SUFFICES ASSUME IsHeld(i, d) PROVE Held
      BY DEF Held
  <2>1. i \in DOMAIN d.starts /\ d.starts[i] = At(i).bit /\ ~(d.cut /\ i = Len(d.starts))
    BY <1>1 DEF IsHeld, Decodings
  <2> QED BY <1>2, <2>1 DEF Held, InPlace, ToBit, Placed
<1>5. IsCut(i, d) => InPlace
  <2> SUFFICES ASSUME IsCut(i, d) PROVE InPlace
      OBVIOUS
  <2>1. i \in DOMAIN d.starts /\ d.starts[i] = At(i).bit
    BY <1>1 DEF IsCut, Decodings
  <2> QED BY <1>2, <2>1 DEF InPlace, ToBit, Placed
<1>6. /\ Remaining \in Nat /\ Remaining = Size - e.out /\ Size \in Nat /\ e.out \in Nat
      /\ Byte(i) \in Nat /\ e.out <= Byte(i) /\ IsField(f)
  BY <1>1, <1>2, RemainingIs, FieldsOfGiven, BytePlaces, PlacedOut
<1>7. ASSUME IsCut(i, d) PROVE CutAt(Extent(i, Byte(i)))
  <2>1. f.kind \notin {"bits", "pad"}
    BY <1>7 DEF IsCut
  <2>2. Byte(i + 1) = Byte(i) + Extent(i, Byte(i)) /\ Extent(i, Byte(i)) \in Nat
    BY <1>1, <2>1, PlainReaches
  <2>3. At(i).taken = 0
    BY <1>1, <2>1, BeginsWhole
  <2>4. e.out = Byte(i)
    BY <1>1, <1>2, <2>3, PlacedOut
  <2>5. Size < Byte(i) + Extent(i, Byte(i))
    BY <1>7, <2>2 DEF IsCut
  <2> QED BY <1>1, <1>6, <2>2, <2>4, <2>5 DEF CutAt
<1>8. ASSUME Stop PROVE e'.same /\ Stops
  BY <1>1, <1>2, <1>6, <1>8, StopStops
<1>9. ASSUME NEW n \in Nat, NEW faithful \in BOOLEAN, Put(n, faithful), faithful PROVE e'.same
  <2>1. e' = Written(e, n, faithful)
    BY <1>9 DEF Put
  <2> QED BY <1>1, <1>2, <1>9, <2>1, WrittenHas
<1>10. CASE EncodeOffset
  <2>1. f.kind = "offset" /\ (Put(0, TRUE) \/ Refuses)
    BY <1>10 DEF EncodeOffset, Encodes, Refuses
  <2>2. IsHeld(i, d)
    BY <1>3, <2>1 DEF IsCut, IsPast, GroupAt
  <2>3. Put(0, TRUE) => e'.same
    BY <1>9
  <2> QED BY <1>2, <2>1, <2>2, <2>3 DEF Refuses
<1>11. CASE EncodePreset
  <2>1. f.kind = "preset" /\ Put(0, TRUE)
    BY <1>11 DEF EncodePreset, Encodes
  <2>2. IsHeld(i, d)
    BY <1>3, <2>1 DEF IsCut, IsPast, GroupAt
  <2> QED BY <1>9, <2>1, <2>2
<1>12. CASE EncodeGroup
  <2> DEFINE ends == \/ GroupIsAbsent(f)
                     \/ Preserves /\ Remaining = 0
                     \/ ~Preserves /\ f.since # NoVersion /\ f.since > e.version
  <2>1. f.kind = "group" /\ e' = [e EXCEPT !.at = @ + 1, !.stopped = ends] /\ phase' = "encode"
    BY <1>1, <1>12 DEF EncodeGroup, Encodes
  <2>2. ends \in BOOLEAN
    OBVIOUS
  <2>3. IsPast(i) => ends
    <3> SUFFICES ASSUME IsPast(i) PROVE Remaining = 0
        BY <1>1
    <3>1. At(i).taken = 0
      BY <1>1, <2>1, BeginsWhole
    <3>2. e.out = Byte(i)
      BY <1>1, <1>2, <3>1, PlacedOut
    <3> QED BY <1>6, <3>2 DEF IsPast
  <2> HIDE DEF ends
  <2>4. e'.same /\ (e'.stopped <=> ends) /\ e'.out = e.out
    BY <1>1, <1>2, <2>1, <2>2 DEF Encodings
  <2> QED BY <1>3, <2>1, <2>3, <2>4 DEF IsCut, Stops
<1>13. CASE EncodeBits
  <2> DEFINE n  == (e.taken + f.bits) \div 8 - e.taken \div 8
             ee == [e EXCEPT !.taken = @ + f.bits]
             faithful == f.member = "" \/ Held
  <2>1. /\ f.kind = "bits"
        /\ Put(0, TRUE) \/ e' = Written(ee, n, faithful)
    BY <1>13 DEF EncodeBits, Encodes
  <2>2. IsHeld(i, d)
    BY <1>3, <2>1 DEF IsCut, IsPast, GroupAt
  <2>3. faithful
    BY <1>4, <2>2
  <2>4. CASE Put(0, TRUE)
    BY <1>9, <2>2, <2>4
  <2>5. CASE e' = Written(ee, n, faithful)
    <3>1. e.taken \in Nat /\ f.bits \in Nat
      BY <1>1, <1>6 DEF Encodings, IsField
    <3>2. n \in Nat /\ e.taken + f.bits \in Nat
      <4>1. \A a, b \in Nat : (a + b) \div 8 - a \div 8 \in Nat /\ a + b \in Nat
        OBVIOUS
      <4> HIDE DEF f
      <4> QED BY <3>1, <4>1
    <3>3. ee \in Encodings /\ (ee.same <=> e.same)
      BY <1>1, <3>2 DEF Encodings
    <3>4. faithful \in BOOLEAN
      OBVIOUS
    <3> HIDE DEF ee, n, faithful
    <3>5. e'.same
      BY <1>2, <2>3, <2>5, <3>2, <3>3, <3>4, WrittenHas
    <3> QED BY <2>2, <3>5
  <2> QED BY <2>1, <2>4, <2>5
<1>14. CASE EncodePad
  <2> DEFINE p  == Padding(e.taken, f.bits)
             n  == (e.taken + p) \div 8 - e.taken \div 8
             ee == [e EXCEPT !.taken = 0]
  <2>1. f.kind = "pad" /\ e' = Written(ee, n, TRUE)
    BY <1>14 DEF EncodePad, Encodes
  <2>2. IsHeld(i, d)
    BY <1>3, <2>1 DEF IsCut, IsPast, GroupAt
  <2>3. f.bits \in Nat /\ f.bits > 0 /\ e.taken \in Nat
    BY <1>1, <1>6, <2>1 DEF IsField, Encodings
  <2>4. p \in Nat
    BY <2>3, PaddingOf
  <2>5. n \in Nat
    <3> HIDE DEF p
    <3> QED BY <2>3, <2>4
  <2>6. ee \in Encodings /\ (ee.same <=> e.same) /\ TRUE \in BOOLEAN
    BY <1>1 DEF Encodings
  <2> HIDE DEF ee, n
  <2>7. e'.same
    BY <1>2, <2>1, <2>5, <2>6, WrittenHas
  <2> QED BY <2>2, <2>7
<1>15. CASE EncodeSkip
  <2>1. f.kind = "skip" /\ Put(f.length, TRUE)
    BY <1>15 DEF EncodeSkip, Reserve, Encodes
  <2>2. IsHeld(i, d)
    BY <1>3, <2>1 DEF IsCut, IsPast, GroupAt
  <2>3. f.length \in Nat
    BY <1>6, <2>1 DEF IsField
  <2> QED BY <1>9, <2>1, <2>2, <2>3
<1>16. CASE EncodeVector
  <2> DEFINE n == f.count * ElementSize(i)
             cut == [e EXCEPT !.stopped = TRUE, !.out = @ + Remaining, !.same = @ /\ InPlace]
  <2>1. /\ f.kind = "vector"
        /\ IF CutAt(n) THEN e' = cut /\ phase' = "encode" ELSE Put(n, Held)
    BY <1>1, <1>16 DEF EncodeVector, Encodes
  <2>2. n = Extent(i, Byte(i)) /\ n \in Nat
    BY <1>1, <1>6, <2>1, ExtentHas, ExtentIsNat
  <2>3. IsHeld(i, d) \/ IsCut(i, d)
    BY <1>3, <2>1 DEF IsPast, GroupAt
  <2>4. InPlace /\ Held \in BOOLEAN
    BY <1>4, <1>5, <2>3 DEF Held
  <2> HIDE DEF n
  <2>5. CASE CutAt(n)
    <3>1. /\ e' = cut /\ cut.stopped /\ (cut.same <=> e.same /\ InPlace)
          /\ cut.out = e.out + Remaining /\ phase' = "encode"
      BY <1>1, <2>1, <2>5 DEF Encodings
    <3> QED BY <1>2, <2>4, <3>1 DEF Stops
  <2>6. CASE ~CutAt(n)
    <3>1. IsHeld(i, d)
      BY <1>7, <2>2, <2>3, <2>6
    <3> QED BY <1>4, <1>9, <2>1, <2>2, <2>4, <2>6, <3>1
  <2> QED BY <2>5, <2>6
<1>17. CASE EncodeUuid
  <2>1. f.kind = "uuid" /\ IF CutAt(f.length) THEN Stop ELSE Put(f.length, Held)
    BY <1>17 DEF EncodeUuid, Encodes
  <2>2. ~IsOpen(f)
    BY <1>6, <2>1 DEF IsField, IsOpen
  <2>3. Extent(i, Byte(i)) = f.length /\ f.length \in Nat /\ Held \in BOOLEAN
    BY <1>1, <1>6, <2>1, <2>2, ExtentHas DEF Held
  <2>4. IsHeld(i, d) \/ IsCut(i, d)
    BY <1>3, <2>1 DEF IsPast, GroupAt
  <2> QED BY <1>4, <1>7, <1>8, <1>9, <2>1, <2>3, <2>4
<1>18. CASE EncodeBcd
  <2>1. f.kind = "bcd" /\ IF CutAt(f.length) THEN Stop ELSE Put(f.length, Held /\ body.decimal)
    BY <1>1, <1>18 DEF EncodeBcd, Encodes
  <2>2. ~IsOpen(f)
    BY <1>6, <2>1 DEF IsField, IsOpen
  <2>3. Extent(i, Byte(i)) = f.length /\ f.length \in Nat /\ (Held /\ body.decimal) \in BOOLEAN
    BY <1>1, <1>6, <2>1, <2>2, ExtentHas DEF Held
  <2>4. IsHeld(i, d) \/ IsCut(i, d)
    BY <1>3, <2>1 DEF IsPast, GroupAt
  <2>5. CASE CutAt(f.length)
    BY <1>8, <2>1, <2>5
  <2>6. CASE ~CutAt(f.length)
    <3>1. IsHeld(i, d)
      BY <1>7, <2>3, <2>4, <2>6
    <3>2. Held /\ body.decimal
      BY <1>1, <1>4, <3>1
    <3> QED BY <1>9, <2>1, <2>3, <2>6, <3>1, <3>2
  <2> QED BY <2>5, <2>6
<1>19. CASE EncodeBinary
  <2>1. /\ f.kind = "binary" /\ IsOpen(f)
        /\ Put(d.kept, d.kept = 0 \/ InPlace) \/ Refuses
    BY <1>19 DEF EncodeBinary, Encodes, Refuses, IsOpen
  <2>2. IsHeld(i, d)
    BY <1>3, <2>1 DEF IsCut, IsPast, GroupAt
  <2>3. d.kept \in Nat /\ (d.kept = 0 \/ InPlace) \in BOOLEAN /\ (d.kept = 0 \/ InPlace)
    BY <1>1, <1>4, <2>2 DEF Decodings
  <2>4. Put(d.kept, d.kept = 0 \/ InPlace) => e'.same
    BY <1>9, <2>3
  <2> QED BY <1>2, <2>1, <2>2, <2>4 DEF Refuses
<1>20. CASE EncodeValue
  <2> DEFINE Marks(x) == [e EXCEPT !.extended = IF x THEN @ \union {f.member} ELSE @]
  <2>1. /\ f.kind \in {"integer", "string", "binary"} /\ ~IsOpen(f)
        /\ \/ CutAt(f.length) /\ Stop
           \/ /\ ~CutAt(f.length)
              /\ \/ Put(f.length, TRUE)
                 \/ Put(f.length, NumberHeld(f))
                 \/ \E x \in Elsewhere(f.member) :
                      e' = Written(Marks(x), f.length, Held) /\ UNCHANGED phase
    BY <1>20 DEF EncodeValue, Reserve, Encodes, IsOpen
  <2>2. Extent(i, Byte(i)) = f.length /\ f.length \in Nat /\ f.member \in STRING
    <3>1. Extent(i, Byte(i)) = f.length /\ f.length \in Nat
      BY <1>1, <1>6, <2>1, ExtentHas
    <3>2. f.member \in STRING
      BY <1>6 DEF IsField
    <3> QED BY <3>1, <3>2
  <2>3. IsHeld(i, d) \/ IsCut(i, d)
    BY <1>3, <2>1 DEF IsPast, GroupAt
  <2>4. CASE CutAt(f.length) /\ Stop
    BY <1>8, <2>4
  <2>5. CASE ~CutAt(f.length)
    <3>1. IsHeld(i, d)
      BY <1>7, <2>2, <2>3, <2>5
    <3>2. Held /\ Held \in BOOLEAN
      BY <1>4, <3>1 DEF Held
    <3>3. CASE Put(f.length, TRUE)
      BY <1>9, <2>2, <3>1, <3>3
    <3>4. CASE Put(f.length, NumberHeld(f))
      <4>1. TellsLength(f) => d.kept = body.declared
        BY <2>1, <3>1 DEF IsHeld, DataKept, Tells
      <4>2. NumberHeld(f) /\ NumberHeld(f) \in BOOLEAN
        BY <3>2, <4>1 DEF NumberHeld
      <4> QED BY <1>9, <2>2, <3>1, <3>4, <4>2
    <3>5. CASE \E x \in Elsewhere(f.member) : e' = Written(Marks(x), f.length, Held) /\ UNCHANGED phase
      <4>1. PICK x : e' = Written(Marks(x), f.length, Held)
        BY <3>5
      <4>2. (IF x THEN e.extended \union {f.member} ELSE e.extended) \in SUBSET STRING
        BY <1>1, <2>2 DEF Encodings
      <4>3. Marks(x) \in Encodings /\ (Marks(x).same <=> e.same)
        <5> HIDE DEF f
        <5> QED BY <1>1, <4>2 DEF Encodings
      <4> HIDE DEF Marks
      <4>4. e'.same
        BY <1>2, <2>2, <3>2, <4>1, <4>3, WrittenHas
      <4> QED BY <3>1, <4>4
    <3> QED BY <2>1, <2>5, <3>3, <3>4, <3>5
  <2> QED BY <2>1, <2>4, <2>5
<1> QED BY <1>10, <1>11, <1>12, <1>13, <1>14, <1>15, <1>16, <1>17, <1>18, <1>19, <1>20 DEF EncodeField

LEMMA FieldFollows ==
  ASSUME Keeping, EncoderAt(e, phase), Follows(d, e, phase), EncodeField
  PROVE  Follows(d, e', phase')
<1> DEFINE i == e.at
<1>1. /\ Given /\ d \in Decodings /\ Preserves /\ i \in DOMAIN Fields /\ i \in Nat
      /\ phase = "encode" /\ ~e.stopped /\ e \in Encodings /\ i \in 1 .. Len(Fields)
  BY FieldAt DEF Keeping
<1>2. e.same /\ e.out <= Size /\ i <= Len(d.starts) + 1 /\ Byte(i) <= Size /\ Placed(e)
  BY <1>1 DEF Follows
<1>3. e'.same /\ (IsHeld(i, d) \/ Stops \/ Refuses)
  BY FieldSame
<1>4. Remaining \in Nat /\ Remaining = Size - e.out /\ Size \in Nat /\ e.out \in Nat
  BY <1>1, <1>2, RemainingIs
<1>5. CASE Refuses
  BY <1>2, <1>5 DEF Refuses, Follows
<1>6. CASE e'.stopped /\ (Stops \/ e'.out = e.out) /\ phase' = "encode"
  <2>1. e'.out <= Size
    BY <1>2, <1>4, <1>6 DEF Stops
  <2> QED BY <1>3, <1>6, <2>1 DEF Follows
<1>7. CASE IsHeld(i, d)
  <2>1. SizedWell(i)
    <3>1. Version = table
      BY <1>1 DEF Version
    <3> QED BY <1>7, <3>1 DEF SizedWell, IsHeld, DataKept
  <2>2. GoesOn \/ Stops \/ Refuses
    BY <1>1, FieldPlaced
  <2>5. Ready
    BY <1>2, <2>1 DEF Ready
  <2>3. CASE Stops
    BY <1>6, <2>3 DEF Stops
  <2>4. CASE GoesOn
    <3>1. phase' = "encode" /\ e'.at = i + 1 /\ Placed(e') /\ Byte(i + 1) <= Size
          /\ i <= Len(d.starts) /\ Len(d.starts) \in Nat
      BY <1>1, <1>7, <2>4, <2>5 DEF GoesOn, IsHeld, Decodings
    <3>2. e'.at <= Len(d.starts) + 1
      BY <1>1, <3>1
    <3>3. e' \in Encodings /\ e'.at \in 1 .. Len(Fields) + 1
      <4>1. EncodedOn
        BY <1>1, EncodePlainKeeps, EncodeBitsKeep, EncodeValuesKeep, EncodeValueKeeps DEF EncodeField
      <4> QED BY <4>1 DEF EncodedOn, EncoderAt
    <3>4. e'.out <= Byte(i + 1) /\ e'.out \in Nat /\ Byte(i + 1) \in Nat
      <4> DEFINE ee == e'
      <4>1. ee \in Encodings /\ ee.at \in 1 .. Len(Fields) + 1 /\ Placed(ee) /\ ee.at = i + 1
        BY <3>1, <3>3
      <4> HIDE DEF ee
      <4>2. ee.out <= Byte(i + 1) /\ ee.out \in Nat /\ Byte(i + 1) \in Nat
        BY <1>1, <4>1, PlacedOut
      <4> QED BY <4>2 DEF ee
    <3>5. e'.out <= Size
      BY <1>4, <3>1, <3>4
    <3> QED BY <1>3, <3>1, <3>2, <3>5 DEF Follows
  <2> QED BY <1>5, <2>2, <2>3, <2>4
<1> QED BY <1>3, <1>5, <1>6, <1>7 DEF Stops

\* An array the encoder has come to has been read in full.
LEMMA ArrayHeld ==
  ASSUME Keeping, NEW i \in DOMAIN Fields, IsArray(i), IsHeld(i, d)
  PROVE  LET f == Fields[i]
             n == Elements(f, Byte(i))
         IN /\ Header(i) \in Nat /\ n \in Nat /\ Byte(i) \in Nat /\ Stride(f) \in Nat /\ Step(i) \in Nat
            /\ Byte(i + 1) \in Nat /\ Byte(i + 1) <= Size /\ Size \in Nat
            /\ Byte(i) + Header(i) <= Byte(i + 1)
            /\ At(i).taken = 0 /\ At(i + 1).taken = 0 /\ i + 1 \in 1 .. Len(Fields) + 1
            /\ d.count = n /\ d.stride = Stride(f)
            /\ Len(d.elements) = IF ArrayIsSkipped(f, Stride(f)) THEN 0 ELSE n
            /\ ElementsAt(i, d)
            /\ ArrayIsSkipped(f, Stride(f)) =>
                 Byte(i + 1) = Byte(i) + Header(i)
                                 + Smaller(n * Stride(f), Larger(Size - Byte(i) - Header(i), 0))
            /\ ~ArrayIsSkipped(f, Stride(f)) =>
                 Byte(i + 1) = Byte(i) + Header(i) + (n * Step(i))
<1>1. Given /\ ArrayKept(i, d) /\ Byte(i + 1) <= Size
  BY DEF Keeping, IsHeld
<1> QED BY <1>1, ArrayReaches DEF Header, ArrayKept

LEMMA ArrayFollows ==
  ASSUME Keeping, EncoderAt(e, phase), Follows(d, e, phase), EncodeArray
  PROVE  Follows(d, e', phase')
<1> DEFINE i      == e.at
           f      == Fields[i]
           header == f.count_length + f.stride_length
           count  == CountWritten(f, Len(d.elements))
           stride == StrideWritten(f)
           same   == /\ InPlace
                     /\ f.count_length # 0 => count = body.count
                     /\ f.stride_length # 0 => stride = body.stride
           ee     == [e EXCEPT !.count = count, !.stride = stride, !.element = 0]
           left   == Larger(Remaining - header, 0)
           n      == header + Smaller(count * stride, IF stride = 0 THEN 0 ELSE left)
           begun  == [ee EXCEPT !.out = @ + header, !.same = @ /\ same]
<1>1. /\ f.kind = "array" /\ phase = "encode" /\ ~e.stopped /\ i <= Len(Fields)
      /\ \/ Stop
         \/ ArrayIsSkipped(f, stride) /\ e' = Written(ee, n, same) /\ phase' = "encode"
         \/ ~ArrayIsSkipped(f, stride) /\ e' = begun /\ phase' = "encode_elements"
  BY DEF EncodeArray, Encodes
<1>2. /\ Given /\ d \in Decodings /\ Preserves /\ e \in Encodings
      /\ i \in DOMAIN Fields /\ i \in Nat /\ i \in 1 .. Len(Fields) + 1
  BY <1>1, FieldsOfGiven DEF Keeping, EncoderAt
<1>3. e.same /\ e.out <= Size /\ i <= Len(d.starts) + 1 /\ Byte(i) <= Size /\ Placed(e)
  BY <1>1 DEF Follows
<1>4. IsHeld(i, d) /\ IsArray(i)
  BY <1>1, <1>2, <1>3, WhereAt DEF IsCut, IsPast, GroupAt, IsArray
<1>5. InPlace
  <2>1. i \in DOMAIN d.starts /\ d.starts[i] = At(i).bit
    BY <1>2, <1>4 DEF IsHeld, Decodings
  <2> QED BY <1>3, <2>1 DEF InPlace, ToBit, Placed
<1>6. /\ Header(i) \in Nat /\ Elements(f, Byte(i)) \in Nat /\ Byte(i) \in Nat /\ Stride(f) \in Nat
      /\ Step(i) \in Nat /\ Byte(i + 1) \in Nat /\ Byte(i + 1) <= Size /\ Size \in Nat
      /\ Byte(i) + Header(i) <= Byte(i + 1)
      /\ At(i).taken = 0 /\ At(i + 1).taken = 0 /\ i + 1 \in 1 .. Len(Fields) + 1
      /\ d.count = Elements(f, Byte(i)) /\ d.stride = Stride(f)
      /\ Len(d.elements) = IF ArrayIsSkipped(f, Stride(f)) THEN 0 ELSE Elements(f, Byte(i))
      /\ ElementsAt(i, d)
      /\ ArrayIsSkipped(f, Stride(f)) =>
           Byte(i + 1) = Byte(i) + Header(i)
                           + Smaller(Elements(f, Byte(i)) * Stride(f), Larger(Size - Byte(i) - Header(i), 0))
  BY <1>2, <1>4, ArrayHeld
<1>7. /\ {f.count_length, f.stride_length, f.stride, f.stride_minimum} \subseteq Nat
      /\ {body.count, body.stride} \subseteq Nat
  BY <1>2, FieldsOfGiven DEF IsField, Given, Body
<1>8. e.out = Byte(i) /\ e.taken = 0
  BY <1>2, <1>3, <1>6, PlacedOut
<1>9. Remaining = Size - Byte(i) /\ Remaining \in Nat
  BY <1>2, <1>3, <1>8, RemainingIs
<1>10. header = Header(i)
  BY DEF Header
<1>11. f.count_length # 0 => count = body.count /\ Elements(f, Byte(i)) = body.count
  <2> SUFFICES ASSUME f.count_length # 0 PROVE count = body.count /\ Elements(f, Byte(i)) = body.count
      OBVIOUS
  <2>1. Elements(f, Byte(i)) = body.count
    BY DEF Elements
  <2>2. Len(d.elements) <= body.count /\ Len(d.elements) \in Nat
    BY <1>6, <1>7, <2>1
  <2>3. d.count = body.count /\ body.count \in Nat
    BY <1>6, <1>7, <2>1
  <2>4. count \in {d.count, Larger(body.count, Len(d.elements))}
    BY <1>2 DEF CountWritten
  <2>5. Larger(body.count, Len(d.elements)) = body.count
    BY <2>2, <2>3 DEF Larger
  <2> QED BY <2>1, <2>3, <2>4, <2>5
<1>12. stride = Stride(f)
  <2> HIDE DEF f
  <2> QED BY <1>2, <1>6 DEF StrideWritten, Stride
<1>13. f.count_length = 0 => count = Len(d.elements)
  BY DEF CountWritten
<1>14. same
  BY <1>5, <1>11, <1>12 DEF Stride
<1>15. count \in Nat /\ stride \in Nat /\ same \in BOOLEAN
  <2>1. Len(d.elements) \in Nat
    BY <1>6
  <2> HIDE DEF count, stride, f, same
  <2> QED BY <1>6, <1>7, <1>11, <1>12, <1>13, <1>14, <2>1
<1> HIDE DEF count, stride, same
<1>16. /\ ee \in Encodings /\ ee.at = i /\ ee.out = e.out /\ ee.taken = e.taken /\ (ee.same <=> e.same)
       /\ ee.stride = stride /\ ee.element = 0 /\ ee.stopped = e.stopped
  BY <1>2, <1>15 DEF Encodings
<1> HIDE DEF ee
<1>17. CASE Stop
  <2>1. Stops /\ e'.same = e.same
    BY <1>1, <1>2, <1>9, <1>17, StopStops
  <2>2. e'.out <= Size
    BY <1>3, <1>6, <1>8, <1>9, <2>1 DEF Stops
  <2> QED BY <1>3, <2>1, <2>2 DEF Stops, Follows
<1>18. CASE ArrayIsSkipped(f, stride) /\ e' = Written(ee, n, same) /\ phase' = "encode"
  <2>1. f.count_length # 0
    BY <1>1, <1>2, <1>7, <1>18, FieldsOfGiven DEF ArrayIsSkipped
  <2>2. count = Elements(f, Byte(i)) /\ stride = Stride(f)
    BY <1>11, <1>12, <2>1
  <2>3. left = Larger(Size - Byte(i) - Header(i), 0)
    BY <1>9, <1>10
  <2>4. left \in Nat
    BY <1>6, <2>3 DEF Larger
  <2> DEFINE m == count * stride
  <2>5. m \in Nat /\ (stride = 0 => m = 0)
    BY <1>15
  <2> HIDE DEF left, header, f, m
  <2>6. n = Header(i) + Smaller(m, left)
    BY <1>10, <2>4, <2>5 DEF Smaller, m
  <2>7. Byte(i + 1) = Byte(i) + Header(i) + Smaller(m, left)
    BY <1>6, <1>18, <2>2, <2>3 DEF m
  <2>8. Smaller(m, left) \in Nat
    BY <2>4, <2>5 DEF Smaller
  <2> HIDE DEF n
  <2>9. n \in Nat /\ e.out + n = Byte(i + 1)
    <3> DEFINE s == Smaller(m, left)
    <3>1. Byte(i) \in Nat /\ Header(i) \in Nat /\ s \in Nat
      BY <1>6, <2>8
    <3>2. e.out = Byte(i) /\ n = Header(i) + s /\ Byte(i + 1) = Byte(i) + Header(i) + s
      BY <1>8, <2>6, <2>7
    <3> HIDE DEF s
    <3> QED BY <3>1, <3>2
  <2>10. e'.at = i + 1 /\ e'.out = Byte(i + 1) /\ e'.taken = 0 /\ e'.same
    <3> DEFINE w == Written(ee, n, same)
    <3>1. w.at = ee.at + 1 /\ w.out = ee.out + n /\ w.taken = ee.taken /\ (w.same <=> ee.same /\ same)
      BY <1>15, <1>16, <2>9, WrittenHas
    <3>2. e' = w
      BY <1>18
    <3> HIDE DEF w
    <3> QED BY <1>3, <1>8, <1>14, <1>16, <2>9, <3>1, <3>2
  <2>11. Placed(e')
    <3>1. At(i + 1).bit = 8 * Byte(i + 1)
      BY <1>2, <1>6, WholePlace
    <3>2. 8 * Byte(i + 1) + (0 % 8) = 8 * Byte(i + 1)
      BY <1>6
    <3> QED BY <1>6, <2>10, <3>1, <3>2 DEF Placed
  <2>12. e'.at <= Len(d.starts) + 1
    BY <1>2, <1>4, <2>10 DEF IsHeld, Decodings
  <2> QED BY <1>6, <1>18, <2>10, <2>11, <2>12 DEF Follows
<1>19. CASE ~ArrayIsSkipped(f, stride) /\ e' = begun /\ phase' = "encode_elements"
  <2>1. /\ e'.at = i /\ e'.out = e.out + header /\ e'.same /\ e'.taken = 0 /\ e'.stride = stride
        /\ e'.element = 0
    <3> HIDE DEF header
    <3> QED BY <1>3, <1>8, <1>14, <1>16, <1>19 DEF Encodings
  <2>2. i \in 1 .. Len(d.starts) /\ 0 <= Len(d.elements) /\ ~ArrayIsSkipped(f, Stride(f))
    BY <1>4, <1>6, <1>12, <1>19 DEF IsHeld
  <2>3. e'.out = Byte(i) + Header(i) + (0 * Step(i)) /\ e'.out <= Size
    <3> HIDE DEF header, f
    <3> QED BY <1>6, <1>8, <1>10, <2>1
  <2> HIDE DEF f
  <2> QED BY <1>4, <1>12, <1>19, <2>1, <2>2, <2>3 DEF Follows, f
<1> QED BY <1>1, <1>17, <1>18, <1>19

LEMMA ElementFollows ==
  ASSUME Keeping, EncoderAt(e, phase), Follows(d, e, phase), EncodeElement \/ EncodeArrayEnd
  PROVE  Follows(d, e', phase')
<1> DEFINE i == e.at
           f == Fields[i]
           k == e.element
           t == Step(i)
           c == Elements(f, Byte(i))
<1>1. phase = "encode_elements" /\ i <= Len(Fields) /\ e \in Encodings /\ e.same /\ e.out <= Size
  BY DEF EncodeElement, EncodeArrayEnd, EncoderAt, Follows
<1>2. /\ Given /\ d \in Decodings /\ Preserves /\ i \in DOMAIN Fields /\ i \in Nat
      /\ {e.element, e.out, e.stride} \subseteq Nat
  BY <1>1, FieldsOfGiven DEF Keeping, EncoderAt, Encodings
<1>3. Remaining \in Nat /\ Remaining = Size - e.out /\ Size \in Nat /\ e.out \in Nat
  BY <1>1, <1>2, RemainingIs
<1>4. CASE e.stopped
  <2>1. EncodeArrayEnd
    BY <1>4 DEF EncodeElement
  <2>2. e'.stopped /\ e'.same /\ e'.out = e.out /\ phase' = "encode"
    BY <1>1, <1>4, <2>1 DEF EncodeArrayEnd, Encodings
  <2> QED BY <1>1, <2>2 DEF Follows
<1>5. CASE ~e.stopped
  <2>1. /\ i \in 1 .. Len(d.starts) /\ IsArray(i) /\ ~ArrayIsSkipped(f, Stride(f))
        /\ e.taken = 0 /\ e.stride = Stride(f) /\ k <= Len(d.elements)
        /\ e.out = Byte(i) + Header(i) + (k * t)
    BY <1>1, <1>5 DEF Follows
  <2>2. Byte(i) <= Size /\ i <= Len(d.starts) + 1
    <3>1. Byte(i) + Header(i) + (k * t) <= Size /\ Byte(i) \in Nat /\ Header(i) \in Nat /\ t \in Nat
      BY <1>1, <1>2, <2>1, ArrayReaches DEF Header
    <3>2. k * t \in Nat
      BY <1>2, <3>1
    <3>3. Len(d.starts) \in Nat
      BY <1>2 DEF Decodings
    <3>4. i \in 1 .. Len(d.starts)
      BY <2>1
    <3>5. i <= Len(d.starts) + 1
      BY <1>2, <3>3, <3>4
    <3> DEFINE m == k * t
    <3>6. Byte(i) + Header(i) + m <= Size /\ m \in Nat /\ Size \in Nat
      BY <1>3, <3>1, <3>2
    <3> HIDE DEF m
    <3>7. Byte(i) <= Size
      BY <3>1, <3>6
    <3> QED BY <3>5, <3>7
  <2>3. IsHeld(i, d)
    BY <1>2, <2>1, <2>2, WhereAt DEF IsCut, IsPast, GroupAt, IsArray
  <2>4. /\ Header(i) \in Nat /\ c \in Nat /\ Byte(i) \in Nat /\ Stride(f) \in Nat /\ t \in Nat
        /\ Byte(i + 1) \in Nat /\ Byte(i + 1) <= Size /\ At(i + 1).taken = 0
        /\ i + 1 \in 1 .. Len(Fields) + 1 /\ Len(d.elements) = c /\ ElementsAt(i, d)
        /\ Byte(i + 1) = Byte(i) + Header(i) + (c * t)
    BY <1>2, <2>1, <2>3, ArrayHeld
  <2>5. CASE EncodeArrayEnd
    <3>1. k = c /\ phase' = "encode" /\ e' = [e EXCEPT !.at = @ + 1]
      BY <1>5, <2>4, <2>5 DEF EncodeArrayEnd
    <3>2. e'.at = i + 1 /\ e'.out = Byte(i + 1) /\ e'.taken = 0 /\ e'.same
      BY <1>1, <2>1, <2>4, <3>1 DEF Encodings
    <3>3. Placed(e')
      <4>1. At(i + 1).bit = 8 * Byte(i + 1)
        BY <1>2, <2>4, WholePlace
      <4>2. 8 * Byte(i + 1) + (0 % 8) = 8 * Byte(i + 1)
        BY <2>4
      <4> QED BY <2>4, <3>2, <4>1, <4>2 DEF Placed
    <3>4. e'.at <= Len(d.starts) + 1
      BY <1>2, <2>1, <3>2 DEF Decodings
    <3> QED BY <2>4, <3>1, <3>2, <3>3, <3>4 DEF Follows
  <2>6. CASE EncodeElement
    <3> DEFINE n    == ElementSize(i)
               same == d.elements[k + 1] = e.out
    <3>1. /\ k < Len(d.elements)
          /\ \/ Stop
             \/ /\ e' = [e EXCEPT !.element = @ + 1, !.out = @ + Larger(n, e.stride), !.same = @ /\ same]
                /\ phase' = "encode_elements"
      BY <1>1, <2>6 DEF EncodeElement
    <3>2. CASE Stop
      <4>1. e' = [e EXCEPT !.stopped = TRUE, !.out = @ + Remaining] /\ phase' = phase
        BY <3>2 DEF Stop
      <4>2. e'.stopped /\ e'.out = e.out + Remaining /\ e'.same
        BY <1>1, <4>1 DEF Encodings
      <4>3. e'.out <= Size
        BY <1>3, <4>2
      <4> QED BY <1>1, <4>1, <4>2, <4>3 DEF Follows
    <3>3. CASE /\ e' = [e EXCEPT !.element = @ + 1, !.out = @ + Larger(n, e.stride), !.same = @ /\ same]
               /\ phase' = "encode_elements"
      <4>1. n \in Nat /\ t >= n
        BY <1>2, <2>1, FieldsOfGiven, ArrayNumbers, <2>4 DEF IsArray
      <4>2. Larger(n, e.stride) = t
        <5>1. Stride(f) = 0 => t = n
          BY DEF Step
        <5>2. Stride(f) # 0 => t = Stride(f)
          BY DEF Step
        <5> HIDE DEF t, n, f
        <5> QED BY <2>1, <2>4, <4>1, <5>1, <5>2 DEF Larger
      <4>9. k \in Nat /\ c \in Nat /\ k < c
        BY <1>2, <2>4, <3>1
      <4>3. k + 1 \in 1 .. Len(d.elements) /\ (k + 1) - 1 = k /\ k + 1 <= c /\ k + 1 \in Nat
        <5> HIDE DEF k, c
        <5> QED BY <2>4, <4>9
      <4>4. same
        BY <2>1, <2>4, <4>3 DEF ElementsAt
      <4> HIDE DEF same, n
      <4>5. /\ e'.at = i /\ e'.element = k + 1 /\ e'.out = e.out + t /\ e'.same /\ e'.taken = 0
            /\ e'.stride = e.stride
        BY <1>1, <2>1, <3>3, <4>2, <4>4 DEF Encodings
      <4>6. e'.out = Byte(i) + Header(i) + ((k + 1) * t)
        <5>1. (k + 1) * t = k * t + t /\ k * t \in Nat
          <6> HIDE DEF k, t
          <6> QED BY <2>4, <4>9, NextMultiple
        <5> DEFINE m == k * t
                   z == (k + 1) * t
        <5>2. z = m + t /\ m \in Nat /\ t \in Nat /\ Byte(i) \in Nat /\ Header(i) \in Nat
          BY <2>4, <5>1
        <5>3. e.out = Byte(i) + Header(i) + m /\ e'.out = e.out + t
          BY <2>1, <4>5
        <5> HIDE DEF t, m, z
        <5>4. e'.out = Byte(i) + Header(i) + z
          BY <5>2, <5>3
        <5> QED BY <5>4 DEF z
      <4>7. e'.out <= Size
        <5>1. (k + 1) * t <= c * t /\ (k + 1) * t \in Nat /\ c * t \in Nat
          <6> HIDE DEF k, c, t
          <6> QED BY <2>4, <4>3, TimesKeepsOrder
        <5> HIDE DEF t, c
        <5> QED BY <1>3, <2>4, <4>6, <5>1
      <4>8. e'.element <= Len(d.elements)
        BY <4>3, <4>5
      <4> QED BY <2>1, <3>3, <4>5, <4>6, <4>7, <4>8 DEF Follows
    <3> QED BY <3>1, <3>2, <3>3
  <2> QED BY <2>5, <2>6
<1> QED BY <1>4, <1>5

LEMMA EndFollows ==
  ASSUME Keeping, EncoderAt(e, phase), Follows(d, e, phase), EncodeEnd
  PROVE  Follows(d, e', phase') /\ e'.out = Size
<1>1. Given /\ Preserves /\ e \in Encodings /\ e.same /\ e.out <= Size
  BY DEF Keeping, EncoderAt, Follows
<1>2. Remaining \in Nat /\ Remaining = Size - e.out /\ Size \in Nat /\ e.out \in Nat
  BY <1>1, RemainingIs
<1> DEFINE out  == e.out + Remaining
           same == Preserves => out = body.length
<1>3. out = Size
  BY <1>2
<1>4. same /\ same \in BOOLEAN
  BY <1>3 DEF Size
<1>5. phase' \in {"refused", "encoded"} /\ e' = [e EXCEPT !.out = out, !.same = @ /\ same]
  BY DEF EncodeEnd
<1> HIDE DEF out, same
<1>6. e'.out = Size /\ e'.same
  BY <1>1, <1>3, <1>4, <1>5 DEF Encodings
<1> QED BY <1>2, <1>5, <1>6 DEF Follows

LEMMA FirstPlace ==
  ASSUME Given, NEW ee, ee.at = 1, ee.out = HeaderLength, ee.taken = 0
  PROVE  Placed(ee) /\ Byte(1) = HeaderLength
<1>1. At(1) = [bit |-> 8 * HeaderLength, taken |-> 0]
  BY BeginsOf DEF At, FirstBegins
<1>2. 8 * HeaderLength + (0 % 8) = 8 * HeaderLength /\ HeaderLength \in Nat
  BY DEF HeaderLength
<1>3. At(1).bit = 8 * HeaderLength /\ At(1).taken = 0
  BY <1>1
<1> QED BY <1>2, <1>3, BytesOfBits DEF Placed, Byte

LEMMA StartFollows ==
  ASSUME Given, d \in Decodings, Len(d.starts) <= Len(Fields), Ended(d),
         EncodeStart, e'.mode = "preserve"
  PROVE  Follows(d, e', phase')
<1>1. /\ phase' = "encode"
      /\ \/ e' = [NotEncoded EXCEPT !.mode = "preserve"]
         \/ \E v \in WrittenVersions[entity] :
              e' = [NotEncoded EXCEPT !.mode = "canonical", !.version = v]
  BY DEF EncodeStart
<1>2. e'.at = 1 /\ e'.out = HeaderLength /\ e'.taken = 0 /\ e'.same
  BY <1>1 DEF NotEncoded
<1>3. Placed(e') /\ Byte(1) = HeaderLength
  <2> DEFINE ee == e'
  <2>1. ee.at = 1 /\ ee.out = HeaderLength /\ ee.taken = 0
    BY <1>2
  <2> HIDE DEF ee
  <2>2. Placed(ee) /\ Byte(1) = HeaderLength
    BY <2>1, FirstPlace
  <2> QED BY <2>2 DEF ee
<1>4. Len(d.starts) \in Nat /\ Len(Fields) \in Nat /\ DOMAIN Fields = 1 .. Len(Fields)
  BY FieldsOfGiven DEF Decodings
<1>5. Byte(1) <= Size
  <2>1. PICK s \in 1 .. Len(Fields) + 1 : Byte(s) <= Size
    <3>1. CASE EndsWhole(d)
      BY <1>4, <3>1 DEF EndsWhole
    <3>2. CASE EndsShort(d)
      BY <1>4, <3>2 DEF EndsShort
    <3> QED BY <3>1, <3>2 DEF Ended
  <2>2. 1 \in 1 .. Len(Fields) + 1 /\ 1 <= s
    BY <1>4
  <2>3. Byte(1) <= Byte(s) /\ Byte(1) \in Nat /\ Byte(s) \in Nat /\ Size \in Nat
    BY <2>2, BeginsGrow, BytePlaces, Arrived
  <2> QED BY <2>1, <2>3
<1>6. 1 <= Len(d.starts) + 1
  BY <1>4
<1> QED BY <1>1, <1>2, <1>3, <1>5, <1>6 DEF Follows

-----------------------------------------------------------------------------
(* No field is out of its place: as long as the fields are of one size, the *)
(* encoder is where they begin, in any mode.                                *)

Aligned(ee, ph) ==
  /\ ph = "encode" /\ ~ee.stopped /\ (\A j \in 1 .. ee.at - 1 : IsFixed(Fields[j])) => Placed(ee)
  /\ ph = "encode_elements" => IsArray(ee.at)

LEMMA FixedSized ==
  ASSUME Given, NEW i \in DOMAIN Fields, IsFixed(Fields[i])
  PROVE  SizedWell(i) /\ ~IsArray(i)
<1>1. Fields[i].kind # "array" /\ ~IsOpen(Fields[i])
  BY DEF IsFixed, IsOpen, Rest, Declared
<1>2. IsDefined(Fields[i], Version) /\ IsDefined(Fields[i], table)
  BY DEF IsFixed, IsDefined
<1> QED BY <1>1, <1>2 DEF SizedWell, IsArray

LEMMA AlignedOn ==
  ASSUME Given, d \in Decodings, EncoderAt(e, phase), Aligned(e, phase), Encode
  PROVE  Aligned(e', phase')
<1>1. CASE EncodeField
  <2>1. phase = "encode" /\ ~e.stopped /\ e.at \in 1 .. Len(Fields) /\ e.at \in DOMAIN Fields
    BY <1>1, FieldAt
  <2>2. GoesOn \/ Stops \/ Refuses
    BY <1>1, FieldPlaced
  <2>3. CASE GoesOn
    <3>1. phase' = "encode" /\ e'.at = e.at + 1 /\ (Ready => Placed(e'))
      BY <2>3 DEF GoesOn
    <3> SUFFICES ASSUME \A j \in 1 .. e'.at - 1 : IsFixed(Fields[j]) PROVE Ready
        BY <3>1 DEF Aligned
    <3>2. e.at \in 1 .. e'.at - 1 /\ (\A j \in 1 .. e.at - 1 : j \in 1 .. e'.at - 1)
      BY <2>1, <3>1
    <3>3. Placed(e)
      BY <2>1, <3>2 DEF Aligned
    <3>4. SizedWell(e.at)
      BY <2>1, <3>2, FixedSized
    <3> QED BY <3>3, <3>4 DEF Ready
  <2>4. CASE Stops \/ Refuses
    BY <2>4 DEF Stops, Refuses, Aligned
  <2> QED BY <2>2, <2>3, <2>4
<1>2. CASE EncodeArray
  <2>1. /\ Fields[e.at].kind = "array" /\ phase = "encode" /\ e.at \in 1 .. Len(Fields) /\ e \in Encodings
        /\ e.at \in Nat /\ ~IsFixed(Fields[e.at])
    <3>1. Fields[e.at].kind = "array" /\ phase = "encode" /\ e.at <= Len(Fields)
      BY <1>2 DEF EncodeArray, Encodes
    <3> QED BY <3>1, FieldsOfGiven DEF EncoderAt, Encodings, IsFixed
  <2>2. EncodedOn
    BY <1>2, EncodeArrayKeeps
  <2>3. \/ phase' = "encode" /\ e'.stopped
        \/ phase' = "encode" /\ e'.at = e.at + 1
        \/ phase' = "encode_elements" /\ e'.at = e.at
    <3> DEFINE f      == Fields[e.at]
               count  == CountWritten(f, Len(d.elements))
               stride == StrideWritten(f)
               ee     == [e EXCEPT !.count = count, !.stride = stride, !.element = 0]
    <3>1. \/ Stop
          \/ (\E n, same : e' = Written(ee, n, same)) /\ phase' = "encode"
          \/ (\E x, same : e' = [ee EXCEPT !.out = x, !.same = same]) /\ phase' = "encode_elements"
      BY <2>1, <1>2 DEF EncodeArray
    <3>2. ee.at = e.at
      BY <2>1 DEF Encodings
    <3>3. Stop => phase' = "encode" /\ e'.stopped
      BY <2>1 DEF Stop, Encodings
    <3>4. ASSUME NEW n, NEW same, e' = Written(ee, n, same) PROVE e'.at = e.at + 1
      BY <2>1, <3>4 DEF Written, Encodings
    <3>5. ASSUME NEW x, NEW same, e' = [ee EXCEPT !.out = x, !.same = same] PROVE e'.at = e.at
      BY <2>1, <3>5 DEF Encodings
    <3> HIDE DEF ee
    <3> QED BY <3>1, <3>3, <3>4, <3>5
  <2>4. e'.at = e.at + 1 => ~(\A j \in 1 .. e'.at - 1 : IsFixed(Fields[j]))
    <3> SUFFICES ASSUME e'.at = e.at + 1 PROVE e.at \in 1 .. e'.at - 1
        BY <2>1
    <3> QED BY <2>1
  <2> QED BY <2>1, <2>3, <2>4 DEF Aligned, IsArray
<1>3. CASE EncodeElement
  <2>1. /\ e \in Encodings /\ phase = "encode_elements" /\ phase' = "encode_elements"
        /\ e'.at = e.at
    BY <1>3 DEF EncodeElement, Stop, EncoderAt, Encodings
  <2> QED BY <2>1 DEF Aligned
<1>4. CASE EncodeArrayEnd
  <2>1. e \in Encodings /\ phase = "encode_elements" /\ phase' = "encode" /\ e'.at = e.at + 1
        /\ e.at \in Nat /\ e.at >= 1
    BY <1>4 DEF EncodeArrayEnd, EncoderAt, Encodings
  <2>2. ~IsFixed(Fields[e.at]) /\ e.at \in 1 .. e'.at - 1
    BY <2>1 DEF Aligned, IsArray, IsFixed
  <2> QED BY <2>1, <2>2 DEF Aligned
<1>5. CASE EncodeEnd
  BY <1>5 DEF EncodeEnd, Aligned
<1> QED BY <1>1, <1>2, <1>3, <1>4, <1>5 DEF Encode, EncodeField

LEMMA AlignedFirst ==
  ASSUME Given, NEW ee, ee.at = 1, ee.out = HeaderLength, ee.taken = 0
  PROVE  Aligned(ee, "encode")
BY FirstPlace DEF Aligned

-----------------------------------------------------------------------------
(* The invariant, of the decoding and of the encoding together.            *)

LEMMA SameTrace ==
  ASSUME spec' = spec, body' = body, table' = table
  PROVE  /\ \A dd, ph : Trace(dd, ph)' <=> Trace(dd, ph)
         /\ \A dd : Ended(dd)' <=> Ended(dd)
         /\ \A dd, ee, ph : Follows(dd, ee, ph)' <=> Follows(dd, ee, ph)
         /\ \A ee, ph : Aligned(ee, ph)' <=> Aligned(ee, ph)
<1>1. Begins' = Begins /\ Fields' = Fields /\ Size' = Size
  BY SameStructure DEF Size
<1>2. \A i : At(i)' = At(i)
  BY <1>1 DEF At
<1>3. \A i : Byte(i)' = Byte(i)
  BY <1>2 DEF Byte
<1>4. \A i : Reads(i)' = Reads(i)
  BY DEF Reads
<1>5. \A i : ElementSize(i)' = ElementSize(i)
  BY <1>4 DEF ElementSize
<1>6. (\A f : Stride(f)' = Stride(f)) /\ (\A f, x : Elements(f, x)' = Elements(f, x))
  BY DEF Stride, Elements
<1>7. \A i : Step(i)' = Step(i)
  BY <1>1, <1>5, <1>6 DEF Step
<1>8. \A i, x : Extent(i, x)' = Extent(i, x)
  BY <1>1, <1>5, <1>6, <1>7 DEF Extent
<1>9. \A i : IsArray(i)' = IsArray(i) /\ GroupAt(i)' = GroupAt(i) /\ Header(i)' = Header(i)
  BY <1>1 DEF IsArray, GroupAt, Header
<1>10. \A i : Tells(i)' = Tells(i)
  <2>1. \A f : TellsLength(f)' = TellsLength(f)
    BY <1>1 DEF TellsLength
  <2> QED BY <1>1, <2>1 DEF Tells
<1>11. \A i, dd : DataKept(i, dd)' <=> DataKept(i, dd)
  BY <1>1, <1>3, <1>8, <1>10 DEF DataKept
<1>12. \A i, dd : ElementsAt(i, dd)' <=> ElementsAt(i, dd)
  BY <1>3, <1>7, <1>9 DEF ElementsAt
<1>13. \A i, dd : ArrayKept(i, dd)' <=> ArrayKept(i, dd)
  BY <1>1, <1>3, <1>6, <1>12 DEF ArrayKept
<1>14. \A dd : StartsKept(dd)' <=> StartsKept(dd)
  BY <1>2 DEF StartsKept
<1>15. \A s, dd : Traced(s, dd)' <=> Traced(s, dd)
  BY <1>9, <1>11, <1>13, <1>14 DEF Traced
<1>16. \A dd : (EndsWhole(dd)' <=> EndsWhole(dd)) /\ (EndsShort(dd)' <=> EndsShort(dd))
  BY <1>1, <1>3, <1>9, <1>14, <1>15 DEF EndsWhole, EndsShort
<1>17. \A dd : Ended(dd)' <=> Ended(dd)
  BY <1>16 DEF Ended
<1>18. \A dd, ph : Trace(dd, ph)' <=> Trace(dd, ph)
  BY <1>12, <1>15, <1>17 DEF Trace
<1>19. \A ee : Placed(ee)' <=> Placed(ee)
  BY <1>2 DEF Placed
<1>20. \A dd, ee, ph : Follows(dd, ee, ph)' <=> Follows(dd, ee, ph)
  BY <1>1, <1>3, <1>6, <1>7, <1>9, <1>19 DEF Follows
<1>21. \A ee, ph : Aligned(ee, ph)' <=> Aligned(ee, ph)
  BY <1>1, <1>9, <1>19 DEF Aligned
<1> QED BY <1>17, <1>18, <1>20, <1>21

Tracking ==
  /\ Inv /\ RefusedOnly
  /\ phase # "idle" => Trace(d, phase) /\ Size <= MaximumLength /\ Aligned(e, phase)
  /\ phase \in Encoding => Ended(d)
  /\ phase \in Encoding /\ Preserves /\ body.decimal /\ ~EndsInPart => Follows(d, e, phase)
  /\ phase = "encoded" => e.out <= MaximumLength

LEMMA TrackingBegins == Init => Tracking
<1> SUFFICES ASSUME Init PROVE Tracking
    OBVIOUS
<1>1. phase = "idle"
  BY DEF Init
<1> QED BY <1>1, InitHolds DEF Tracking, RefusedOnly, Encoding

LEMMA TrackingTake == Tracking /\ Take => Tracking'
<1> SUFFICES ASSUME Tracking, Take PROVE Tracking'
    OBVIOUS
<1>1. Inv'
  BY TakeHolds DEF Tracking
<1>2. phase' = "start" /\ body'.length <= MaximumLength
  BY BodiesAssumption DEF Take
<1>3. Trace(d, phase)' /\ Aligned(e, phase)' /\ RefusedOnly'
  BY <1>2 DEF Trace, Aligned, RefusedOnly
<1> QED BY <1>1, <1>2, <1>3 DEF Tracking, Encoding, Size

LEMMA TrackingDecode == Tracking /\ Decode => Tracking'
<1> SUFFICES ASSUME Tracking, Decode PROVE Tracking'
    OBVIOUS
<1>1. phase \in {"start", "decode", "elements"} /\ phase' \in {"decode", "elements", "decoded", "failed"}
      /\ UNCHANGED <<entity, spec, table, body, round, e, first>>
  BY DEF Decode, DecodeStart, DecodeOffset, DecodePreset, DecodeGroup, DecodeValue, DecodeBinary,
         DecodeVector, DecodeBits, DecodePad, DecodeArray, DecodeElement, DecodeArrayEnd, DecodeEnd,
         Decodes, Decoded, Short, Consume
<1>2. Inv'
  BY DecodeHolds DEF Tracking
<1>3. Given /\ d \in Decodings /\ Outcome(d, phase) /\ Trace(d, phase) /\ Size <= MaximumLength
  BY <1>1 DEF Tracking, Inv
<1>4. Trace(d', phase')
  BY <1>3, DecodeTraces
<1>5. Trace(d, phase)'
  BY <1>1, <1>4, SameTrace
<1>6. Aligned(e, phase)' /\ RefusedOnly' /\ Size' = Size
  BY <1>1 DEF Aligned, RefusedOnly, Size
<1> QED BY <1>1, <1>2, <1>3, <1>5, <1>6 DEF Tracking, Encoding

LEMMA EncodeMode ==
  ASSUME e \in Encodings, Encode
  PROVE  e'.mode = e.mode
<1>1. ASSUME NEW n, NEW faithful, Put(n, faithful) PROVE e'.mode = e.mode
  BY <1>1 DEF Put, Written, Encodings
<1>2. ASSUME Stop PROVE e'.mode = e.mode
  BY <1>2 DEF Stop, Encodings
<1>3. CASE EncodeOffset \/ EncodePreset \/ EncodeSkip \/ EncodeUuid \/ EncodeBcd \/ EncodeBinary
  BY <1>1, <1>2, <1>3 DEF EncodeOffset, EncodePreset, EncodeSkip, EncodeUuid, EncodeBcd, EncodeBinary,
     Reserve
<1>4. CASE EncodeGroup
  BY <1>4 DEF EncodeGroup, Encodings
<1>5. CASE EncodeBits
  BY <1>1, <1>5 DEF EncodeBits, Written, Encodings
<1>6. CASE EncodePad
  BY <1>6 DEF EncodePad, Written, Encodings
<1>7. CASE EncodeVector
  BY <1>1, <1>7 DEF EncodeVector, Encodings
<1>8. CASE EncodeValue
  <2> DEFINE f == Fields[e.at]
             Marks(x) == [e EXCEPT !.extended = IF x THEN @ \union {f.member} ELSE @]
  <2>1. \/ Stop
        \/ Put(f.length, TRUE)
        \/ Put(f.length, NumberHeld(f))
        \/ \E x \in Elsewhere(f.member) : e' = Written(Marks(x), f.length, Held) /\ UNCHANGED phase
    BY <1>8 DEF EncodeValue, Reserve
  <2>2. ASSUME NEW x, e' = Written(Marks(x), f.length, Held) PROVE e'.mode = e.mode
    BY <2>2 DEF Written, Encodings
  <2> QED BY <1>1, <1>2, <2>1, <2>2
<1>9. CASE EncodeArray
  <2> DEFINE f      == Fields[e.at]
             count  == CountWritten(f, Len(d.elements))
             stride == StrideWritten(f)
             ee     == [e EXCEPT !.count = count, !.stride = stride, !.element = 0]
  <2>1. \/ Stop
        \/ \E n, same : e' = Written(ee, n, same)
        \/ \E x, same : e' = [ee EXCEPT !.out = x, !.same = same]
    BY <1>9 DEF EncodeArray
  <2>2. ASSUME NEW n, NEW same, e' = Written(ee, n, same) PROVE e'.mode = e.mode
    BY <2>2 DEF Written, Encodings
  <2>3. ASSUME NEW x, NEW same, e' = [ee EXCEPT !.out = x, !.same = same] PROVE e'.mode = e.mode
    BY <2>3 DEF Encodings
  <2> HIDE DEF ee
  <2> QED BY <1>2, <2>1, <2>2, <2>3
<1>10. CASE EncodeElement \/ EncodeArrayEnd \/ EncodeEnd
  BY <1>2, <1>10 DEF EncodeElement, EncodeArrayEnd, EncodeEnd, Encodings
<1> QED BY <1>3, <1>4, <1>5, <1>6, <1>7, <1>8, <1>9, <1>10 DEF Encode

\* What is not written could not be.
LEMMA RefusalsAre ==
  ASSUME Given, d \in Decodings, EncoderAt(e, phase), Aligned(e, phase), Encode, phase' = "refused",
         UNCHANGED <<spec, body, d>>, Size <= MaximumLength,
         Preserves /\ body.decimal /\ ~EndsInPart => Keeping /\ Follows(d, e, phase)
  PROVE  RefusedOnly'
<1>1. e \in Encodings /\ phase # "refused"
  BY DEF EncoderAt, Encode, EncodeOffset, EncodePreset, EncodeGroup, EncodeBits, EncodePad,
         EncodeSkip, EncodeVector, EncodeUuid, EncodeBcd, EncodeBinary, EncodeValue, EncodeArray,
         EncodeElement, EncodeArrayEnd, EncodeEnd, Encodes
<1>2. EncodeOffset \/ EncodeBcd \/ EncodeBinary \/ EncodeEnd
  <2>1. ~(EncodePreset \/ EncodeGroup \/ EncodeBits \/ EncodePad \/ EncodeSkip \/ EncodeVector
          \/ EncodeUuid \/ EncodeValue)
    BY <1>1 DEF EncodePreset, EncodeGroup, EncodeBits, EncodePad, EncodeSkip, EncodeVector, EncodeUuid,
       EncodeValue, Put, Reserve, Stop
  <2>2. ~(EncodeArray \/ EncodeElement \/ EncodeArrayEnd)
    BY <1>1 DEF EncodeArray, EncodeElement, EncodeArrayEnd, Stop
  <2> QED BY <2>1, <2>2 DEF Encode
<1>3. CASE EncodeOffset
  <2> DEFINE i == e.at
  <2>1. /\ Encodes({"offset"}) /\ e.out # Fields[i].offset
    BY <1>1, <1>3 DEF EncodeOffset, Put
  <2>2. /\ phase = "encode" /\ ~e.stopped /\ i \in 1 .. Len(Fields) /\ i \in DOMAIN Fields
        /\ Fields[i].kind = "offset" /\ i \in 1 .. Len(Fields) + 1
    BY <2>1, FieldsOfGiven DEF Encodes, EncoderAt
  <2>3. \A j \in 1 .. i - 1 : IsFixed(Fields[j])
    BY <2>2 DEF Given, WellFormed, FieldRules, Fields
  <2>4. Placed(e)
    BY <2>2, <2>3 DEF Aligned
  <2>5. At(i).taken = 0
    BY <2>2, BeginsWhole
  <2>6. e.out = Byte(i) /\ Byte(i) = Fields[i].offset
    BY <1>1, <2>2, <2>4, <2>5, PlacedOut, OffsetPlaces
  <2> QED BY <2>1, <2>6
<1>4. CASE EncodeBcd
  <2>1. ~body.decimal
    BY <1>1, <1>4 DEF EncodeBcd, Put, Stop
  <2> QED BY <2>1 DEF RefusedOnly
<1>5. CASE EncodeBinary
  <2>1. d.kept > 0 /\ ~d.data
    BY <1>1, <1>5 DEF EncodeBinary, Put
  <2> QED BY <2>1 DEF RefusedOnly
<1>6. CASE EncodeEnd
  <2> DEFINE out == e.out + Remaining
  <2>1. out > MaximumLength /\ e' = [e EXCEPT !.out = out, !.same = @ /\ (Preserves => out = body.length)]
    BY <1>6 DEF EncodeEnd
  <2> HIDE DEF out
  <2>2. e'.out = out
    BY <1>1, <2>1 DEF Encodings
  <2>3. e'.mode = e.mode
    BY <1>1, EncodeMode
  <2>4. EndsInPart' <=> EndsInPart
    BY DEF EndsInPart, Fields
  <2>5. CASE Preserves /\ body.decimal /\ ~EndsInPart
    <3>1. e'.out = Size /\ Size \in Nat
      BY <1>6, <2>5, EndFollows DEF Given, Body, Size
    <3> QED BY <2>1, <2>2, <3>1 DEF MaximumLength
  <2>6. CASE ~body.decimal
    BY <2>6 DEF RefusedOnly
  <2>7. CASE ~Preserves \/ EndsInPart
    <3>1. TooLong'
      BY <2>1, <2>2, <2>3, <2>4, <2>7 DEF TooLong, Preserves
    <3> QED BY <3>1 DEF RefusedOnly
  <2> QED BY <2>5, <2>6, <2>7
<1> QED BY <1>2, <1>3, <1>4, <1>5, <1>6

LEMMA TrackingEncodes == Tracking /\ Encode => Tracking'
<1> SUFFICES ASSUME Tracking, Encode PROVE Tracking'
    OBVIOUS
<1>1. /\ phase \in {"encode", "encode_elements"}
      /\ UNCHANGED <<entity, spec, table, body, round, d, first>>
  BY DEF Encode, EncodeOffset, EncodePreset, EncodeGroup, EncodeBits, EncodePad,
         EncodeSkip, EncodeVector, EncodeUuid, EncodeBcd, EncodeBinary, EncodeValue, EncodeArray,
         EncodeElement, EncodeArrayEnd, EncodeEnd, Encodes
<1>2. /\ Given /\ d \in Decodings /\ EncoderAt(e, phase) /\ e \in Encodings /\ Aligned(e, phase) /\ Ended(d)
      /\ Size <= MaximumLength /\ Len(d.starts) <= Len(Fields)
  BY <1>1 DEF Tracking, Inv, Encoding, EncoderAt
<1>3. Inv'
  BY EncodeHolds DEF Tracking
<1>4. EncodedOn
  BY <1>2, EncodePlainKeeps, EncodeBitsKeep, EncodeValuesKeep, EncodeValueKeeps,
     EncodeArrayKeeps, EncodeElementsKeep DEF Encode
<1>5. phase' \in Encoding
  BY <1>4 DEF EncodedOn
<1>6. Aligned(e, phase)'
  BY <1>1, <1>2, AlignedOn, SameTrace
<1>7. Ended(d)' /\ Trace(d, phase)' /\ Size' = Size
  BY <1>1, <1>2, <1>5, SameTrace DEF Trace, Encoding, Size
<1>8. Preserves' <=> Preserves
  BY <1>2, EncodeMode DEF Preserves
<1>9. EndsInPart' <=> EndsInPart
  BY <1>1 DEF EndsInPart, Fields
<1>10. Preserves /\ body.decimal /\ ~EndsInPart => Keeping /\ Follows(d, e, phase)
  BY <1>1, <1>2 DEF Tracking, Keeping, Encoding
<1>11. (phase \in Encoding /\ Preserves /\ body.decimal /\ ~EndsInPart => Follows(d, e, phase))'
  <2> SUFFICES ASSUME Preserves, body.decimal, ~EndsInPart PROVE Follows(d, e, phase)'
      BY <1>1, <1>8, <1>9
  <2>1. Follows(d, e', phase')
    BY <1>2, <1>10, FieldFollows, ArrayFollows, ElementFollows, EndFollows DEF Encode, EncodeField
  <2> QED BY <1>1, <2>1, SameTrace
<1>12. RefusedOnly'
  <2>1. CASE phase' = "refused"
    BY <1>1, <1>2, <1>10, <2>1, RefusalsAre
  <2>2. CASE phase' # "refused"
    BY <2>2 DEF RefusedOnly
  <2> QED BY <2>1, <2>2
<1>13. phase' = "encoded" => e'.out <= MaximumLength
  <2> SUFFICES ASSUME phase' = "encoded" PROVE e'.out <= MaximumLength
      OBVIOUS
  <2>1. EncodeEnd
    BY <1>1 DEF Encode, EncodeOffset, EncodePreset, EncodeGroup, EncodeBits, EncodePad,
       EncodeSkip, EncodeVector, EncodeUuid, EncodeBcd, EncodeBinary, EncodeValue, EncodeArray,
       EncodeElement, EncodeArrayEnd, Put, Reserve, Stop, Encodes
  <2> DEFINE out == e.out + Remaining
  <2>2. ~(out > MaximumLength) /\ e' = [e EXCEPT !.out = out, !.same = @ /\ (Preserves => out = body.length)]
    BY <2>1 DEF EncodeEnd
  <2>3. out \in Nat
    BY <1>2, RemainingIs
  <2> HIDE DEF out
  <2>4. e'.out = out
    BY <1>2, <2>2 DEF Encodings
  <2> QED BY <2>2, <2>3, <2>4 DEF MaximumLength
<1> QED BY <1>2, <1>3, <1>6, <1>7, <1>11, <1>12, <1>13 DEF Tracking

LEMMA TrackingStarts == Tracking /\ EncodeStart => Tracking'
<1> SUFFICES ASSUME Tracking, EncodeStart PROVE Tracking'
    OBVIOUS
<1>1. /\ phase = "decoded" /\ phase' = "encode"
      /\ UNCHANGED <<entity, spec, table, body, round, d, first>>
      /\ \/ e' = [NotEncoded EXCEPT !.mode = "preserve"]
         \/ \E v \in WrittenVersions[entity] :
              e' = [NotEncoded EXCEPT !.mode = "canonical", !.version = v]
  BY DEF EncodeStart
<1>2. /\ Given /\ d \in Decodings /\ Trace(d, phase) /\ Size <= MaximumLength
      /\ Len(d.starts) <= Len(Fields)
  BY <1>1 DEF Tracking, Inv
<1>3. Inv'
  BY EncodeHolds DEF Tracking
<1>4. Ended(d)
  BY <1>1, <1>2 DEF Trace
<1>5. Ended(d)' /\ Trace(d, phase)' /\ Size' = Size
  BY <1>1, <1>4, SameTrace DEF Trace, Size
<1>6. e'.at = 1 /\ e'.out = HeaderLength /\ e'.taken = 0
  BY <1>1 DEF NotEncoded
<1>7. Aligned(e, phase)'
  <2> DEFINE ee == e'
  <2>1. ee.at = 1 /\ ee.out = HeaderLength /\ ee.taken = 0
    BY <1>6
  <2> HIDE DEF ee
  <2>2. Aligned(ee, "encode")
    BY <1>2, <2>1, AlignedFirst
  <2>3. Aligned(e', phase')
    BY <1>1, <2>2 DEF ee
  <2> QED BY <1>1, <2>3, SameTrace
<1>8. Preserves' => Follows(d, e, phase)'
  <2> SUFFICES ASSUME Preserves' PROVE Follows(d, e, phase)'
      OBVIOUS
  <2>1. Follows(d, e', phase')
    BY <1>2, <1>4, StartFollows DEF Preserves
  <2> QED BY <1>1, <2>1, SameTrace
<1> QED BY <1>1, <1>2, <1>3, <1>5, <1>7, <1>8 DEF Tracking, RefusedOnly

LEMMA TrackingReread == Tracking /\ Reread => Tracking'
<1> SUFFICES ASSUME Tracking, Reread PROVE Tracking'
    OBVIOUS
<1>1. /\ phase = "encoded" /\ phase' = "start"
      /\ body' = [length |-> e.out, count |-> e.count, stride |-> e.stride,
                  declared |-> d.kept, extended |-> e.extended, decimal |-> TRUE]
  BY DEF Reread
<1>2. Inv'
  BY RereadHolds DEF Tracking
<1>3. Size' <= MaximumLength
  BY <1>1 DEF Tracking, Size
<1>4. Trace(d, phase)' /\ Aligned(e, phase)' /\ RefusedOnly'
  BY <1>1 DEF Trace, Aligned, RefusedOnly
<1> QED BY <1>1, <1>2, <1>3, <1>4 DEF Tracking, Encoding

LEMMA TrackingReleases == Tracking /\ Release => Tracking'
<1> SUFFICES ASSUME Release PROVE Tracking'
    OBVIOUS
<1>1. phase' = "idle" /\ Inv'
  BY ReleaseHolds DEF Release
<1> QED BY <1>1 DEF Tracking, RefusedOnly, Encoding

LEMMA TrackingStutters == Tracking /\ UNCHANGED vars => Tracking'
<1> SUFFICES ASSUME Tracking, UNCHANGED vars PROVE Tracking'
    OBVIOUS
<1>1. /\ entity' = entity /\ spec' = spec /\ table' = table /\ body' = body /\ round' = round
      /\ phase' = phase /\ d' = d /\ e' = e /\ first' = first
  BY DEF vars
<1>2. Inv'
  BY StutterHolds DEF Tracking
<1>3. /\ Trace(d, phase)' <=> Trace(d, phase)
      /\ Ended(d)' <=> Ended(d)
      /\ Follows(d, e, phase)' <=> Follows(d, e, phase)
      /\ Aligned(e, phase)' <=> Aligned(e, phase)
  BY <1>1, SameTrace
<1>4. (EndsInPart' <=> EndsInPart) /\ (Preserves' <=> Preserves) /\ Size' = Size
  BY <1>1 DEF EndsInPart, Fields, Preserves, Size
<1>5. RefusedOnly'
  BY <1>1, <1>4 DEF Tracking, RefusedOnly, TooLong
<1> QED BY <1>1, <1>2, <1>3, <1>4, <1>5 DEF Tracking

LEMMA TrackingHolds == Spec => []Tracking
<1>1. Tracking /\ [Next]_vars => Tracking'
  BY TrackingTake, TrackingDecode, TrackingStarts, TrackingEncodes, TrackingReread, TrackingReleases,
     TrackingStutters DEF Next
<1> QED BY <1>1, TrackingBegins, PTL DEF Spec

\* A structure encoded as it was decoded has the very bytes it was decoded
\* from, whatever its specification and its length, with no exception but
\* the ones the property names: what the decoder remembers of the fields is
\* where they begin, and the encoder comes to the same places.
THEOREM EncodingPreserves == Spec => []Preserved
<1>1. ASSUME Tracking PROVE Preserved
  <2> SUFFICES ASSUME phase = "encoded", Preserves, body.decimal, ~EndsInPart PROVE e.same
      BY DEF Preserved
  <2>1. Follows(d, e, phase)
    BY <1>1 DEF Tracking, Encoding
  <2> QED BY <2>1 DEF Follows
<1> QED BY <1>1, TrackingHolds, PTL

\* Whatever is decoded can be encoded, for reasons of its own data apart:
\* the encoder never comes to a field with a place in the specification
\* elsewhere than there, and what it writes as it was is not longer.
THEOREM RefusalsAreOfData == Spec => []RefusedOnly
<1>1. Tracking => RefusedOnly
  BY DEF Tracking
<1> QED BY <1>1, TrackingHolds, PTL
=============================================================================
