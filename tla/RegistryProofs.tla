--------------------------- MODULE RegistryProofs ---------------------------
(***************************************************************************)
(* Theorems about the registry, for every table, every capacity of the     *)
(* index and every set of references: type correctness, the agreement of   *)
(* the index with the sequence, the verdict of the scan, the destruction   *)
(* of each entity exactly once, that the look-ups through the chains give  *)
(* the answers of RegistryAbs, that each pair of duplicates is reported    *)
(* once, and that an iterator gives the structures its filter matches.     *)
(***************************************************************************)
EXTENDS RegistryIter, Recursions, FiniteSetTheorems, SequenceTheorems, TLAPS

\* How far the scan has got: nothing is registered before it, the next
\* structure to read is the one after the last registered, none of which ends
\* the table, and the verdict is given at the end only.
ScanProgress ==
  /\ Len(sequence) <= Len(table)
  /\ phase = "new" => sequence = <<>> /\ answer = Nothing
  /\ phase \in {"new", "scanning"} =>
       /\ position = Len(sequence) + 1
       /\ status = {}
       /\ limit = 0 \/ Len(sequence) <= limit
       /\ \A e \in 1 .. Len(sequence) : ~IsEnd(e)
  /\ phase = "failed" => status = {}
  /\ phase # "done" => answer = Nothing

Inv == TypeOK /\ ScanProgress /\ IndexFollowsSequence /\ ScanVerdict

-----------------------------------------------------------------------------
LEMMA HashInHashes ==
  ASSUME NEW h \in Nat PROVE Hash(h) \in Hashes
BY CapacityAssumption, SMT DEF Hash, Hashes

LEMMA TableFacts ==
  TypeOK =>
    /\ table \in Seq(Structures)
    /\ Len(table) \in Nat
    /\ Entities = 1 .. Len(table)
    /\ \A e \in Entities : HandleOf(e) \in Nat /\ Hash(HandleOf(e)) \in Hashes
<1> SUFFICES ASSUME TypeOK
             PROVE  /\ table \in Seq(Structures)
                    /\ Len(table) \in Nat
                    /\ Entities = 1 .. Len(table)
                    /\ \A e \in Entities : HandleOf(e) \in Nat /\ Hash(HandleOf(e)) \in Hashes
    OBVIOUS
<1>1. PICK n \in 0 .. MaxLength : table \in [1 .. n -> Structures]
  BY DEF TypeOK, Tables
<1>2. n \in Nat
  BY BoundsAssumption
<1>3. table \in Seq(Structures) /\ Len(table) \in Nat /\ DOMAIN table = 1 .. Len(table)
  BY <1>1, <1>2
<1>4. \A e \in Entities : HandleOf(e) \in Nat
  BY <1>3, HandlesAssumption DEF Entities, HandleOf
<1> QED BY <1>3, <1>4, HashInHashes DEF Entities

LEMMA SequenceFacts ==
  Inv => /\ Len(sequence) \in Nat
         /\ DOMAIN sequence = 1 .. Len(sequence)
         /\ \A k \in 1 .. Len(sequence) : sequence[k] = k /\ k \in Entities
         /\ \A b \in Hashes : /\ index[b] \in Seq(Entities)
                              /\ Len(index[b]) \in Nat
                              /\ DOMAIN index[b] = 1 .. Len(index[b])
BY TableFacts DEF Inv, TypeOK, ScanProgress, IndexFollowsSequence

-----------------------------------------------------------------------------
LEMMA SlotsMembers ==
  ASSUME NEW e
  PROVE  \A s : s \in Slots(e) <=>
           \E b \in Hashes : \E j \in DOMAIN index[b] : index[b][j] = e /\ s = <<b, j>>
BY DEF Slots

\* A registered entity is in one place of the index.
LEMMA PlacedOnce ==
  ASSUME Inv, NEW e \in Entities
  PROVE  /\ e <= Len(sequence) => \E s : Slots(e) = {s}
         /\ ~(e <= Len(sequence)) => Slots(e) = {}
<1>1. Entities = 1 .. Len(table) /\ Len(table) \in Nat /\ Len(sequence) \in Nat
  BY TableFacts, SequenceFacts DEF Inv
<1>2. CASE e <= Len(sequence)
  <2>1. e \in 1 .. Len(sequence)
    BY <1>1, <1>2
  <2>2. PICK k \in DOMAIN Chain(e) : Chain(e)[k] = e
    BY <2>1 DEF Inv, IndexFollowsSequence
  <2> DEFINE h == Hash(HandleOf(e))
  <2>3. h \in Hashes
    BY TableFacts DEF Inv
  <2>4. ASSUME NEW b \in Hashes, NEW j \in DOMAIN index[b], index[b][j] = e
        PROVE  b = h /\ j = k
    <3>1. b = h
      BY <2>4 DEF Inv, IndexFollowsSequence
    <3>2. j \in 1 .. Len(index[h]) /\ k \in 1 .. Len(index[h]) /\ Len(index[h]) \in Nat
      BY <2>2, <2>3, <2>4, <3>1, SequenceFacts DEF Chain
    <3>3. ~(j < k)
      BY <2>2, <2>3, <2>4, <3>1, <3>2, <1>1 DEF Inv, IndexFollowsSequence, Chain
    <3>4. ~(k < j)
      BY <2>2, <2>3, <2>4, <3>1, <3>2, <1>1 DEF Inv, IndexFollowsSequence, Chain
    <3> QED BY <3>1, <3>2, <3>3, <3>4
  <2>5. Slots(e) = {<<h, k>>}
    <3>1. <<h, k>> \in Slots(e)
      BY <2>2, <2>3, SlotsMembers DEF Chain
    <3>2. ASSUME NEW s \in Slots(e) PROVE s = <<h, k>>
      <4>1. PICK b \in Hashes : \E j \in DOMAIN index[b] : index[b][j] = e /\ s = <<b, j>>
        BY SlotsMembers
      <4> QED BY <2>4, <4>1
    <3> HIDE DEF h
    <3> QED BY <3>1, <3>2
  <2> QED BY <1>2, <2>5
<1>3. CASE ~(e <= Len(sequence))
  <2>1. \A b \in Hashes : \A j \in DOMAIN index[b] : index[b][j] # e
    BY <1>3 DEF Inv, IndexFollowsSequence
  <2> QED BY <1>3, <2>1, SlotsMembers
<1> QED BY <1>2, <1>3

LEMMA PlacesCounted ==
  ASSUME Inv, NEW e \in Entities
  PROVE  Cardinality(Slots(e)) = IF e <= Len(sequence) THEN 1 ELSE 0
BY PlacedOnce, FS_EmptySet, FS_Singleton

-----------------------------------------------------------------------------
\* The invariant is established, and kept by every action.
LEMMA InvInit == Init => Inv
<1> SUFFICES ASSUME Init PROVE Inv
    OBVIOUS
<1>1. PICK n \in 0 .. MaxLength : table \in [1 .. n -> Structures]
  BY DEF Init, Tables
<1>2. n \in Nat /\ Len(table) = n /\ Entities = 1 .. n
  BY <1>1, BoundsAssumption DEF Entities
<1>3. sequence \in Seq(Entities) /\ Len(sequence) = 0 /\ DOMAIN sequence = {}
  BY DEF Init
<1>4. \A b \in Hashes : index[b] = <<>> /\ DOMAIN index[b] = {}
  BY DEF Init
<1>5. TypeOK
  BY <1>2, <1>3, <1>4 DEF Init, TypeOK, Entities
<1>6. ScanProgress
  BY <1>2, <1>3, BoundsAssumption DEF Init, ScanProgress
<1>7. IndexFollowsSequence
  BY <1>3, <1>4 DEF Init, IndexFollowsSequence
<1>8. ScanVerdict
  BY DEF Init, ScanVerdict
<1> QED BY <1>5, <1>6, <1>7, <1>8 DEF Inv

\* What only the registration of an entity changes.
Contents == <<data, index, sequence>>

LEMMA IndexUnchanged ==
  ASSUME Inv, UNCHANGED Contents PROVE IndexFollowsSequence'
BY DEF Inv, IndexFollowsSequence, Contents, data, Chain, HandleOf, Hashes, Hash

LEMMA VerdictUnchanged ==
  ASSUME Inv, UNCHANGED Contents, status' = status, count' = count PROVE ScanVerdict'
BY DEF Inv, ScanVerdict, Wanted, IsEnd, IdOf, Contents, data

LEMMA StartScanInv == ASSUME Inv, StartScan PROVE Inv'
<1>1. UNCHANGED Contents
  BY DEF StartScan, Contents
<1>2. TypeOK'
  BY DEF Inv, TypeOK, StartScan, data, Entities
<1>3. ScanProgress'
  BY DEF Inv, ScanProgress, StartScan, data, IsEnd, IdOf
<1>4. status' = status /\ count' = count
  BY DEF StartScan
<1> QED BY <1>1, <1>2, <1>3, <1>4, IndexUnchanged, VerdictUnchanged DEF Inv

LEMMA FailInv ==
  ASSUME Inv, phase = "scanning", Fail, UNCHANGED <<index, sequence>>,
         freed' \in [Entities -> Nat]
  PROVE  Inv'
<1>1. UNCHANGED Contents
  BY DEF Fail, Contents
<1>2. TypeOK'
  BY DEF Inv, TypeOK, Fail, data, Entities
<1>3. ScanProgress'
  BY DEF Inv, ScanProgress, Fail, data, IsEnd, IdOf
<1>4. status' = status /\ count' = count
  BY DEF Fail
<1> QED BY <1>1, <1>2, <1>3, <1>4, IndexUnchanged, VerdictUnchanged DEF Inv

\* The scan stops before it has met an end of the table.
LEMMA StopInv ==
  ASSUME Inv, phase = "scanning", UNCHANGED <<index, sequence>>,
         NEW flags \in {{}, {"Truncated"}},
         Finish(Len(sequence), flags),
         \/ flags = {} /\ limit # 0 /\ Len(sequence) = limit
         \/ /\ flags = {"Truncated"}
            /\ position > Len(table)
            /\ limit = 0 \/ Len(sequence) < limit
  PROVE  Inv'
<1> DEFINE n == Len(sequence)
<1>1. UNCHANGED Contents
  BY DEF Finish, Contents
<1>2. n \in Nat /\ Len(table) \in Nat /\ limit \in Nat /\ n <= Len(table)
  BY TableFacts, SequenceFacts, BoundsAssumption DEF Inv, TypeOK, ScanProgress
<1>3. TypeOK'
  <2>1. count' \in 0 .. Len(table) /\ status' \subseteq {"Scanned", "Truncated"}
    <3>1. count' = n /\ status' = status \cup flags \cup {"Scanned"}
      BY DEF Finish
    <3>2. flags \subseteq {"Scanned", "Truncated"} /\ status \subseteq {"Scanned", "Truncated"}
      BY Zenon DEF Inv, TypeOK
    <3> QED BY <1>2, <3>1, <3>2
  <2>2. UNCHANGED <<table, ending, limit, strict, opened, position, index, sequence, answer, freed>>
        /\ phase' = "done"
    BY DEF Finish, data
  <2> QED BY <2>1, <2>2 DEF Inv, TypeOK, Entities
<1>4. ScanProgress'
  BY DEF Inv, ScanProgress, Finish, data
<1>5. /\ position = n + 1
      /\ status = {}
      /\ limit = 0 \/ n <= limit
      /\ \A e \in 1 .. n : ~IsEnd(e)
  BY DEF Inv, ScanProgress
<1>6. Wanted(n) /\ ~Wanted(n + 1)
  BY <1>2, <1>5 DEF Wanted
<1>7. "Truncated" \in status' <=> ~(n = limit /\ n > 0) /\ ~(n > 0 /\ IsEnd(n))
  BY <1>2, <1>5 DEF Finish
<1>8. ScanVerdict'
  <2>1. Wanted(n)' /\ ~Wanted(n + 1)' /\ n' = n /\ limit' = limit /\ (IsEnd(n))' = IsEnd(n)
    BY <1>1, <1>6 DEF Wanted, IsEnd, IdOf, Contents, data
  <2>2. count' = n
    BY DEF Finish
  <2> QED BY <1>7, <2>1, <2>2 DEF ScanVerdict
<1> QED BY <1>1, <1>3, <1>4, <1>8, IndexUnchanged DEF Inv

\* Registering the structure at the offset adds it to the end of the sequence
\* and of its chain.
LEMMA PutIndex ==
  ASSUME Inv, phase = "scanning", position <= Len(table), Put(position), UNCHANGED data
  PROVE  /\ sequence' \in Seq(Entities) /\ index' \in [Hashes -> Seq(Entities)]
         /\ Len(sequence') = Len(sequence) + 1
         /\ IndexFollowsSequence'
<1> DEFINE n == Len(sequence)
           e == position
           h == Hash(HandleOf(e))
<1>1. n \in Nat /\ Len(table) \in Nat /\ e = n + 1 /\ e \in Entities
  BY TableFacts, SequenceFacts DEF Inv, ScanProgress
<1>2. h \in Hashes
  BY <1>1, TableFacts DEF Inv
<1>3. index \in [Hashes -> Seq(Entities)] /\ sequence \in Seq(Entities)
  BY DEF Inv, TypeOK
<1>4. sequence' = Append(sequence, e) /\ index' = [index EXCEPT ![h] = Append(index[h], e)]
  BY DEF Put, Chain
<1>5. sequence' \in Seq(Entities) /\ index' \in [Hashes -> Seq(Entities)] /\ Len(sequence') = n + 1
  BY <1>1, <1>2, <1>3, <1>4
<1>6. \A d \in Entities : HandleOf(d)' = HandleOf(d)
  BY DEF HandleOf, data
<1>7. \A k \in DOMAIN sequence' : sequence'[k] = k
  BY <1>1, <1>3, <1>4, <1>5, SequenceFacts
<1>8. ASSUME NEW b \in Hashes, NEW k \in DOMAIN index'[b]
      PROVE  /\ index'[b][k] <= n + 1
             /\ Hash(HandleOf(index'[b][k])) = b
             /\ \A m \in 1 .. (k - 1) : index'[b][m] < index'[b][k]
  <2>1. CASE b # h
    <3>1. index'[b] = index[b]
      BY <2>1, <1>3, <1>4
    <3>2. index[b][k] \in Entities
      BY <3>1, <1>8, SequenceFacts
    <3> QED BY <3>1, <3>2, <1>1, <1>8, TableFacts DEF Inv, IndexFollowsSequence
  <2>2. CASE b = h
    <3>1. /\ index'[h] = Append(index[h], e)
          /\ index[h] \in Seq(Entities)
          /\ Len(index[h]) \in Nat
          /\ DOMAIN index[h] = 1 .. Len(index[h])
      BY <1>2, <1>3, <1>4, SequenceFacts
    <3>2. k \in 1 .. Len(index[h]) + 1
      BY <2>2, <3>1, <1>1, <1>8
    <3>3. \A m \in 1 .. Len(index[h]) :
            /\ index'[h][m] = index[h][m]
            /\ index[h][m] \in Entities
            /\ index[h][m] <= n
      BY <3>1, <1>1, <1>2 DEF Inv, IndexFollowsSequence
    <3>4. CASE k = Len(index[h]) + 1
      <4>1. index'[h][k] = e
        BY <3>1, <3>4, <1>1
      <4>2. \A m \in 1 .. (k - 1) : index'[h][m] < e
        BY <3>1, <3>3, <3>4, <1>1, TableFacts DEF Inv
      <4> QED BY <2>2, <4>1, <4>2, <1>1
    <3>5. CASE k \in 1 .. Len(index[h])
      <4>1. index'[h][k] = index[h][k] /\ index[h][k] \in Nat /\ index[h][k] <= n
        BY <3>3, <3>5, TableFacts DEF Inv
      <4>2. Hash(HandleOf(index[h][k])) = h
        BY <1>2, <3>1, <3>5 DEF Inv, IndexFollowsSequence
      <4>3. \A m \in 1 .. (k - 1) : index'[h][m] < index'[h][k]
        BY <1>2, <3>1, <3>3, <3>5 DEF Inv, IndexFollowsSequence
      <4> QED BY <2>2, <4>1, <4>2, <4>3, <1>1
    <3> QED BY <3>1, <3>2, <3>4, <3>5
  <2> QED BY <2>1, <2>2
<1>9. ASSUME NEW d \in 1 .. n + 1
      PROVE  \E k \in DOMAIN index'[Hash(HandleOf(d))] : index'[Hash(HandleOf(d))][k] = d
  <2>1. d \in Entities /\ Hash(HandleOf(d)) \in Hashes
    BY <1>1, TableFacts DEF Inv
  <2>2. CASE d = n + 1
    <3>1. index'[h] = Append(index[h], e) /\ index[h] \in Seq(Entities)
      BY <1>2, <1>3, <1>4
    <3>2. Len(index[h]) + 1 \in DOMAIN index'[h] /\ index'[h][Len(index[h]) + 1] = e
      BY <3>1, <1>1
    <3> QED BY <2>2, <3>2, <1>1
  <2>3. CASE d \in 1 .. n
    <3> DEFINE g == Hash(HandleOf(d))
    <3>1. PICK k \in DOMAIN index[g] : index[g][k] = d
      BY <2>3 DEF Inv, IndexFollowsSequence, Chain
    <3>2. index[g] \in Seq(Entities) /\ k \in 1 .. Len(index[g]) /\ Len(index[g]) \in Nat
      BY <2>1, <3>1, SequenceFacts
    <3>3. index'[g] = index[g] \/ index'[g] = Append(index[g], e)
      BY <2>1, <1>2, <1>3, <1>4
    <3>4. k \in DOMAIN index'[g] /\ index'[g][k] = d
      BY <1>1, <3>1, <3>2, <3>3
    <3> QED BY <3>4
  <2> QED BY <1>1, <2>2, <2>3
<1>10. \A b \in Hashes : \A k \in DOMAIN index'[b] : index'[b][k] \in Entities
  BY <1>5
<1>11. IndexFollowsSequence'
  <2>1. table' = table
    BY DEF data
  <2>2. \A k \in DOMAIN sequence' : sequence'[k] = k
    BY <1>7
  <2>3. \A b \in Hashes : \A k \in DOMAIN index'[b] :
          /\ index'[b][k] <= Len(sequence')
          /\ Hash(table'[index'[b][k]].handle) = b
          /\ \A m \in 1 .. (k - 1) : index'[b][m] < index'[b][k]
    BY <1>5, <1>8, <2>1 DEF HandleOf
  <2>4. \A d \in 1 .. Len(sequence') :
          \E k \in DOMAIN index'[Hash(table'[d].handle)] : index'[Hash(table'[d].handle)][k] = d
    BY <1>5, <1>9, <2>1 DEF HandleOf
  <2> HIDE DEF n, e, h
  <2> QED BY <2>2, <2>3, <2>4, Zenon DEF IndexFollowsSequence, Chain, HandleOf, Hashes, Hash
<1> QED BY <1>5, <1>11

LEMMA RegisterInv == ASSUME Inv, Register PROVE Inv'
<1> DEFINE n == Len(sequence)
<1>1. /\ phase = "scanning" /\ position <= Len(table) /\ Put(position)
      /\ limit = 0 \/ n < limit
      /\ UNCHANGED <<data, strict, opened, answer, freed>>
  BY DEF Register, Within, Finish
<1>2. /\ sequence' \in Seq(Entities) /\ index' \in [Hashes -> Seq(Entities)]
      /\ Len(sequence') = n + 1
      /\ IndexFollowsSequence'
  BY <1>1, PutIndex
<1>3. /\ n \in Nat /\ Len(table) \in Nat /\ limit \in Nat /\ position = n + 1
      /\ status = {}
      /\ \A e \in 1 .. n : ~IsEnd(e)
  BY <1>1, TableFacts, SequenceFacts, BoundsAssumption DEF Inv, TypeOK, ScanProgress
<1>4. \A e \in 1 .. n + 1 : IsEnd(e)' = IsEnd(e)
  BY <1>1 DEF IsEnd, IdOf, data
<1>5. CASE IsEnd(position) /\ Finish(n + 1, {})
  <2>1. phase' = "done" /\ count' = n + 1 /\ status' = {"Scanned"} /\ position' = position
    BY <1>3, <1>5 DEF Finish
  <2>2. TypeOK'
    BY <1>1, <1>2, <1>3, <2>1 DEF Inv, TypeOK, data, Entities
  <2>3. ScanProgress'
    BY <1>1, <1>2, <1>3, <2>1 DEF ScanProgress, data
  <2>4. ScanVerdict'
    <3>1. PICK m \in Nat : m = n + 1
      BY <1>3
    <3>2. IsEnd(m)' /\ Len(sequence') = m /\ m > 0
      BY <1>2, <1>3, <1>5, <3>1 DEF IsEnd, IdOf, Register, Finish, data
    <3>3. \A e \in 1 .. (m - 1) : ~IsEnd(e)'
      BY <1>3, <1>4, <3>1
    <3>4. Wanted(m)'
      BY <1>1, <1>3, <3>1, <3>3 DEF Wanted, data
    <3>5. ~Wanted(m + 1)'
      BY <3>2 DEF Wanted
    <3> HIDE DEF n
    <3> QED BY <2>1, <3>1, <3>2, <3>4, <3>5 DEF ScanVerdict
  <2> QED BY <1>2, <2>2, <2>3, <2>4 DEF Inv
<1>6. CASE ~IsEnd(position) /\ position' = position + 1 /\ UNCHANGED <<phase, count, status>>
  <2>1. TypeOK'
    BY <1>1, <1>2, <1>3, <1>6 DEF Inv, TypeOK, data, Entities
  <2>2. ScanProgress'
    <3>1. \A e \in 1 .. n + 1 : ~IsEnd(e)'
      BY <1>3, <1>4, <1>6
    <3> QED BY <1>1, <1>2, <1>3, <1>6, <3>1 DEF Inv, ScanProgress, data
  <2>3. ScanVerdict'
    BY <1>3, <1>6 DEF ScanVerdict
  <2> QED BY <1>2, <2>1, <2>2, <2>3 DEF Inv
<1> QED BY <1>5, <1>6 DEF Register

LEMMA ScanInv == ASSUME Inv, Scan PROVE Inv'
<1>1. CASE StopAtLimit
  BY <1>1, StopInv DEF StopAtLimit
<1>2. CASE StopAtTail
  BY <1>2, StopInv DEF StopAtTail, Within
<1>3. CASE StopAtCut
  BY <1>3, StopInv DEF StopAtCut, Within
<1>0. freed \in [Entities -> Nat]
  BY DEF Inv, TypeOK
<1>4. CASE StopAtShort
  BY <1>0, <1>4, StopInv, FailInv DEF StopAtShort, Within
<1>5. CASE CreateFails
  BY <1>0, <1>5, FailInv DEF CreateFails, Within
<1>6. CASE PutFails
  <2>1. position \in Entities /\ freed[position] + 1 \in Nat
    BY <1>0, <1>6, TableFacts DEF PutFails, Inv, TypeOK
  <2>2. freed' \in [Entities -> Nat]
    BY <1>0, <1>6, <2>1 DEF PutFails
  <2> QED BY <1>6, <2>2, FailInv DEF PutFails, Within
<1>7. CASE Register
  BY <1>7, RegisterInv
<1> QED BY <1>1, <1>2, <1>3, <1>4, <1>5, <1>6, <1>7 DEF Scan

\* A look-up only gives an answer.
LEMMA GiveInv ==
  ASSUME Inv, phase = "done", NEW a \in Answers \cup {Nothing}, Give(a) PROVE Inv'
<1>1. UNCHANGED Contents
  BY DEF Give, Contents
<1>2. TypeOK'
  BY DEF Inv, TypeOK, Give, data, Entities
<1>3. ScanProgress'
  BY DEF Inv, ScanProgress, Give, data, IsEnd, IdOf
<1>4. status' = status /\ count' = count
  BY DEF Give
<1> QED BY <1>1, <1>2, <1>3, <1>4, IndexUnchanged, VerdictUnchanged DEF Inv

LEMMA AnswersTyped ==
  ASSUME NEW h \in Nat \cup {Nothing}, NEW got \in Nat \cup {Nothing}, NEW errors \in ErrorLists
  PROVE  [handle |-> h, got |-> got, errors |-> errors] \in Answers
BY DEF Answers

\* Every look-up gives one answer.
LEMMA QueryGives ==
  ASSUME Inv, Query PROVE phase = "done" /\ answer = Nothing /\ \E a \in Answers : Give(a)
<1>1. References \subseteq Nat /\ Entities \subseteq Nat
  BY HandlesAssumption, TableFacts DEF Inv
<1>2. <<>> \in ErrorLists /\ <<"NotFound">> \in ErrorLists /\ <<"TypeInvalid">> \in ErrorLists
  BY DEF ErrorLists
<1>3. ASSUME NEW h \in References, NEW types, NEW optional, Lookup(h, types, optional)
      PROVE  Usable /\ \E a \in Answers : Give(a)
  BY <1>1, <1>3, AnswersTyped DEF Lookup, Answer
<1>4. ASSUME NEW h \in References, NEW types, Resolve(h, types)
      PROVE  Usable /\ \E a \in Answers : Give(a)
  BY <1>1, <1>4, AnswersTyped DEF Resolve, Answer
<1>5. ASSUME NEW h \in References, NEW id, ResolveId(h, id)
      PROVE  Usable /\ \E a \in Answers : Give(a)
  BY <1>1, <1>2, <1>5, AnswersTyped DEF ResolveId, Answer
<1>6. ASSUME NEW fitting, NEW optional, LookupFirst(fitting, optional)
      PROVE  Usable /\ \E a \in Answers : Give(a)
  BY <1>1, <1>2, <1>6, AnswersTyped, SequenceFacts DEF LookupFirst, Answer
<1> QED BY <1>3, <1>4, <1>5, <1>6, Zenon DEF Query, Usable

LEMMA DestroyInv == ASSUME Inv, Destroy PROVE Inv'
<1>1. UNCHANGED Contents
  BY DEF Destroy, Contents
<1>2. freed' \in [Entities -> Nat]
  BY PlacesCounted DEF Destroy, Inv, TypeOK
<1>3. TypeOK'
  BY <1>2 DEF Inv, TypeOK, Destroy, data, Entities
<1>4. ScanProgress'
  BY DEF Inv, ScanProgress, Destroy, data
<1>5. status' = status /\ count' = count
  BY DEF Destroy
<1> QED BY <1>1, <1>3, <1>4, <1>5, IndexUnchanged, VerdictUnchanged DEF Inv

LEMMA SetFlagsInv == ASSUME Inv, SetFlags PROVE Inv'
<1>1. UNCHANGED Contents
  BY DEF SetFlags, Contents
<1>2. TypeOK'
  BY DEF Inv, TypeOK, SetFlags, data, Entities
<1>3. ScanProgress'
  BY DEF Inv, ScanProgress, SetFlags, data, IsEnd, IdOf, Usable
<1>4. status' = status /\ count' = count
  BY DEF SetFlags
<1> QED BY <1>1, <1>2, <1>3, <1>4, IndexUnchanged, VerdictUnchanged DEF Inv

LEMMA StutterInv == ASSUME Inv, UNCHANGED vars PROVE Inv'
<1>1. UNCHANGED Contents
  BY DEF vars, Contents
<1>2. TypeOK'
  BY DEF Inv, TypeOK, vars, data, Entities
<1>3. ScanProgress'
  BY DEF Inv, ScanProgress, vars, data, IsEnd, IdOf
<1>4. status' = status /\ count' = count
  BY DEF vars
<1> QED BY <1>1, <1>2, <1>3, <1>4, IndexUnchanged, VerdictUnchanged DEF Inv

LEMMA InvNext == Inv /\ [Next]_vars => Inv'
<1> SUFFICES ASSUME Inv, [Next]_vars PROVE Inv'
    OBVIOUS
<1>1. CASE StartScan
  BY <1>1, StartScanInv
<1>2. CASE Scan
  BY <1>2, ScanInv
<1>3. CASE Query
  BY <1>3, QueryGives, GiveInv
<1>4. CASE TakeAnswer
  BY <1>4, GiveInv DEF TakeAnswer
<1>5. CASE SetFlags
  BY <1>5, SetFlagsInv
<1>6. CASE Destroy
  BY <1>6, DestroyInv
<1>7. CASE UNCHANGED vars
  BY <1>7, StutterInv
<1> QED BY <1>1, <1>2, <1>3, <1>4, <1>5, <1>6, <1>7 DEF Next

LEMMA InvAlways == Spec => []Inv
BY InvInit, InvNext, PTL DEF Spec

-----------------------------------------------------------------------------
\* The variables keep their types.
THEOREM TypeCorrect == Spec => []TypeOK
<1>1. Inv => TypeOK
  BY DEF Inv
<1> QED BY <1>1, InvAlways, PTL

\* Whatever the handles of the table and the capacity of the index, the index
\* holds each registered entity in the chain of its handle, in table order.
THEOREM IndexAgreesWithSequence == Spec => []IndexFollowsSequence
<1>1. Inv => IndexFollowsSequence
  BY DEF Inv
<1> QED BY <1>1, InvAlways, PTL

\* A scan that succeeds has registered exactly the structures that can be
\* reached, and says rightly whether the table was cut short.
THEOREM ScanIsComplete == Spec => []ScanVerdict
<1>1. Inv => ScanVerdict
  BY DEF Inv
<1> QED BY <1>1, InvAlways, PTL

-----------------------------------------------------------------------------
\* The look-ups through the index give the answers of the abstract registry.

LEMMA AbsPositions ==
  ASSUME Inv, phase = "done"
  PROVE  /\ DOMAIN Known = 1 .. Len(sequence)
         /\ \A h : Abs!OfHandle(h) = {p \in 1 .. Len(sequence) : HandleOf(p) = h}
         /\ \A types : Abs!OfTypes(types) = {p \in 1 .. Len(sequence) : Accepts(types, p)}
         /\ \A type : Abs!OfType(type) = {p \in 1 .. Len(sequence) : TypeOf(p) = type}
         /\ \A id : Abs!OfId(id) = {p \in 1 .. Len(sequence) : IdOf(p) = id}
<1>1. /\ DOMAIN Known = 1 .. Len(sequence)
      /\ \A p \in 1 .. Len(sequence) : Known[p] = table[p]
  BY SequenceFacts DEF Known, Registered
<1>2. \A h : Abs!OfHandle(h) = {p \in 1 .. Len(sequence) : HandleOf(p) = h}
  BY <1>1 DEF Abs!OfHandle, HandleOf
<1>3. \A types : Abs!OfTypes(types) = {p \in 1 .. Len(sequence) : Accepts(types, p)}
  BY <1>1 DEF Abs!OfTypes, Accepts, TypeOf
<1>4. \A type : Abs!OfType(type) = {p \in 1 .. Len(sequence) : TypeOf(p) = type}
  BY <1>1 DEF Abs!OfType, TypeOf
<1>5. \A id : Abs!OfId(id) = {p \in 1 .. Len(sequence) : IdOf(p) = id}
  BY <1>1 DEF Abs!OfId, IdOf
<1> QED BY <1>1, <1>2, <1>3, <1>4, <1>5

LEMMA WalkEndsNowhere ==
  ASSUME Inv, phase = "done", NEW h \in Nat, WalkEnds(h)
  PROVE  Abs!OfHandle(h) = {}
<1> SUFFICES ASSUME NEW e \in 1 .. Len(sequence), HandleOf(e) = h PROVE FALSE
    BY AbsPositions
<1>1. \E k \in DOMAIN Chain(e) : Chain(e)[k] = e
  BY DEF Inv, IndexFollowsSequence
<1> QED BY <1>1 DEF WalkEnds, Chain

LEMMA WalkFindsFirst ==
  ASSUME Inv, phase = "done", NEW h \in Nat, NEW e \in Entities, WalkFinds(h, e)
  PROVE  e \in Abs!OfHandle(h) /\ Abs!IsFirst(e, Abs!OfHandle(h))
<1> DEFINE chain == index[Hash(h)]
<1>1. PICK k \in DOMAIN chain :
        chain[k] = e /\ HandleOf(e) = h /\ \A m \in 1 .. (k - 1) : HandleOf(chain[m]) # h
  BY DEF WalkFinds
<1>2. Hash(h) \in Hashes
  BY HashInHashes
<1>3. e \in Nat /\ e \in 1 .. Len(sequence) /\ Len(sequence) \in Nat
      /\ DOMAIN chain = 1 .. Len(chain) /\ Len(chain) \in Nat
  BY <1>1, <1>2, TableFacts, SequenceFacts DEF Inv, IndexFollowsSequence
<1>4. ASSUME NEW q \in 1 .. Len(sequence), HandleOf(q) = h PROVE e <= q
  <2>1. PICK m \in DOMAIN chain : chain[m] = q
    BY <1>4 DEF Inv, IndexFollowsSequence, Chain
  <2>2. ~(m < k)
    BY <1>1, <1>3, <1>4, <2>1
  <2>3. CASE m = k
    BY <1>1, <1>3, <2>1, <2>3
  <2>4. CASE k < m
    <3>1. k \in 1 .. (m - 1)
      BY <1>1, <1>3, <2>1, <2>4
    <3>2. chain[k] < chain[m]
      BY <1>2, <2>1, <3>1 DEF Inv, IndexFollowsSequence
    <3> QED BY <1>1, <1>3, <2>1, <3>2
  <2> QED BY <1>1, <1>3, <2>1, <2>2, <2>3, <2>4
<1>5. Abs!OfHandle(h) = {p \in 1 .. Len(sequence) : HandleOf(p) = h}
  BY AbsPositions
<1> QED BY <1>1, <1>3, <1>4, <1>5 DEF Abs!IsFirst

\* An answer of the registry is an answer of the abstract one.
LEMMA AnswerMaps ==
  ASSUME Inv, phase = "done", answer = Nothing,
         NEW h \in Nat \cup {Nothing}, NEW got \in Nat \cup {Nothing}, NEW errors \in ErrorLists,
         Answer(h, got, errors)
  PROVE  Abs!Answer(h, got, errors # <<>>)
<1>1. answer' \in Answers /\ answer' = [handle |-> h, got |-> got, errors |-> errors]
  BY AnswersTyped DEF Answer, Give
<1>2. answer' # Nothing
  BY <1>1, NothingAssumption
<1>3. /\ phase' = "done" /\ table' = table /\ sequence' = sequence
      /\ strict' = strict /\ opened' = opened
  BY DEF Answer, Give, data
<1>4. Known' = Known
  BY <1>3 DEF Known, Registered
<1>5. Given' = [handle |-> h, got |-> got, reported |-> errors # <<>>]
  BY <1>1, <1>2 DEF Given
<1>6. Given = Nothing
  BY DEF Given
<1> QED BY <1>3, <1>4, <1>5, <1>6 DEF Abs!Answer

LEMMA LookupMaps ==
  ASSUME Inv, Usable, NEW h \in References, NEW types, NEW optional \in BOOLEAN,
         NEW got \in Entities \cup {Nothing}, NEW errors \in ErrorLists,
         LookupGives(h, types, optional, got, errors), Answer(h, got, errors)
  PROVE  Abs!AskType(h, types, optional)
<1>1. h \in Nat /\ Entities \subseteq Nat
  BY HandlesAssumption, TableFacts DEF Inv
<1>2. Abs!Answer(h, got, errors # <<>>)
  BY <1>1, AnswerMaps DEF Usable
<1>3. phase = "done"
  BY DEF Usable
<1>4. <<"NotFound">> # <<>> /\ <<"TypeInvalid">> # <<>>
  OBVIOUS
<1>5. CASE h \in Reserved /\ got = Nothing /\ errors = <<>>
  BY <1>2, <1>5 DEF Abs!AskType, Abs!AskHandle
<1>6. CASE /\ h \notin Reserved /\ WalkEnds(h) /\ got = Nothing
           /\ errors = IF optional THEN <<>> ELSE <<"NotFound">>
  <2>1. Abs!OfHandle(h) = {}
    BY <1>1, <1>3, <1>6, WalkEndsNowhere
  <2>2. Abs!Answer(h, Nothing, ~optional)
    <3>1. (errors # <<>>) = ~optional
      BY <1>4, <1>6
    <3> QED BY <1>2, <1>6, <3>1
  <2> QED BY <1>6, <2>1, <2>2 DEF Abs!AskType, Abs!AskHandle
<1>7. CASE /\ h \notin Reserved
           /\ \E e \in Entities :
                /\ WalkFinds(h, e)
                /\ IF Accepts(types, e)
                     THEN got = e /\ errors = <<>>
                     ELSE got = Nothing
                          /\ errors = IF Excused(h) THEN <<>> ELSE <<"TypeInvalid">>
  <2>1. PICK e \in Entities :
                /\ WalkFinds(h, e)
                /\ IF Accepts(types, e)
                     THEN got = e /\ errors = <<>>
                     ELSE got = Nothing
                          /\ errors = IF Excused(h) THEN <<>> ELSE <<"TypeInvalid">>
    BY <1>7
  <2>2. e \in Abs!OfHandle(h) /\ Abs!IsFirst(e, Abs!OfHandle(h))
    BY <1>1, <1>3, <2>1, WalkFindsFirst
  <2>3. Accepts(types, e) <=> e \in Abs!OfTypes(types)
    BY <1>3, <2>2, AbsPositions
  <2>4. CASE Accepts(types, e)
    <3>1. Abs!Answer(h, e, FALSE)
      BY <1>2, <2>1, <2>4
    <3> QED BY <1>7, <2>2, <2>3, <2>4, <3>1 DEF Abs!AskType, Abs!AskHandle
  <2>5. CASE ~Accepts(types, e)
    <3>1. (errors # <<>>) = ~Abs!Excused(h, strict)
      BY <1>4, <2>1, <2>5 DEF Excused, Abs!Excused
    <3>2. Abs!Answer(h, Nothing, ~Abs!Excused(h, strict)) /\ strict \in Abs!Modes
      BY <1>2, <2>1, <2>5, <3>1 DEF Abs!Modes
    <3> QED BY <1>7, <2>2, <2>3, <2>5, <3>2 DEF Abs!AskType, Abs!AskHandle
  <2> QED BY <2>4, <2>5
<1> QED BY <1>5, <1>6, <1>7 DEF LookupGives

LEMMA ResolveMaps ==
  ASSUME Inv, NEW h \in References, NEW types, Resolve(h, types)
  PROVE  Abs!AskType(h, types, FALSE)
<1>1. PICK got \in Entities \cup {Nothing}, errors \in ErrorLists :
        /\ IF types = {} /\ h \notin Reserved
             THEN got = Nothing /\ errors = <<"ArgumentInvalid">>
             ELSE LookupGives(h, types, FALSE, got, errors)
        /\ Answer(h, got, errors)
  BY DEF Resolve
<1>2. CASE types = {} /\ h \notin Reserved
  <2>1. phase = "done" /\ answer = Nothing /\ h \in Nat
    BY HandlesAssumption DEF Resolve, Usable
  <2>2. got \in Nat \cup {Nothing}
    BY <1>1, <1>2
  <2>3. Abs!Answer(h, got, errors # <<>>)
    BY <1>1, <2>1, <2>2, AnswerMaps
  <2>4. (errors # <<>>) = TRUE /\ got = Nothing
    BY <1>1, <1>2
  <2> QED BY <1>2, <2>3, <2>4 DEF Abs!AskType
<1>3. CASE ~(types = {} /\ h \notin Reserved)
  BY <1>1, <1>3, LookupMaps DEF Resolve
<1> QED BY <1>2, <1>3

\* Resolution by a type number looks the handle up whatever its type first.
LEMMA ResolveIdMaps ==
  ASSUME Inv, NEW h \in References, NEW id, ResolveId(h, id)
  PROVE  Abs!AskId(h, id)
<1> DEFINE fitting == IF id = AnyType THEN 1 .. Len(sequence) ELSE Abs!OfId(id)
<1>0. SUFFICES Abs!AskHandle(h, fitting, FALSE)
  <2>1. DOMAIN Known = 1 .. Len(sequence)
    BY AbsPositions DEF ResolveId, Usable
  <2> QED BY <2>1 DEF Abs!AskId
<1>1. PICK any \in Entities \cup {Nothing}, errors \in ErrorLists :
        /\ LookupGives(h, AnyType, FALSE, any, errors)
        /\ IF any = Nothing \/ id = AnyType
             THEN Answer(h, any, errors)
             ELSE IF IdOf(any) = id
                    THEN Answer(h, any, errors)
                    ELSE Answer(h, Nothing, IF Excused(h) THEN <<>> ELSE <<"TypeInvalid">>)
  BY DEF ResolveId
<1>2. /\ phase = "done" /\ answer = Nothing /\ h \in Nat
      /\ Entities \subseteq Nat /\ Nothing \notin Nat
  BY HandlesAssumption, NothingAssumption, TableFacts DEF ResolveId, Usable, Inv
<1>3. <<"NotFound">> # <<>> /\ <<"TypeInvalid">> # <<>>
      /\ <<>> \in ErrorLists /\ <<"TypeInvalid">> \in ErrorLists
  BY DEF ErrorLists
<1> HIDE DEF fitting
<1>4. CASE any = Nothing
  <2>1. Abs!Answer(h, Nothing, errors # <<>>)
    BY <1>1, <1>2, <1>4, AnswerMaps
  <2>2. \/ h \in Reserved /\ errors = <<>>
        \/ h \notin Reserved /\ WalkEnds(h) /\ errors = <<"NotFound">>
    BY <1>1, <1>2, <1>4 DEF LookupGives, Accepts
  <2>3. CASE h \in Reserved /\ errors = <<>>
    BY <2>1, <2>3 DEF Abs!AskHandle
  <2>4. CASE h \notin Reserved /\ WalkEnds(h) /\ errors = <<"NotFound">>
    <3>1. (errors # <<>>) = ~FALSE
      BY <1>3, <2>4
    <3>2. Abs!OfHandle(h) = {}
      BY <1>2, <2>4, WalkEndsNowhere
    <3> QED BY <2>1, <2>4, <3>1, <3>2 DEF Abs!AskHandle
  <2> QED BY <2>2, <2>3, <2>4
<1>5. CASE any # Nothing
  <2>1. any \in Entities /\ h \notin Reserved /\ WalkFinds(h, any) /\ errors = <<>>
    BY <1>1, <1>5 DEF LookupGives, Accepts
  <2>2. any \in Abs!OfHandle(h) /\ Abs!IsFirst(any, Abs!OfHandle(h))
    BY <1>2, <2>1, WalkFindsFirst
  <2>3. any \in fitting <=> (id = AnyType \/ IdOf(any) = id)
    BY <1>2, <2>2, AbsPositions DEF fitting
  <2>4. CASE id = AnyType \/ IdOf(any) = id
    <3>1. Answer(h, any, <<>>)
      BY <1>1, <1>5, <2>1, <2>4
    <3>2. Abs!Answer(h, any, FALSE)
      <4>1. Abs!Answer(h, any, <<>> # <<>>)
        BY <1>2, <1>3, <2>1, <3>1, AnswerMaps
      <4>2. (<<>> # <<>>) = FALSE
        OBVIOUS
      <4> QED BY <4>1, <4>2
    <3> QED BY <2>1, <2>2, <2>3, <2>4, <3>2 DEF Abs!AskHandle
  <2>5. CASE ~(id = AnyType \/ IdOf(any) = id)
    <3> DEFINE given == IF Excused(h) THEN <<>> ELSE <<"TypeInvalid">>
    <3>1. Answer(h, Nothing, given)
      BY <1>1, <1>5, <2>5
    <3>2. given \in ErrorLists
      BY <1>3
    <3>3. (given # <<>>) = ~Abs!Excused(h, strict) /\ strict \in Abs!Modes
      BY <1>3 DEF Excused, Abs!Excused, Abs!Modes
    <3> HIDE DEF given
    <3>4. Abs!Answer(h, Nothing, given # <<>>)
      BY <1>2, <3>1, <3>2, AnswerMaps
    <3>5. Abs!Answer(h, Nothing, ~Abs!Excused(h, strict))
      BY <3>3, <3>4
    <3> QED BY <2>1, <2>2, <2>3, <2>5, <3>3, <3>5 DEF Abs!AskHandle
  <2> QED BY <2>4, <2>5
<1> QED BY <1>4, <1>5

\* Looking up the first structure that fits walks the sequence.
LEMMA LookupFirstMaps ==
  ASSUME Inv, NEW fitting, NEW positions, NEW optional \in BOOLEAN, LookupFirst(fitting, optional),
         positions = {p \in 1 .. Len(sequence) : p \in fitting}
  PROVE  Abs!AskFirst(positions, optional)
<1>1. /\ phase = "done" /\ answer = Nothing
      /\ Entities \subseteq Nat /\ Nothing \notin Nat
  BY NothingAssumption, TableFacts DEF LookupFirst, Usable, Inv
<1>2. <<>> \in ErrorLists /\ <<"NotFound">> \in ErrorLists /\ <<"NotFound">> # <<>>
  BY DEF ErrorLists
<1>3. /\ DOMAIN sequence = 1 .. Len(sequence) /\ Len(sequence) \in Nat
      /\ \A k \in 1 .. Len(sequence) : sequence[k] = k /\ k \in Entities
  BY SequenceFacts
<1>4. CASE \E k \in DOMAIN sequence :
             /\ sequence[k] \in fitting
             /\ \A m \in 1 .. (k - 1) : sequence[m] \notin fitting
             /\ Answer(Nothing, sequence[k], <<>>)
  <2>1. PICK k \in 1 .. Len(sequence) :
             /\ k \in fitting
             /\ \A m \in 1 .. (k - 1) : sequence[m] \notin fitting
             /\ Answer(Nothing, k, <<>>)
    BY <1>3, <1>4
  <2>2. k \in positions /\ Abs!IsFirst(k, positions)
    BY <1>3, <2>1 DEF Abs!IsFirst
  <2>3. Abs!Answer(Nothing, k, <<>> # <<>>)
    BY <1>1, <1>2, <1>3, <2>1, AnswerMaps
  <2>4. (<<>> # <<>>) = FALSE
    OBVIOUS
  <2> QED BY <2>2, <2>3, <2>4 DEF Abs!AskFirst
<1>5. CASE /\ \A k \in DOMAIN sequence : sequence[k] \notin fitting
           /\ Answer(Nothing, Nothing, IF optional THEN <<>> ELSE <<"NotFound">>)
  <2> DEFINE given == IF optional THEN <<>> ELSE <<"NotFound">>
  <2>1. positions = {}
    BY <1>3, <1>5
  <2>2. given \in ErrorLists /\ (given # <<>>) = ~optional /\ Answer(Nothing, Nothing, given)
    BY <1>2, <1>5
  <2> HIDE DEF given
  <2>3. Abs!Answer(Nothing, Nothing, given # <<>>)
    BY <1>1, <2>2, AnswerMaps
  <2>4. Abs!Answer(Nothing, Nothing, ~optional)
    BY <2>2, <2>3
  <2> QED BY <2>1, <2>4 DEF Abs!AskFirst
<1> QED BY <1>4, <1>5 DEF LookupFirst

LEMMA QueryMaps == ASSUME Inv, Query PROVE Abs!Next
<1>1. phase = "done"
  BY QueryGives
<1>2. Types = Abs!Types /\ Ids = Abs!Ids
  BY DEF Types, Ids, Abs!Types, Abs!Ids
<1>3. CASE \E h \in References, types \in {AnyType} \cup TypeLists, optional \in BOOLEAN :
             Lookup(h, types, optional)
  BY <1>3, LookupMaps DEF Lookup, Abs!Next
<1>4. CASE \E h \in References, types \in {AnyType} \cup TypeLists : Resolve(h, types)
  BY <1>4, ResolveMaps DEF Abs!Next
<1>5. CASE \E h \in References, id \in {AnyType} \cup Ids : ResolveId(h, id)
  BY <1>2, <1>5, ResolveIdMaps DEF Abs!Next
<1>6. CASE \E type \in Types, optional \in BOOLEAN :
             LookupFirst({e \in Entities : TypeOf(e) = type}, optional)
  <2>1. PICK type \in Types, optional \in BOOLEAN :
               LookupFirst({e \in Entities : TypeOf(e) = type}, optional)
    BY <1>6
  <2>2. Abs!OfType(type) = {p \in 1 .. Len(sequence) : p \in {e \in Entities : TypeOf(e) = type}}
    BY <1>1, AbsPositions, SequenceFacts
  <2>3. Abs!AskFirst(Abs!OfType(type), optional)
    BY <2>1, <2>2, LookupFirstMaps
  <2> QED BY <1>2, <2>3 DEF Abs!Next
<1>7. CASE \E id \in Ids, optional \in BOOLEAN :
             LookupFirst({e \in Entities : IdOf(e) = id}, optional)
  <2>1. PICK id \in Ids, optional \in BOOLEAN :
               LookupFirst({e \in Entities : IdOf(e) = id}, optional)
    BY <1>7
  <2>2. Abs!OfId(id) = {p \in 1 .. Len(sequence) : p \in {e \in Entities : IdOf(e) = id}}
    BY <1>1, AbsPositions, SequenceFacts
  <2>3. Abs!AskFirst(Abs!OfId(id), optional)
    BY <2>1, <2>2, LookupFirstMaps
  <2> QED BY <1>2, <2>3 DEF Abs!Next
<1> QED BY <1>3, <1>4, <1>5, <1>6, <1>7 DEF Query

\* Registering an entity adds its structure to what is known.
LEMMA RegisterMaps == ASSUME Inv, Register PROVE Abs!Register
<1>1. /\ phase = "scanning" /\ phase' # "destroyed" /\ position \in Entities
      /\ table' = table /\ strict' = strict /\ opened' = opened /\ answer' = answer
      /\ sequence \in Seq(Entities) /\ sequence' = Append(sequence, position)
  BY TableFacts DEF Register, Within, Put, Finish, data, Inv, TypeOK
<1>2. table[position] \in Structures
  BY <1>1, TableFacts DEF Inv, Entities
<1>3. Known' = Append(Known, table[position])
  <2>1. Registered \in Seq(Structures) /\ Len(Registered) = Len(sequence)
    BY <1>1, TableFacts, SequenceFacts DEF Registered, Inv, Entities
  <2>2. Registered' = Append(Registered, table[position])
    BY <1>1, <2>1 DEF Registered
  <2> QED BY <1>1, <2>2 DEF Known
<1>4. Given' = Given
  BY <1>1 DEF Given
<1> QED BY <1>1, <1>2, <1>3, <1>4 DEF Abs!Register

\* The flags the scan starts with are the ones the context was opened with, so
\* that starting it changes nothing that is promised.
Unopened == phase = "new" => opened = strict

LEMMA UnopenedAlways == Spec => []Unopened
<1>1. Init => Unopened
  BY DEF Init, Unopened
<1>2. Unopened /\ Inv /\ [Next]_vars => Unopened'
  <2> SUFFICES ASSUME Unopened, Inv, [Next]_vars PROVE Unopened'
      OBVIOUS
  <2>1. CASE StartScan \/ Scan
    BY <2>1 DEF Unopened, StartScan, Scan, StopAtLimit, StopAtTail, StopAtCut, StopAtShort,
                CreateFails, PutFails, Register, Finish, Fail, Within
  <2>2. CASE Query \/ TakeAnswer
    BY <2>2, QueryGives DEF Unopened, TakeAnswer, Give
  <2>3. CASE SetFlags \/ Destroy
    BY <2>3 DEF Unopened, SetFlags, Usable, Destroy
  <2>4. CASE UNCHANGED vars
    BY <2>4 DEF Unopened, vars
  <2> QED BY <2>1, <2>2, <2>3, <2>4 DEF Next
<1> QED BY <1>1, <1>2, InvAlways, PTL DEF Spec

\* The other steps of the scan are not seen.
LEMMA ScanHides ==
  ASSUME Inv, Unopened, StartScan \/ Scan, ~Register PROVE UNCHANGED Abs!vars
<1>1. /\ UNCHANGED <<table, strict, sequence, answer>>
      /\ phase # "destroyed" /\ phase' # "destroyed"
  BY DEF StartScan, Scan, StopAtLimit, StopAtTail, StopAtCut, StopAtShort, CreateFails,
         PutFails, Finish, Fail, Within, data
<1>2. opened' = opened
  BY DEF Unopened, StartScan, Scan, StopAtLimit, StopAtTail, StopAtCut, StopAtShort,
         CreateFails, PutFails, Finish, Fail
<1> QED BY <1>1, <1>2 DEF Abs!vars, Known, Registered, Given

\* The registry implements its promise: a reference gives the first structure
\* of its handle in table order, and is reported when it names none that fits.
\* While the flags are those the context was opened with, they tell which null
\* references are no error; once they have been changed the promise leaves that
\* open, and FlagsWaitForOpening, which closes it, is not kept.
THEOREM RegistryImplementsPromise == Spec => Implements
<1>1. Init => Abs!Init
  <2> SUFFICES ASSUME Init PROVE Abs!Init
      OBVIOUS
  <2>1. Known = <<>>
    BY DEF Init, Known, Registered
  <2> QED BY <2>1 DEF Init, Abs!Init, Given
<1>2. Inv /\ Unopened /\ [Next]_vars => [Abs!Next]_(Abs!vars)
  <2> SUFFICES ASSUME Inv, Unopened, [Next]_vars PROVE [Abs!Next]_(Abs!vars)
      OBVIOUS
  <2>1. CASE Register
    BY <2>1, RegisterMaps DEF Abs!Next
  <2>2. CASE (StartScan \/ Scan) /\ ~Register
    BY <2>2, ScanHides
  <2>3. CASE Query
    BY <2>3, QueryMaps
  <2>4. CASE TakeAnswer
    <3>1. UNCHANGED <<table, strict, opened, sequence, phase>> /\ answer' = Nothing
      BY <2>4 DEF TakeAnswer, Give, data
    <3> QED BY <3>1 DEF Abs!Next, Abs!TakeAnswer, Known, Registered, Given
  <2>5. CASE SetFlags
    <3>1. UNCHANGED <<table, opened, sequence, phase, answer>> /\ strict' = ~strict
      BY <2>5 DEF SetFlags, data
    <3> QED BY <3>1 DEF Abs!Next, Abs!SetFlags, Known, Registered, Given
  <2>6. CASE Destroy
    <3>1. phase' = "destroyed" /\ answer' = Nothing /\ UNCHANGED <<strict, opened>>
      BY <2>6 DEF Destroy
    <3> QED BY <3>1 DEF Abs!Next, Abs!Forget, Known, Given
  <2>7. CASE UNCHANGED vars
    BY <2>7 DEF vars, data, Abs!vars, Known, Registered, Given
  <2> QED BY <2>1, <2>2, <2>3, <2>4, <2>5, <2>6, <2>7 DEF Next
<1> QED BY <1>1, <1>2, InvAlways, UnopenedAlways, PTL DEF Spec, Implements, Abs!Spec

-----------------------------------------------------------------------------
(* What the scan reports.  DuplicatesReported compares two numbers, so the   *)
(* count of the reports and the count of the pairs are followed in step: a   *)
(* registration adds as many of each as the chain of the entity has entities *)
(* of its handle.                                                            *)
Reports == {"HandleDuplicate", "Truncated", "LengthInvalid", "DecodeFailed",
            "OutOfMemory", "RegisterFailed"}

\* Where duplicates are reported.
Marks(r) == {k \in DOMAIN r : r[k] = "HandleDuplicate"}

\* The pairs of the first n structures that share a handle.
Pairs(n) == {pair \in (1 .. n) \X (1 .. n) :
               /\ pair[1] < pair[2]
               /\ HandleOf(pair[1]) = HandleOf(pair[2])}

\* The scan fails for want of memory only, if it began in relaxed mode, and
\* strict mode is not entered on the way.
ReportInv ==
  /\ raised \in Seq(Reports)
  /\ phase = "new" => raised = <<>>
  /\ phase = "scanning" => opened = strict
  /\ ScanReports

LEMMA MarksFinite ==
  ASSUME NEW r \in Seq(Reports)
  PROVE  IsFiniteSet(Marks(r)) /\ Cardinality(Marks(r)) \in Nat
<1>1. IsFiniteSet(1 .. Len(r)) /\ Marks(r) \in SUBSET (1 .. Len(r))
  BY FS_Interval DEF Marks
<1> QED BY <1>1, FS_Subset, FS_CardinalityType

LEMMA MarksOther ==
  ASSUME NEW r \in Seq(Reports), NEW s \in Seq(Reports),
         \A k \in 1 .. Len(s) : s[k] # "HandleDuplicate"
  PROVE  Marks(r \o s) = Marks(r)
BY DEF Marks

LEMMA MarksAdded ==
  ASSUME NEW r \in Seq(Reports), NEW c \in Nat
  PROVE  Cardinality(Marks(r \o [k \in 1 .. c |-> "HandleDuplicate"]))
           = Cardinality(Marks(r)) + c
<1> DEFINE s == [k \in 1 .. c |-> "HandleDuplicate"]
           more == (Len(r) + 1) .. (Len(r) + c)
<1>1. s \in Seq(Reports) /\ Len(s) = c
  BY DEF Reports
<1>2. Marks(r \o s) = Marks(r) \cup more
  <2>1. Len(r \o s) = Len(r) + c /\ DOMAIN (r \o s) = 1 .. (Len(r) + c) /\ Len(r) \in Nat
    BY <1>1
  <2>2. \A k \in 1 .. Len(r) : (r \o s)[k] = r[k]
    BY <1>1
  <2>3. \A k \in more : (r \o s)[k] = "HandleDuplicate"
    BY <1>1
  <2>4. DOMAIN r = 1 .. Len(r)
    OBVIOUS
  <2> QED BY <2>1, <2>2, <2>3, <2>4 DEF Marks
<1>3. IsFiniteSet(more) /\ Cardinality(more) = c
  <2>1. PICK a \in Nat, b \in Nat : a = Len(r) + 1 /\ b = Len(r) + c
    OBVIOUS
  <2>2. IsFiniteSet(a .. b) /\ Cardinality(a .. b) = IF a > b THEN 0 ELSE b - a + 1
    BY FS_Interval
  <2>3. (IF a > b THEN 0 ELSE b - a + 1) = c
    BY <2>1
  <2>4. more = a .. b
    BY <2>1
  <2> QED BY <2>2, <2>3, <2>4
<1>4. Marks(r) \cap more = {}
  BY DEF Marks
<1>5. Cardinality(Marks(r) \cup more)
        = Cardinality(Marks(r)) + Cardinality(more) - Cardinality(Marks(r) \cap more)
  BY <1>3, MarksFinite, FS_Union
<1>6. Cardinality(Marks(r) \cap more) = 0
  BY <1>4, FS_EmptySet
<1> HIDE DEF more, s
<1>7. Cardinality(Marks(r)) \in Nat
  BY MarksFinite
<1>8. Cardinality(Marks(r \o s)) = Cardinality(Marks(r)) + c
  BY <1>2, <1>3, <1>5, <1>6, <1>7
<1> QED BY <1>8 DEF s

\* The pairs an entity makes with the ones before it are told by its chain.
LEMMA ClashesArePairs ==
  ASSUME Inv, NEW e \in Entities, e = Len(sequence) + 1
  PROVE  /\ Pairs(e) = Pairs(Len(sequence)) \cup (Pairs(e) \ Pairs(Len(sequence)))
         /\ ExistsBijection(Clashes(e), Pairs(e) \ Pairs(Len(sequence)))
         /\ IsFiniteSet(Clashes(e))
         /\ IsFiniteSet(Pairs(Len(sequence)))
<1> DEFINE n == Len(sequence)
           new == Pairs(e) \ Pairs(n)
           chain == Chain(e)
<1>1. n \in Nat /\ Entities = 1 .. Len(table) /\ Len(table) \in Nat
      /\ \A d \in 1 .. n : d \in Entities
  BY TableFacts, SequenceFacts DEF Inv
<1>2. Hash(HandleOf(e)) \in Hashes
  BY TableFacts DEF Inv
<1>3. chain \in Seq(Entities) /\ Len(chain) \in Nat /\ DOMAIN chain = 1 .. Len(chain)
  BY <1>2, SequenceFacts DEF Chain
<1>4. \A k \in 1 .. Len(chain) : chain[k] \in 1 .. n
  <2>1. \A k \in 1 .. Len(chain) : chain[k] \in Entities /\ chain[k] <= n
    BY <1>2, <1>3 DEF Inv, IndexFollowsSequence, Chain
  <2> QED BY <1>1, <2>1
<1>5. \A k, m \in 1 .. Len(chain) : chain[k] = chain[m] => k = m
  <2>1. \A k \in 1 .. Len(chain) : \A m \in 1 .. (k - 1) : chain[m] < chain[k]
    BY <1>2, <1>3 DEF Inv, IndexFollowsSequence, Chain
  <2> QED BY <1>1, <1>3, <1>4, <2>1
<1>6. \A d \in 1 .. n : HandleOf(d) = HandleOf(e) => \E k \in 1 .. Len(chain) : chain[k] = d
  BY <1>3 DEF Inv, IndexFollowsSequence, Chain
<1>7. new = {pair \in (1 .. n) \X {e} : HandleOf(pair[1]) = HandleOf(e)}
  BY <1>1 DEF Pairs
<1>8. Pairs(n) \subseteq Pairs(e)
  BY <1>1 DEF Pairs
<1>9. ExistsBijection(Clashes(e), new)
  <2> DEFINE f == [k \in Clashes(e) |-> <<chain[k], e>>]
  <2>1. Clashes(e) = {k \in 1 .. Len(chain) : HandleOf(chain[k]) = HandleOf(e)}
    BY <1>3 DEF Clashes
  <2> HIDE DEF chain
  <2>2. \A k \in Clashes(e) : f[k] \in new
    BY <1>4, <1>7, <2>1
  <2>3. f \in [Clashes(e) -> new]
    BY <2>2
  <2>4. \A k, m \in Clashes(e) : f[k] = f[m] => k = m
    BY <1>5, <2>1
  <2>5. \A p \in new : \E k \in Clashes(e) : f[k] = p
    <3> SUFFICES ASSUME NEW p \in new PROVE \E k \in Clashes(e) : f[k] = p
        OBVIOUS
    <3>1. p[1] \in 1 .. n /\ p = <<p[1], e>> /\ HandleOf(p[1]) = HandleOf(e)
      BY <1>7
    <3>2. PICK k \in 1 .. Len(chain) : chain[k] = p[1]
      BY <1>6, <3>1
    <3>3. k \in Clashes(e)
      BY <2>1, <3>1, <3>2
    <3> QED BY <3>1, <3>2, <3>3
  <2> HIDE DEF f, new
  <2>6. f \in Bijection(Clashes(e), new)
    BY <2>3, <2>4, <2>5 DEF Bijection, Injection, Surjection, IsInjective
  <2> QED BY <2>6 DEF ExistsBijection
<1>10. IsFiniteSet(Clashes(e))
  <2>1. IsFiniteSet(1 .. Len(chain))
    BY <1>3, FS_Interval
  <2>2. Clashes(e) \in SUBSET (1 .. Len(chain))
    BY <1>3, Zenon DEF Clashes
  <2> QED BY <2>1, <2>2, FS_Subset
<1>11. IsFiniteSet(Pairs(n))
  <2>1. IsFiniteSet(1 .. n)
    BY <1>1, FS_Interval
  <2>2. IsFiniteSet((1 .. n) \X (1 .. n))
    BY <2>1, FS_Product
  <2>3. Pairs(n) \in SUBSET ((1 .. n) \X (1 .. n))
    BY DEF Pairs
  <2> QED BY <2>2, <2>3, FS_Subset
<1> QED BY <1>8, <1>9, <1>10, <1>11

LEMMA PairsAdded ==
  ASSUME Inv, NEW e \in Entities, e = Len(sequence) + 1
  PROVE  /\ Cardinality(Clashes(e)) \in Nat
         /\ Cardinality(Pairs(e)) = Cardinality(Pairs(Len(sequence))) + Cardinality(Clashes(e))
<1> DEFINE old == Pairs(Len(sequence))
           new == Pairs(e) \ Pairs(Len(sequence))
<1>1. /\ Pairs(e) = old \cup new /\ ExistsBijection(Clashes(e), new)
      /\ IsFiniteSet(Clashes(e)) /\ IsFiniteSet(old)
  BY ClashesArePairs
<1>2. IsFiniteSet(new) /\ Cardinality(new) = Cardinality(Clashes(e))
  BY <1>1, FS_Bijection
<1>3. Cardinality(old \cap new) = 0
  <2>1. old \cap new = {}
    OBVIOUS
  <2> QED BY <2>1, FS_EmptySet
<1>4. Cardinality(old \cup new) = Cardinality(old) + Cardinality(new) - Cardinality(old \cap new)
  BY <1>1, <1>2, FS_Union
<1>5. Cardinality(Clashes(e)) \in Nat /\ Cardinality(old) \in Nat
  BY <1>1, FS_CardinalityType
<1> HIDE DEF old, new
<1>6. Cardinality(Pairs(e)) = Cardinality(old) + Cardinality(Clashes(e))
  <2>1. Cardinality(Pairs(e)) = Cardinality(old \cup new)
    BY <1>1
  <2> QED BY <1>2, <1>3, <1>4, <1>5, <2>1
<1> QED BY <1>5, <1>6 DEF old

LEMMA CountsTell ==
  DuplicatesReported <=>
    (phase \in {"scanning", "done"} =>
       Cardinality(Marks(raised)) = Cardinality(Pairs(Len(sequence))))
BY DEF DuplicatesReported, Marks, Pairs

\* The counts agree after a step if they did before it and it adds as many
\* reports of duplicates as pairs.
LEMMA CountsAgree ==
  ASSUME Cardinality(Marks(raised')) = Cardinality(Pairs(Len(sequence))')
  PROVE  DuplicatesReported'
BY DEF DuplicatesReported, Marks, Pairs

LEMMA PairsUnchanged ==
  ASSUME table' = table, sequence' = sequence
  PROVE  Pairs(Len(sequence))' = Pairs(Len(sequence))
BY DEF Pairs, HandleOf

LEMMA ReportInit == Init => ReportInv
<1> SUFFICES ASSUME Init PROVE ReportInv
    OBVIOUS
<1>1. raised = <<>> /\ phase = "new"
  BY DEF Init
<1>2. raised \in Seq(Reports)
  BY <1>1
<1> QED BY <1>1, <1>2 DEF ReportInv, ScanReports, DuplicatesReported, RelaxedScanSurvives

LEMMA StartScanReports == ASSUME ReportInv, Inv, StartScan PROVE ReportInv'
<1>1. /\ phase' = "scanning" /\ raised' = <<>> /\ opened' = strict /\ strict' = strict
      /\ table' = table /\ sequence' = sequence /\ sequence = <<>>
  BY DEF StartScan, data, Inv, ScanProgress
<1>2. Marks(raised') = {} /\ Pairs(Len(sequence)) = {}
  BY <1>1 DEF Marks, Pairs
<1>3. DuplicatesReported'
  BY <1>1, <1>2, PairsUnchanged, CountsAgree
<1>4. raised' \in Seq(Reports)
  BY <1>1
<1> QED BY <1>1, <1>3, <1>4 DEF ReportInv, ScanReports, RelaxedScanSurvives

\* The scan ends, and what it reports on the way is not a duplicate.
LEMMA DoneReports ==
  ASSUME ReportInv, phase = "scanning", phase' = "done",
         table' = table, sequence' = sequence,
         NEW s \in Seq(Reports), \A k \in 1 .. Len(s) : s[k] # "HandleDuplicate",
         raised' = raised \o s
  PROVE  ReportInv'
<1>1. raised \in Seq(Reports)
  BY DEF ReportInv
<1>2. Marks(raised') = Marks(raised)
  BY <1>1, MarksOther
<1>3. Cardinality(Marks(raised)) = Cardinality(Pairs(Len(sequence)))
  BY CountsTell DEF ReportInv, ScanReports
<1>4. DuplicatesReported'
  BY <1>2, <1>3, PairsUnchanged, CountsAgree
<1>5. raised' \in Seq(Reports)
  BY <1>1
<1> QED BY <1>4, <1>5 DEF ReportInv, ScanReports, RelaxedScanSurvives

LEMMA FailReports ==
  ASSUME ReportInv, phase = "scanning", Fail,
         NEW s \in Seq(Reports), raised' = raised \o s,
         strict \/ \E k \in 1 .. Len(s) : s[k] = "OutOfMemory"
  PROVE  ReportInv'
<1>1. raised \in Seq(Reports) /\ opened = strict
  BY DEF ReportInv
<1>2. phase' = "failed" /\ opened' = opened
  BY DEF Fail
<1>3. raised' \in Seq(Reports)
  BY <1>1
<1>4. ASSUME ~opened' PROVE \E k \in DOMAIN raised' : raised'[k] = "OutOfMemory"
  <2>1. PICK k \in 1 .. Len(s) : s[k] = "OutOfMemory"
    BY <1>1, <1>2, <1>4
  <2>2. Len(raised) + k \in DOMAIN raised' /\ raised'[Len(raised) + k] = "OutOfMemory"
    BY <1>1, <2>1
  <2> QED BY <2>2
<1> QED BY <1>2, <1>3, <1>4 DEF ReportInv, ScanReports, RelaxedScanSurvives, DuplicatesReported

LEMMA RegisterReports == ASSUME ReportInv, Inv, Register PROVE ReportInv'
<1> DEFINE c == Cardinality(Clashes(position))
<1>1. /\ phase = "scanning" /\ position \in Entities /\ position = Len(sequence) + 1
      /\ phase' \in {"scanning", "done"} /\ opened' = opened /\ strict' = strict /\ table' = table
  BY TableFacts DEF Register, Within, Finish, data, Inv, ScanProgress
<1>2. Len(sequence') = Len(sequence) + 1
  BY <1>1, PutIndex, TableFacts DEF Register, Finish, Inv
<1>3. c \in Nat /\ Cardinality(Pairs(position)) = Cardinality(Pairs(Len(sequence))) + c
  BY <1>1, PairsAdded
<1>4. raised' = raised \o [k \in 1 .. c |-> "HandleDuplicate"] /\ raised \in Seq(Reports)
  BY DEF Register, ClashErrors, ReportInv
<1>5. [k \in 1 .. c |-> "HandleDuplicate"] \in Seq(Reports)
  BY <1>3 DEF Reports
<1> HIDE DEF c
<1>6. Cardinality(Marks(raised')) = Cardinality(Marks(raised)) + c
  BY <1>3, <1>4, MarksAdded
<1>7. Cardinality(Marks(raised)) = Cardinality(Pairs(Len(sequence)))
  BY <1>1, CountsTell DEF ReportInv, ScanReports
<1>8. Pairs(Len(sequence))' = Pairs(position)
  BY <1>1, <1>2 DEF Pairs, HandleOf
<1>9. DuplicatesReported'
  BY <1>3, <1>6, <1>7, <1>8, CountsAgree
<1>10. raised' \in Seq(Reports)
  BY <1>4, <1>5
<1> QED BY <1>1, <1>9, <1>10 DEF ReportInv, ScanReports, RelaxedScanSurvives

LEMMA ScanStepReports == ASSUME ReportInv, Inv, Scan PROVE ReportInv'
<1>1. /\ raised \in Seq(Reports)
      /\ raised = raised \o <<>>
      /\ \A x : Append(raised, x) = raised \o <<x>>
  BY DEF ReportInv
<1>2. /\ <<>> \in Seq(Reports) /\ <<"Truncated">> \in Seq(Reports)
      /\ <<"LengthInvalid">> \in Seq(Reports) /\ <<"LengthInvalid", "DecodeFailed">> \in Seq(Reports)
      /\ <<"OutOfMemory", "DecodeFailed">> \in Seq(Reports)
      /\ <<"OutOfMemory", "RegisterFailed">> \in Seq(Reports)
  BY DEF Reports
<1>3. CASE StopAtLimit \/ StopAtTail
  <2>1. /\ phase = "scanning" /\ phase' = "done" /\ table' = table /\ sequence' = sequence
        /\ raised' = raised
    BY <1>3 DEF StopAtLimit, StopAtTail, Within, Finish, data
  <2>2. \A k \in 1 .. Len(<<>>) : (<<>>)[k] # "HandleDuplicate"
    OBVIOUS
  <2> QED BY <1>1, <1>2, <2>1, <2>2, DoneReports
<1>4. CASE StopAtCut
  <2>1. /\ phase = "scanning" /\ phase' = "done" /\ table' = table /\ sequence' = sequence
        /\ raised' = Append(raised, "Truncated")
    BY <1>4 DEF StopAtCut, Within, Finish, data
  <2>2. \A k \in 1 .. Len(<<"Truncated">>) : (<<"Truncated">>)[k] # "HandleDuplicate"
    OBVIOUS
  <2> QED BY <1>1, <1>2, <2>1, <2>2, DoneReports
<1>5. CASE StopAtShort /\ ~strict
  <2>1. /\ phase = "scanning" /\ phase' = "done" /\ table' = table /\ sequence' = sequence
        /\ raised' = Append(raised, "LengthInvalid")
    BY <1>5 DEF StopAtShort, Within, Finish, data
  <2>2. \A k \in 1 .. Len(<<"LengthInvalid">>) : (<<"LengthInvalid">>)[k] # "HandleDuplicate"
    OBVIOUS
  <2> QED BY <1>1, <1>2, <2>1, <2>2, DoneReports
<1>6. CASE StopAtShort /\ strict
  <2>1. phase = "scanning" /\ Fail /\ raised' = raised \o <<"LengthInvalid", "DecodeFailed">>
    BY <1>6 DEF StopAtShort, Within
  <2> QED BY <1>2, <1>6, <2>1, FailReports
<1>7. CASE CreateFails
  <2> DEFINE s == <<"OutOfMemory", "DecodeFailed">>
  <2>1. phase = "scanning" /\ Fail /\ raised' = raised \o s
    BY <1>7 DEF CreateFails, Within
  <2>2. 1 \in 1 .. Len(s) /\ s[1] = "OutOfMemory"
    OBVIOUS
  <2> QED BY <1>2, <2>1, <2>2, FailReports
<1>8. CASE PutFails
  <2> DEFINE s == <<"OutOfMemory", "RegisterFailed">>
  <2>1. phase = "scanning" /\ Fail /\ raised' = raised \o s
    BY <1>8 DEF PutFails, Within
  <2>2. 1 \in 1 .. Len(s) /\ s[1] = "OutOfMemory"
    OBVIOUS
  <2> QED BY <1>2, <2>1, <2>2, FailReports
<1>9. CASE Register
  BY <1>9, RegisterReports
<1> QED BY <1>3, <1>4, <1>5, <1>6, <1>7, <1>8, <1>9 DEF Scan

\* The other steps are taken when the scan is over, and leave its reports.
LEMMA LaterReports ==
  ASSUME ReportInv, table' = table, sequence' = sequence, raised' = raised, opened' = opened,
         \/ phase' = phase /\ (strict' = strict \/ phase = "done")
         \/ phase' = "destroyed"
  PROVE  ReportInv'
<1>1. DuplicatesReported'
  BY DEF ReportInv, ScanReports, DuplicatesReported, HandleOf
<1> QED BY <1>1 DEF ReportInv, ScanReports, RelaxedScanSurvives

LEMMA ReportNext == Inv /\ ReportInv /\ [Next]_vars => ReportInv'
<1> SUFFICES ASSUME Inv, ReportInv, [Next]_vars PROVE ReportInv'
    OBVIOUS
<1>1. CASE StartScan
  BY <1>1, StartScanReports
<1>2. CASE Scan
  BY <1>2, ScanStepReports
<1>3. CASE Query
  BY <1>3, QueryGives, LaterReports DEF Give, data
<1>4. CASE TakeAnswer
  BY <1>4, LaterReports DEF TakeAnswer, Give, data
<1>5. CASE SetFlags
  BY <1>5, LaterReports DEF SetFlags, Usable, data
<1>6. CASE Destroy
  BY <1>6, LaterReports DEF Destroy, data
<1>7. CASE UNCHANGED vars
  BY <1>7, LaterReports DEF vars, data
<1> QED BY <1>1, <1>2, <1>3, <1>4, <1>5, <1>6, <1>7 DEF Next

\* Every pair of structures that share a handle is reported once, whatever
\* the capacity of the index, and a scan begun in relaxed mode fails for want
\* of memory only.
THEOREM ScanReportsAll == Spec => []ScanReports
<1>1. ReportInv => ScanReports
  BY DEF ReportInv
<1> QED BY <1>1, ReportInit, ReportNext, InvAlways, PTL DEF Spec

-----------------------------------------------------------------------------
(* What is destroyed.  Until the scan fails nothing has been, and a scan that *)
(* fails has destroyed the entity it could not put into the registry, if that *)
(* is what it failed for.                                                     *)
IsRefusal(r) == \E k \in DOMAIN r : r[k] = "RegisterFailed"

FreedInv ==
  /\ phase \in {"new", "scanning", "done"} =>
       ~IsRefusal(raised) /\ \A e \in Entities : freed[e] = 0
  /\ phase = "failed" => \A e \in Entities : freed[e] = IF e \in Refused THEN 1 ELSE 0
  /\ FreedOnce

LEMMA RefusedFacts ==
  \A e : e \in Refused <=> e \in Entities /\ e = Len(sequence) + 1 /\ IsRefusal(raised)
BY DEF Refused, IsRefusal

LEMMA RefusalAdded ==
  ASSUME NEW r \in Seq(Reports), NEW s \in Seq(Reports)
  PROVE  IsRefusal(r \o s) <=> IsRefusal(r) \/ IsRefusal(s)
<1>1. ASSUME NEW k \in 1 .. Len(s) PROVE Len(r) + k \in DOMAIN (r \o s) /\ (r \o s)[Len(r) + k] = s[k]
  OBVIOUS
<1>2. ASSUME NEW k \in 1 .. Len(r) PROVE k \in DOMAIN (r \o s) /\ (r \o s)[k] = r[k]
  OBVIOUS
<1>3. ASSUME NEW k \in DOMAIN (r \o s)
      PROVE  \/ k \in 1 .. Len(r) /\ (r \o s)[k] = r[k]
             \/ k - Len(r) \in 1 .. Len(s) /\ (r \o s)[k] = s[k - Len(r)]
  OBVIOUS
<1>4. DOMAIN r = 1 .. Len(r) /\ DOMAIN s = 1 .. Len(s)
  OBVIOUS
<1> QED BY <1>1, <1>2, <1>3, <1>4, Zenon DEF IsRefusal

\* A step that fails the scan with the reports s, and destroys the entity at
\* the offset when that is what they say.
LEMMA FailFrees ==
  ASSUME Inv, ReportInv, FreedInv, phase = "scanning", phase' = "failed",
         table' = table, sequence' = sequence,
         NEW s \in Seq(Reports), raised' = raised \o s,
         freed' = IF IsRefusal(s) THEN [freed EXCEPT ![position] = @ + 1] ELSE freed
  PROVE  FreedInv'
<1>1. position = Len(sequence) + 1 /\ freed \in [Entities -> Nat] /\ Entities' = Entities
  BY DEF Inv, ScanProgress, TypeOK, Entities
<1>2. ~IsRefusal(raised) /\ \A e \in Entities : freed[e] = 0
  BY DEF FreedInv
<1>3. raised \in Seq(Reports)
  BY DEF ReportInv
<1>4. IsRefusal(raised)' <=> IsRefusal(s)
  <2>1. IsRefusal(raised)' <=> IsRefusal(raised \o s)
    BY DEF IsRefusal
  <2> QED BY <1>2, <1>3, <2>1, RefusalAdded
<1>5. ASSUME NEW e \in Entities PROVE freed'[e] = IF (e \in Refused)' THEN 1 ELSE 0
  <2>1. (e \in Refused)' <=> e = position /\ IsRefusal(s)
    <3>1. (e \in Refused)' <=> e \in Entities' /\ e = Len(sequence') + 1 /\ IsRefusal(raised)'
      BY DEF Refused, IsRefusal
    <3> QED BY <1>1, <1>4, <3>1
  <2> QED BY <1>1, <1>2, <2>1
<1>6. FreedOnce'
  BY DEF FreedOnce
<1> QED BY <1>1, <1>5, <1>6 DEF FreedInv

\* A step of the scan that does not fail destroys nothing.
LEMMA ScanFreesNone ==
  ASSUME Inv, ReportInv, FreedInv, phase = "scanning", phase' \in {"scanning", "done"},
         table' = table, freed' = freed,
         NEW s \in Seq(Reports), raised' = raised \o s, ~IsRefusal(s)
  PROVE  FreedInv'
<1>1. ~IsRefusal(raised) /\ raised \in Seq(Reports) /\ \A e \in Entities : freed[e] = 0
  BY DEF FreedInv, ReportInv
<1>2. ~IsRefusal(raised)'
  <2>1. IsRefusal(raised)' <=> IsRefusal(raised \o s)
    BY DEF IsRefusal
  <2> QED BY <1>1, <2>1, RefusalAdded
<1> QED BY <1>1, <1>2 DEF FreedInv, FreedOnce, Entities

LEMMA ScanFrees == ASSUME Inv, ReportInv, FreedInv, Scan PROVE FreedInv'
<1>1. raised \in Seq(Reports) /\ raised = raised \o <<>> /\ \A x : Append(raised, x) = raised \o <<x>>
  BY DEF ReportInv
<1>2. /\ <<>> \in Seq(Reports) /\ <<"Truncated">> \in Seq(Reports)
      /\ <<"LengthInvalid">> \in Seq(Reports) /\ <<"LengthInvalid", "DecodeFailed">> \in Seq(Reports)
      /\ <<"OutOfMemory", "DecodeFailed">> \in Seq(Reports)
      /\ <<"OutOfMemory", "RegisterFailed">> \in Seq(Reports)
  BY DEF Reports
<1>3. /\ ~IsRefusal(<<>>) /\ ~IsRefusal(<<"Truncated">>) /\ ~IsRefusal(<<"LengthInvalid">>)
      /\ ~IsRefusal(<<"LengthInvalid", "DecodeFailed">>)
      /\ ~IsRefusal(<<"OutOfMemory", "DecodeFailed">>)
  BY DEF IsRefusal
<1>4. IsRefusal(<<"OutOfMemory", "RegisterFailed">>)
  <2>1. 2 \in DOMAIN <<"OutOfMemory", "RegisterFailed">>
    OBVIOUS
  <2> QED BY <2>1 DEF IsRefusal
<1>5. CASE StopAtLimit \/ StopAtTail
  <2>1. /\ phase = "scanning" /\ phase' = "done" /\ table' = table /\ freed' = freed
        /\ raised' = raised
    BY <1>5 DEF StopAtLimit, StopAtTail, Within, Finish, data
  <2> QED BY <1>1, <1>2, <1>3, <2>1, ScanFreesNone
<1>6. CASE StopAtCut
  <2>1. /\ phase = "scanning" /\ phase' = "done" /\ table' = table /\ freed' = freed
        /\ raised' = Append(raised, "Truncated")
    BY <1>6 DEF StopAtCut, Within, Finish, data
  <2> QED BY <1>1, <1>2, <1>3, <2>1, ScanFreesNone
<1>7. CASE StopAtShort /\ ~strict
  <2>1. /\ phase = "scanning" /\ phase' = "done" /\ table' = table /\ freed' = freed
        /\ raised' = Append(raised, "LengthInvalid")
    BY <1>7 DEF StopAtShort, Within, Finish, data
  <2> QED BY <1>1, <1>2, <1>3, <2>1, ScanFreesNone
<1>8. CASE StopAtShort /\ strict
  <2>1. /\ phase = "scanning" /\ phase' = "failed" /\ table' = table /\ sequence' = sequence
        /\ raised' = raised \o <<"LengthInvalid", "DecodeFailed">> /\ freed' = freed
    BY <1>8 DEF StopAtShort, Within, Fail, data
  <2> QED BY <1>2, <1>3, <2>1, FailFrees
<1>9. CASE CreateFails
  <2>1. /\ phase = "scanning" /\ phase' = "failed" /\ table' = table /\ sequence' = sequence
        /\ raised' = raised \o <<"OutOfMemory", "DecodeFailed">> /\ freed' = freed
    BY <1>9 DEF CreateFails, Within, Fail, data
  <2> QED BY <1>2, <1>3, <2>1, FailFrees
<1>10. CASE PutFails
  <2>1. /\ phase = "scanning" /\ phase' = "failed" /\ table' = table /\ sequence' = sequence
        /\ raised' = raised \o <<"OutOfMemory", "RegisterFailed">>
        /\ freed' = [freed EXCEPT ![position] = @ + 1]
    BY <1>10 DEF PutFails, Within, Fail, data
  <2> QED BY <1>2, <1>4, <2>1, FailFrees
<1>11. CASE Register
  <2> DEFINE s == [k \in 1 .. Cardinality(Clashes(position)) |-> "HandleDuplicate"]
  <2>1. /\ phase = "scanning" /\ phase' \in {"scanning", "done"} /\ table' = table
        /\ freed' = freed /\ raised' = raised \o s
    BY <1>11 DEF Register, Within, Finish, data, ClashErrors
  <2>2. Cardinality(Clashes(position)) \in Nat
    <3>1. position \in Entities /\ position = Len(sequence) + 1
      BY <1>11, TableFacts DEF Register, Within, Inv, ScanProgress
    <3> QED BY <3>1, PairsAdded
  <2>3. s \in Seq(Reports) /\ ~IsRefusal(s)
    BY <2>2 DEF Reports, IsRefusal
  <2> HIDE DEF s
  <2> QED BY <2>1, <2>3, ScanFreesNone
<1> QED BY <1>5, <1>6, <1>7, <1>8, <1>9, <1>10, <1>11 DEF Scan

\* The destruction adds to what the scan has destroyed what the index holds.
LEMMA DestroyFrees == ASSUME Inv, FreedInv, Destroy PROVE FreedInv'
<1>1. /\ phase \in {"new", "done", "failed"} /\ phase' = "destroyed"
      /\ table' = table /\ sequence' = sequence /\ raised' = raised
      /\ freed' = [e \in Entities |-> freed[e] + Cardinality(Slots(e))]
  BY DEF Destroy, data
<1>2. ASSUME NEW e \in Entities
      PROVE  freed'[e] = IF e <= Len(sequence) \/ e \in Refused THEN 1 ELSE 0
  <2>1. freed[e] = IF e \in Refused THEN 1 ELSE 0
    BY <1>1, RefusedFacts DEF FreedInv
  <2>2. Cardinality(Slots(e)) = IF e <= Len(sequence) THEN 1 ELSE 0
    BY PlacesCounted
  <2>3. ~(e <= Len(sequence) /\ e \in Refused)
    BY RefusedFacts, SequenceFacts
  <2> QED BY <1>1, <2>1, <2>2, <2>3
<1>3. Refused' = Refused /\ Entities' = Entities
  BY <1>1 DEF Refused, Entities
<1> QED BY <1>1, <1>2, <1>3 DEF FreedInv, FreedOnce

LEMMA FreedNext == Inv /\ ReportInv /\ FreedInv /\ [Next]_vars => FreedInv'
<1> SUFFICES ASSUME Inv, ReportInv, FreedInv, [Next]_vars PROVE FreedInv'
    OBVIOUS
<1>1. CASE StartScan
  <2>1. phase = "new" /\ phase' = "scanning" /\ raised' = <<>> /\ table' = table /\ freed' = freed
    BY <1>1 DEF StartScan, data
  <2> QED BY <2>1 DEF FreedInv, FreedOnce, IsRefusal, Entities
<1>2. CASE Scan
  BY <1>2, ScanFrees
<1>3. CASE Query \/ TakeAnswer \/ SetFlags
  <2>1. /\ phase = "done" /\ UNCHANGED <<phase, table, freed, raised>>
    BY <1>3, QueryGives DEF TakeAnswer, SetFlags, Usable, Give, data
  <2> QED BY <2>1 DEF FreedInv, FreedOnce, IsRefusal, Entities
<1>4. CASE Destroy
  BY <1>4, DestroyFrees
<1>5. CASE UNCHANGED vars
  BY <1>5 DEF vars, data, FreedInv, FreedOnce, IsRefusal, Refused, Entities
<1> QED BY <1>1, <1>2, <1>3, <1>4, <1>5 DEF Next

\* Each entity that was created is destroyed exactly once, by the registry
\* that holds it or by the scan that could not put it there.
THEOREM EntitiesFreedOnce == Spec => []FreedOnce
<1>1. Init => FreedInv
  BY DEF Init, FreedInv, FreedOnce, IsRefusal, Entities
<1>2. FreedInv => FreedOnce
  BY DEF FreedInv
<1> QED BY <1>1, <1>2, FreedNext, ReportInit, ReportNext, InvAlways, PTL DEF Spec

-----------------------------------------------------------------------------
(* The iterator.  Its calls are followed by the rank of its place: after n   *)
(* calls it stands on the n-th place that matches, or has run past the last. *)
LEMMA RankFacts ==
  ASSUME Inv, NEW filter
  PROVE  /\ Places(filter) \subseteq 1 .. Len(sequence)
         /\ Rank(0, filter) = 0
         /\ Rank(Len(sequence), filter) = Cardinality(Places(filter))
         /\ Cardinality(Places(filter)) \in Nat
         /\ \A k \in 0 .. Len(sequence) :
              IsFiniteSet(Places(filter) \cap (1 .. k)) /\ Rank(k, filter) \in Nat
<1>1. DOMAIN sequence = 1 .. Len(sequence) /\ Len(sequence) \in Nat
  BY SequenceFacts
<1>2. Places(filter) \subseteq 1 .. Len(sequence)
  BY <1>1 DEF Places
<1>3. Rank(0, filter) = 0
  <2>1. Places(filter) \cap (1 .. 0) = {}
    OBVIOUS
  <2> QED BY <2>1, FS_EmptySet DEF Rank
<1>4. Rank(Len(sequence), filter) = Cardinality(Places(filter))
  <2>1. Places(filter) \cap (1 .. Len(sequence)) = Places(filter)
    BY <1>2
  <2> QED BY <2>1 DEF Rank
<1>5. ASSUME NEW k \in 0 .. Len(sequence)
      PROVE  IsFiniteSet(Places(filter) \cap (1 .. k)) /\ Rank(k, filter) \in Nat
  <2>1. IsFiniteSet(1 .. k)
    BY <1>1, FS_Interval
  <2>2. Places(filter) \cap (1 .. k) \in SUBSET (1 .. k)
    OBVIOUS
  <2>3. IsFiniteSet(Places(filter) \cap (1 .. k))
    BY <2>1, <2>2, FS_Subset
  <2> QED BY <2>3, FS_CardinalityType DEF Rank
<1>6. Cardinality(Places(filter)) \in Nat
  <2>1. Len(sequence) \in 0 .. Len(sequence)
    BY <1>1
  <2> QED BY <1>4, <1>5, <2>1
<1> QED BY <1>2, <1>3, <1>4, <1>5, <1>6

\* Past a place, a place that matches and no other in between adds one.
LEMMA RankNext ==
  ASSUME Inv, NEW filter, NEW j \in 0 .. Len(sequence), NEW k \in Places(filter), j < k,
         \A m \in Places(filter) : j < m => k <= m
  PROVE  Rank(k, filter) = Rank(j, filter) + 1
<1> DEFINE S == Places(filter) \cap (1 .. j)
<1>1. IsFiniteSet(S) /\ k \in 1 .. Len(sequence) /\ Places(filter) \subseteq 1 .. Len(sequence)
      /\ Len(sequence) \in Nat
  BY RankFacts, SequenceFacts
<1>2. k \notin S
  BY <1>1
<1>3. Places(filter) \cap (1 .. k) = S \cup {k}
  BY <1>1
<1> HIDE DEF S
<1>4. Cardinality(S \cup {k}) = Cardinality(S) + 1
  BY <1>1, <1>2, FS_AddElement
<1> QED BY <1>3, <1>4 DEF Rank, S

LEMMA RankRises ==
  ASSUME Inv, NEW filter, NEW j \in 0 .. Len(sequence), NEW k \in 0 .. Len(sequence), j <= k
  PROVE  /\ Rank(j, filter) <= Rank(k, filter)
         /\ j < k /\ k \in Places(filter) => Rank(j, filter) < Rank(k, filter)
<1> DEFINE S == Places(filter) \cap (1 .. j)
           T == Places(filter) \cap (1 .. k)
<1>1. IsFiniteSet(S) /\ IsFiniteSet(T) /\ Rank(j, filter) \in Nat /\ Rank(k, filter) \in Nat
      /\ Len(sequence) \in Nat
  BY RankFacts, SequenceFacts
<1>2. S \in SUBSET T
  BY <1>1
<1>3. j < k /\ k \in Places(filter) => k \in T /\ k \notin S
  BY <1>1
<1> HIDE DEF S, T
<1>4. Cardinality(S) <= Cardinality(T) /\ (Cardinality(S) = Cardinality(T) => S = T)
  BY <1>1, <1>2, FS_Subset
<1>5. Rank(j, filter) = Cardinality(S) /\ Rank(k, filter) = Cardinality(T)
  BY DEF Rank, S, T
<1> QED BY <1>1, <1>3, <1>4, <1>5

\* No place that matches past j: the rank of j is that of the tail.
LEMMA RankOfTail ==
  ASSUME Inv, NEW filter, NEW j \in 0 .. Len(sequence), \A m \in Places(filter) : ~(j < m)
  PROVE  Rank(j, filter) = Cardinality(Places(filter))
<1>1. Places(filter) \subseteq 1 .. Len(sequence) /\ Len(sequence) \in Nat
  BY RankFacts, SequenceFacts
<1>2. Places(filter) \cap (1 .. j) = Places(filter)
  BY <1>1
<1> QED BY <1>2 DEF Rank

LEMMA SeekFinds ==
  ASSUME Inv, NEW filter, NEW j \in 0 .. Len(sequence)
  PROVE  \/ /\ Seek(filter, j + 1) \in Places(filter)
            /\ j < Seek(filter, j + 1)
            /\ \A m \in Places(filter) : j < m => Seek(filter, j + 1) <= m
         \/ /\ Seek(filter, j + 1) = Len(sequence) + 1
            /\ \A m \in Places(filter) : ~(j < m)
<1> DEFINE stops == {k \in (j + 1) .. Len(sequence) : sequence[k] \in filter}
                      \cup {Len(sequence) + 1}
<1>1. DOMAIN sequence = 1 .. Len(sequence) /\ Len(sequence) \in Nat
  BY SequenceFacts
<1>2. stops \in SUBSET Nat /\ stops # {}
  BY <1>1
<1>3. PICK least \in stops : \A k \in stops : least <= k
  BY <1>2, Least
<1>4. Seek(filter, j + 1) \in stops /\ \A k \in stops : Seek(filter, j + 1) <= k
  BY <1>3 DEF Seek, Min
<1>5. \A m : m \in Places(filter) /\ j < m <=> m \in stops /\ m <= Len(sequence)
  BY <1>1 DEF Places
<1>6. \A m \in stops : m <= Len(sequence) \/ m = Len(sequence) + 1
  BY <1>1
<1>7. Len(sequence) + 1 \in stops
  OBVIOUS
<1>8. \A m \in stops : m \in Nat
  BY <1>2
<1> HIDE DEF stops
<1> QED BY <1>1, <1>4, <1>5, <1>6, <1>7, <1>8

\* Iterators that can be met, and what is known of one after n calls.
Iters(filter) ==
  [position : 0 .. Len(sequence), isDone : BOOLEAN, filter : {filter}]
AtRank(iter, n, filter) ==
  /\ iter \in Iters(filter)
  /\ ~iter.isDone =>
       /\ iter.position \in Places(filter) \cup {0}
       /\ Rank(iter.position, filter) = n
  /\ iter.isDone => n > Cardinality(Places(filter))

LEMMA NewIterAtRank ==
  ASSUME Inv, NEW filter PROVE AtRank(NewIter(filter), 0, filter)
BY RankFacts, SequenceFacts DEF AtRank, NewIter, Iters

LEMMA MovedStays ==
  ASSUME Inv, NEW filter, NEW iter \in Iters(filter) PROVE Moved(iter) \in Iters(filter)
<1> DEFINE j == iter.position
           next == Seek(filter, j + 1)
<1>1. /\ j \in 0 .. Len(sequence) /\ iter.filter = filter /\ Len(sequence) \in Nat
      /\ iter = [position |-> j, isDone |-> iter.isDone, filter |-> filter]
      /\ Places(filter) \subseteq 1 .. Len(sequence)
  BY RankFacts, SequenceFacts DEF Iters
<1>2. next \in Places(filter) \/ next = Len(sequence) + 1
  BY <1>1, SeekFinds
<1> HIDE DEF next
<1>3. next \in Nat
  BY <1>1, <1>2
<1>4. CASE ~iter.isDone /\ next <= Len(sequence)
  <2>1. Moved(iter) = [iter EXCEPT !.position = next]
    BY <1>1, <1>4 DEF Moved, next
  <2>2. next \in 0 .. Len(sequence)
    BY <1>1, <1>3, <1>4
  <2> QED BY <2>1, <2>2 DEF Iters
<1>5. CASE ~iter.isDone /\ ~(next <= Len(sequence))
  <2>1. Moved(iter) = [iter EXCEPT !.position = 0, !.isDone = TRUE]
    BY <1>1, <1>5 DEF Moved, next
  <2>2. 0 \in 0 .. Len(sequence)
    BY <1>1
  <2> QED BY <2>1, <2>2 DEF Iters
<1>6. CASE iter.isDone
  BY <1>6 DEF Moved
<1> QED BY <1>4, <1>5, <1>6

LEMMA MovedAtRank ==
  ASSUME Inv, NEW filter, NEW n \in Nat, NEW iter, AtRank(iter, n, filter)
  PROVE  /\ AtRank(Moved(iter), n + 1, filter)
         /\ HasNext(iter) <=> n + 1 <= Cardinality(Places(filter))
<1> DEFINE wanted == Cardinality(Places(filter))
           j == iter.position
           next == Seek(filter, j + 1)
<1>1. /\ iter \in Iters(filter) /\ j \in 0 .. Len(sequence) /\ iter.filter = filter
      /\ iter.isDone \in BOOLEAN /\ Len(sequence) \in Nat
  BY SequenceFacts DEF AtRank, Iters
<1>2. Moved(iter) \in Iters(filter)
  BY <1>1, MovedStays
<1>3. wanted \in Nat /\ Rank(Len(sequence), filter) = wanted
      /\ Places(filter) \subseteq 1 .. Len(sequence)
  BY <1>1, RankFacts
<1>4. CASE iter.isDone
  <2>1. n > wanted
    BY <1>4 DEF AtRank
  <2>2. Moved(iter) = iter /\ ~HasNext(iter)
    BY <1>4 DEF Moved, HasNext
  <2> QED BY <1>2, <1>3, <1>4, <2>1, <2>2 DEF AtRank
<1>5. CASE ~iter.isDone
  <2>1. Rank(j, filter) = n
    BY <1>5 DEF AtRank
  <2>2. CASE next \in Places(filter) /\ j < next /\ \A m \in Places(filter) : j < m => next <= m
    <3>1. Rank(next, filter) = n + 1
      BY <1>1, <2>1, <2>2, RankNext
    <3>2. next \in 1 .. Len(sequence)
      BY <1>3, <2>2
    <3>3. n + 1 <= wanted
      BY <1>1, <1>3, <3>1, <3>2, RankRises
    <3>4. Moved(iter).position = next /\ Moved(iter).isDone = FALSE /\ HasNext(iter)
      BY <1>1, <1>5, <3>2 DEF Moved, HasNext, Iters
    <3> QED BY <1>2, <2>2, <3>1, <3>3, <3>4 DEF AtRank
  <2>3. CASE next = Len(sequence) + 1 /\ \A m \in Places(filter) : ~(j < m)
    <3>1. n = wanted
      BY <1>1, <2>1, <2>3, RankOfTail
    <3>2. Moved(iter).isDone = TRUE /\ ~HasNext(iter)
      BY <1>1, <1>5, <2>3 DEF Moved, HasNext, Iters
    <3> QED BY <1>2, <1>3, <3>1, <3>2 DEF AtRank
  <2> QED BY <1>1, <2>2, <2>3, SeekFinds
<1> QED BY <1>1, <1>4, <1>5

LEMMA CallsDefined ==
  ASSUME Inv, NEW filter
  PROVE  /\ Rounds \in Nat
         /\ Calls(filter) = [n \in 0 .. Rounds |->
              IF n = 0 THEN NewIter(filter) ELSE Moved(Calls(filter)[n - 1])]
<1> DEFINE V == Iters(filter)
           step == [x \in V \X (1 .. Rounds) |-> Moved(x[1])]
<1>1. Rounds \in Nat
  BY SequenceFacts DEF Rounds
<1>2. NewIter(filter) \in V
  BY NewIterAtRank DEF AtRank
<1>3. step \in [V \X (1 .. Rounds) -> V]
  BY MovedStays
<1>4. \A i \in V : \A n \in 1 .. Rounds : step[<<i, n>>] = Moved(i)
  OBVIOUS
<1> HIDE DEF step
<1>5. PICK f : f \in Runs(V, NewIter(filter), step, Rounds)
  BY <1>1, <1>2, <1>3, RunExists
<1>6. f \in [0 .. Rounds -> V] /\ f[0] = NewIter(filter)
      /\ \A n \in 1 .. Rounds : f[n] = step[<<f[n - 1], n>>]
  BY <1>5 DEF Runs
<1> HIDE DEF V
<1>7. \A n \in 1 .. Rounds : f[n] = Moved(f[n - 1])
  <2> TAKE n \in 1 .. Rounds
  <2>1. n - 1 \in 0 .. Rounds
    BY <1>1
  <2>2. f[n - 1] \in V
    BY <1>6, <2>1
  <2> QED BY <1>4, <1>6, <2>2
<1>8. f = [n \in 0 .. Rounds |-> IF n = 0 THEN NewIter(filter) ELSE Moved(f[n - 1])]
  <2>1. f = [n \in 0 .. Rounds |-> f[n]]
    BY <1>6
  <2>2. \A n \in 0 .. Rounds : n # 0 => n \in 1 .. Rounds
    BY <1>1
  <2>3. \A n \in 0 .. Rounds : f[n] = IF n = 0 THEN NewIter(filter) ELSE Moved(f[n - 1])
    BY <1>6, <1>7, <2>2
  <2> QED BY <2>1, <2>3, Zenon
<1>9. \E g : g = [n \in 0 .. Rounds |-> IF n = 0 THEN NewIter(filter) ELSE Moved(g[n - 1])]
  BY <1>8, Zenon
<1>10. Calls(filter) = CHOOSE g :
         g = [n \in 0 .. Rounds |-> IF n = 0 THEN NewIter(filter) ELSE Moved(g[n - 1])]
  BY Zenon DEF Calls
<1> QED BY <1>1, <1>9, <1>10, Zenon

LEMMA CallsAtRank ==
  ASSUME Inv, NEW filter
  PROVE  \A n \in 0 .. Rounds : AtRank(Calls(filter)[n], n, filter)
<1> DEFINE iter == Calls(filter)
           Good == {n \in 0 .. Rounds : AtRank(iter[n], n, filter)}
<1>1. Rounds \in Nat /\ iter = [n \in 0 .. Rounds |->
        IF n = 0 THEN NewIter(filter) ELSE Moved(iter[n - 1])]
  BY CallsDefined
<1> HIDE DEF iter
<1>2. 0 \in Good
  <2>1. 0 \in 0 .. Rounds
    BY <1>1
  <2>2. iter[0] = NewIter(filter)
    BY <1>1, <2>1, Zenon
  <2> QED BY <2>1, <2>2, NewIterAtRank
<1>3. \A n \in 1 .. Rounds : n - 1 \in Good => n \in Good
  <2> TAKE n \in 1 .. Rounds
  <2> HAVE n - 1 \in Good
  <2>1. n \in 0 .. Rounds /\ n # 0 /\ n - 1 \in Nat /\ (n - 1) + 1 = n
    BY <1>1
  <2>2. iter[n] = Moved(iter[n - 1])
    BY <1>1, <2>1, Zenon
  <2>3. AtRank(iter[n - 1], n - 1, filter)
    OBVIOUS
  <2>4. AtRank(Moved(iter[n - 1]), (n - 1) + 1, filter)
    BY <2>1, <2>3, MovedAtRank
  <2> QED BY <2>1, <2>2, <2>4
<1> HIDE DEF Good
<1>4. \A n \in 0 .. Rounds : n \in Good
  BY <1>1, <1>2, <1>3, StepByStep
<1> QED BY <1>4 DEF Good, iter

LEMMA IterFollowsRanks == Inv => IterGivesMatches
<1> SUFFICES ASSUME Inv, NEW filter \in SUBSET Entities
             PROVE  LET iter   == Calls(filter)
                        wanted == Cardinality(Places(filter))
                    IN  /\ \A k \in Places(filter) : Current(iter[Rank(k, filter)]) = sequence[k]
                        /\ \A n \in 1 .. Rounds : HasNext(iter[n - 1]) <=> n <= wanted
                        /\ \A n \in 1 .. Rounds : n > wanted => Current(iter[n]) = Nothing
    BY DEF IterGivesMatches
<1> DEFINE iter == Calls(filter)
           wanted == Cardinality(Places(filter))
<1>1. /\ Rounds = Len(sequence) + 2 /\ Len(sequence) \in Nat /\ Rounds \in Nat
      /\ wanted \in Nat /\ Rank(Len(sequence), filter) = wanted
      /\ Places(filter) \subseteq 1 .. Len(sequence) /\ Rank(0, filter) = 0
      /\ \A k \in 0 .. Len(sequence) : Rank(k, filter) \in Nat
  <2>1. Rounds = Len(sequence) + 2 /\ Len(sequence) \in Nat
    BY SequenceFacts DEF Rounds
  <2>2. /\ Places(filter) \subseteq 1 .. Len(sequence) /\ Rank(0, filter) = 0
        /\ wanted \in Nat /\ Rank(Len(sequence), filter) = wanted
        /\ \A k \in 0 .. Len(sequence) : Rank(k, filter) \in Nat
    BY RankFacts
  <2> QED BY <2>1, <2>2
<1>2. \A n \in 0 .. Rounds : AtRank(iter[n], n, filter)
  BY CallsAtRank
<1>3. wanted <= Len(sequence)
  <2>1. IsFiniteSet(1 .. Len(sequence)) /\ Cardinality(1 .. Len(sequence)) = Len(sequence)
    <3>1. /\ IsFiniteSet(1 .. Len(sequence))
          /\ Cardinality(1 .. Len(sequence)) =
               IF 1 > Len(sequence) THEN 0 ELSE Len(sequence) - 1 + 1
      <4>1. PICK n \in Int : n = Len(sequence)
        BY <1>1
      <4>2. IsFiniteSet(1 .. n) /\ Cardinality(1 .. n) = IF 1 > n THEN 0 ELSE n - 1 + 1
        BY FS_Interval
      <4> QED BY <4>1, <4>2
    <3> QED BY <1>1, <3>1
  <2>2. Places(filter) \in SUBSET (1 .. Len(sequence))
    BY <1>1
  <2> QED BY <2>1, <2>2, FS_Subset
<1> HIDE DEF iter, wanted
<1>4. ASSUME NEW k \in Places(filter) PROVE Current(iter[Rank(k, filter)]) = sequence[k]
  <2> DEFINE n == Rank(k, filter)
             j == iter[n].position
  <2>1. k \in 1 .. Len(sequence) /\ k \in 0 .. Len(sequence) /\ 0 \in 0 .. Len(sequence)
    BY <1>1
  <2>2. n \in Nat /\ 0 < n /\ n <= wanted
    <3>1. Rank(k, filter) <= Rank(Len(sequence), filter)
      BY <1>1, <2>1, RankRises
    <3>2. Rank(0, filter) < Rank(k, filter)
      BY <1>1, <2>1, RankRises
    <3> QED BY <1>1, <2>1, <3>1, <3>2
  <2>3. AtRank(iter[n], n, filter)
    BY <1>1, <1>2, <1>3, <2>2
  <2>4. ~iter[n].isDone /\ j \in Places(filter) \cup {0} /\ Rank(j, filter) = n
    BY <1>1, <2>2, <2>3 DEF AtRank, wanted
  <2>5. j \in 1 .. Len(sequence) /\ j \in Places(filter)
    BY <1>1, <2>2, <2>4
  <2>6. j = k
    <3>1. ~(j < k)
      BY <1>1, <2>1, <2>4, <2>5, RankRises
    <3>2. ~(k < j)
      BY <1>1, <2>1, <2>4, <2>5, RankRises
    <3> QED BY <2>1, <2>5, <3>1, <3>2
  <2> QED BY <2>4, <2>6 DEF Current
<1>5. ASSUME NEW n \in 1 .. Rounds
      PROVE  /\ HasNext(iter[n - 1]) <=> n <= wanted
             /\ n > wanted => Current(iter[n]) = Nothing
  <2>1. n - 1 \in Nat /\ n - 1 \in 0 .. Rounds /\ (n - 1) + 1 = n /\ n \in 0 .. Rounds
    BY <1>1
  <2>2. HasNext(iter[n - 1]) <=> (n - 1) + 1 <= Cardinality(Places(filter))
    BY <1>2, <2>1, MovedAtRank
  <2>3. AtRank(iter[n], n, filter)
    BY <1>2, <2>1
  <2>4. ASSUME n > wanted PROVE iter[n].isDone
    <3> SUFFICES ASSUME ~iter[n].isDone PROVE FALSE
        BY <2>3 DEF AtRank, Iters
    <3>1. iter[n].position \in 0 .. Len(sequence) /\ Rank(iter[n].position, filter) = n
      BY <1>1, <2>3 DEF AtRank
    <3>2. n <= wanted
      BY <1>1, <3>1, RankRises
    <3> QED BY <1>1, <2>1, <2>4, <3>2
  <2> QED BY <2>1, <2>2, <2>4 DEF Current, wanted
<1> QED BY <1>4, <1>5 DEF iter, wanted

\* Whatever the filter, an iterator called again and again gives the
\* structures that match in the order of the sequence, each once, tells
\* before every call whether that call gives one, and gives nothing after.
THEOREM IteratorsGiveMatches == Spec => []IterGivesMatches
BY IterFollowsRanks, InvAlways, PTL
=============================================================================
