-------------------------- MODULE StructuresProofs --------------------------
(* Proofs about Structures, for any shapes of structures, any values, and    *)
(* tables of any length.                                                     *)
EXTENDS Structures, Recursions

-----------------------------------------------------------------------------
(* The inductive invariant: overlays                                         *)

\* An entry the overlay stage has gone past.
Processed(p) == p[1] < cursor \/ (p[1] = cursor /\ p[2] < entry)
Handled(p)   == IF stage = "overlay" THEN Processed(p) ELSE stage # "failed"

\* Entries are being read of a structure that has them.
EntriesAreRead ==
  /\ stage # "overlay" => entry = 0 \/ stage = "failed"
  /\ stage = "overlay" /\ entry # 0 =>
       /\ overlaying
       /\ cursor \in Positions
       /\ Role(cursor) = "info"
       /\ cursor \in decoded
       /\ entry <= Len(table[cursor].entries) + 1

\* The entries attached to a structure are those that refer to it among the
\* ones gone past, the last of them at the end.
OverlaysFollowTable ==
  \A e \in Positions :
    /\ \A k \in DOMAIN overlays[e] :
         /\ overlays[e][k] \in EntriesOf(e)
         /\ Before(overlays[e][k], overlays[e][Len(overlays[e])])
         /\ stage = "overlay" => Processed(overlays[e][k])
    /\ \A p \in EntriesOf(e) : Handled(p) => \E k \in DOMAIN overlays[e] : overlays[e][k] = p

\* Copies are made when no entry is attached any more.
CopiesAreOverlaid ==
  \A e \in Positions : /\ copy[e] = <<>> \/ copy[e] = overlays[e]
                       /\ stage = "overlay" => copy[e] = <<>>

\* What is decoded can be, and is only additional information at first.
DecodedIsDecodable ==
  \A e \in decoded : /\ Decodable(e)
                     /\ stage = "overlay" => Role(e) = "info"

OverlayInv == /\ TypeOK /\ EntriesAreRead /\ OverlaysFollowTable /\ CopiesAreOverlaid
              /\ DecodedIsDecodable /\ DecodedAsOverlaid

-----------------------------------------------------------------------------
(* The inductive invariant: reports and verdicts                             *)

StarvingIsKnown == starving => Starved

\* What the overlay stage has gone past is attached or reported.
OverlayReports ==
  stage = "overlay" /\ overlaying =>
    /\ \A e \in IsOf("info") : e < cursor /\ Spoiled(e) => Own(e) \in raised /\ ~clean
    /\ \A p \in Pairs : Processed(p) /\ ~Fitting(p) => <<"entry", p[1], p[2]>> \in raised /\ ~clean

\* What the decode stage has gone past is decoded or reported.
DecodeReports ==
  /\ stage = "decode" =>
       \A e \in Positions : e < cursor /\ Role(e) # "opaque" =>
         e \in decoded \/ (Spoiled(e) /\ Own(e) \in raised /\ ~clean)
  /\ stage \in {"link", "open"} =>
       \A e \in Positions : Decodable(e) => e \in decoded

\* What the link stage has gone past is linked or reported.
LinkReports ==
  /\ stage = "link" => linking
  /\ stage \notin {"link", "open", "failed"} => linked = {}
  /\ stage = "link" =>
       \A e \in decoded : e < cursor /\ Linkable(e) /\ e \notin linked =>
         /\ ~clean
         /\ Unlinked(e) # {} \/ <<"memory", e, 0>> \in raised
  /\ stage = "link" =>
       \A e \in decoded : e < cursor /\ Linkable(e) =>
         \A k \in Unlinked(e) :
           <<"reference", e, k>> \in raised \/ <<"memory", e, 0>> \in raised
  /\ stage = "link" => \A e \in linked : e < cursor

\* In strict mode a stage that is over has found nothing wrong.
StrictStages ==
  strict /\ stage # "failed" =>
    /\ stage # "overlay" => OverlayFaults = {}
    /\ stage \notin {"overlay", "vendor"} => IsOf("firmware") # {}
    /\ stage \in {"link", "open"} =>
         \A e \in Positions : Role(e) # "opaque" => e \in decoded
    /\ stage = "open" /\ linking => \A e \in Positions : Linkable(e) => e \in linked

VerdictInv == /\ StarvingIsKnown /\ OverlayReports /\ DecodeReports /\ LinkReports
              /\ StrictStages /\ RelaxedSurvives /\ OnlyFaultsReported
              /\ LinkVerdict /\ PropertiesInOrder

-----------------------------------------------------------------------------
(* The table                                                                 *)

Record == [role : Roles, long : BOOLEAN, value : Values,
           entries : Seq(Entries), refs : Seq(Nat)]

LEMMA TableIsWhole ==
  ASSUME table \in Tables
  PROVE  /\ Len(table) \in Nat
         /\ Positions \subseteq Nat \ {0}
         /\ \A e \in Positions : /\ table[e] \in Record
                                 /\ table[e].role = "property" => Len(table[e].refs) = 1
PROOF
<1>1. PICK n \in 0..MaxLength : table \in [1..n -> Shapes]
  BY DEF Tables
<1>2. n \in Nat
  BY BoundsAssumption
<1>3. table \in Seq(Shapes) /\ Len(table) = n
  BY <1>1, <1>2
<1> QED
  BY <1>1, <1>2, <1>3, ShapesAssumption DEF Positions, Record

\* What is said of the table only stays as it is.
LEMMA TableStays ==
  ASSUME UNCHANGED flags
  PROVE  /\ Positions' = Positions /\ Pairs' = Pairs /\ (table \in Tables)' = (table \in Tables)
         /\ \A e : /\ Role(e)' = Role(e) /\ Content(e)' = Content(e)
                   /\ Decodable(e)' = Decodable(e) /\ EntriesOf(e)' = EntriesOf(e)
                   /\ Unlinked(e)' = Unlinked(e) /\ Linkable(e)' = Linkable(e)
                   /\ Refs(e)' = Refs(e) /\ Parent(e)' = Parent(e)
                   /\ Own(e)' = Own(e) /\ Spoiled(e)' = Spoiled(e)
                   /\ IsOf(e)' = IsOf(e)
         /\ \A p : Fitting(p)' = Fitting(p) /\ ValueOf(p)' = ValueOf(p)
         /\ UNCHANGED <<OverlayFaults, DecodeFaults, LinkFaults>>
PROOF
<1> USE DEF flags
<1>1. /\ Positions' = Positions /\ (table \in Tables)' = (table \in Tables)
      /\ \A e : Role(e)' = Role(e) /\ Refs(e)' = Refs(e)
  BY DEF Positions, Tables, Role, Refs
<1>2. \A p : EntryOf(p)' = EntryOf(p) /\ ValueOf(p)' = ValueOf(p)
  BY DEF EntryOf, ValueOf
<1>3. Pairs' = Pairs
  BY <1>1 DEF Pairs, Informs
<1>4. \A p : Fitting(p)' = Fitting(p)
  BY <1>1, <1>2 DEF Fitting, Found
<1>5. \A e : EntriesOf(e)' = EntriesOf(e)
  BY <1>2, <1>3, <1>4 DEF EntriesOf
<1>6. \A e : Content(e)' = Content(e)
  BY <1>2, <1>5 DEF Content
<1>7. \A e : /\ Decodable(e)' = Decodable(e) /\ Spoiled(e)' = Spoiled(e) /\ Own(e)' = Own(e)
             /\ Parent(e)' = Parent(e) /\ IsOf(e)' = IsOf(e) /\ Linkable(e)' = Linkable(e)
  BY <1>1, <1>6 DEF Decodable, Spoiled, Own, Parent, IsOf, Linkable
<1>8. \A e : Broken(e)' = Broken(e) /\ \A p : CanHave(p)' = CanHave(p)
  BY <1>1 DEF Broken, CanHave, Resolves, Found
<1>9. \A e : Unlinked(e)' = Unlinked(e)
  BY <1>1, <1>7, <1>8 DEF Unlinked
<1>10. UNCHANGED <<OverlayFaults, DecodeFaults>>
  BY <1>1, <1>3, <1>4, <1>7 DEF OverlayFaults, DecodeFaults
<1>11. UNCHANGED LinkFaults
  BY <1>1, <1>7, <1>9 DEF LinkFaults
<1> QED
  BY <1>1, <1>2, <1>3, <1>4, <1>5, <1>6, <1>7, <1>9, <1>10, <1>11

-----------------------------------------------------------------------------
(* Entries and what is decoded                                               *)

LEMMA PairsAreEntries ==
  ASSUME table \in Tables, NEW p \in Pairs
  PROVE  /\ p = <<p[1], p[2]>>
         /\ p[1] \in Positions /\ p[1] \in Nat /\ Informs(p[1])
         /\ p[2] \in DOMAIN table[p[1]].entries /\ p[2] \in Nat \ {0}
         /\ ValueOf(p) \in Values
PROOF
<1>1. PICK i \in Positions : Informs(i) /\ p \in {<<i, k>> : k \in DOMAIN table[i].entries}
  BY DEF Pairs
<1>2. PICK k \in DOMAIN table[i].entries : p = <<i, k>>
  BY <1>1
<1>3. table[i].entries \in Seq(Entries) /\ i \in Nat
  BY <1>1, TableIsWhole DEF Record
<1>4. k \in Nat \ {0} /\ table[i].entries[k] \in Entries
  BY <1>2, <1>3
<1> QED
  BY <1>1, <1>2, <1>3, <1>4 DEF ValueOf, Entries

LEMMA LastOfIsLast ==
  ASSUME NEW pairs, NEW p \in pairs,
         \A q \in pairs : /\ q = <<q[1], q[2]>> /\ q[1] \in Nat /\ q[2] \in Nat
                          /\ Before(q, p)
  PROVE  LastOf(pairs) = p
PROOF
<1>1. LastOf(pairs) \in pairs /\ \A q \in pairs : Before(q, LastOf(pairs))
  BY DEF LastOf
<1> QED
  BY <1>1 DEF Before

LEMMA InfoHasNoOverlays ==
  ASSUME OverlayInv, NEW e \in Positions, Role(e) = "info"
  PROVE  EntriesOf(e) = {} /\ overlays[e] = <<>> /\ copy[e] = <<>>
PROOF
<1>1. EntriesOf(e) = {}
  BY DEF EntriesOf, Fitting
<1>2. overlays[e] \in Seq(Positions \X (Nat \ {0}))
  BY DEF OverlayInv, TypeOK
<1>3. DOMAIN overlays[e] = {}
  BY <1>1 DEF OverlayInv, OverlaysFollowTable
<1>4. overlays[e] = <<>>
  <2>1. Len(overlays[e]) \in Nat /\ DOMAIN overlays[e] = 1..Len(overlays[e])
    BY <1>2, LenProperties
  <2>2. Len(overlays[e]) = 0
    <3> DEFINE n == Len(overlays[e])
    <3> HIDE DEF n
    <3>1. n \in Nat /\ 1..n = {}
      BY <1>3, <2>1 DEF n
    <3> QED
      BY <3>1 DEF n
  <2> QED
    BY <1>2, <2>2, EmptySeq
<1> QED
  BY <1>1, <1>4 DEF OverlayInv, CopiesAreOverlaid

\* What is attached when a structure is decoded is all that refers to it.
LEMMA ReadIsContent ==
  ASSUME OverlayInv, NEW e \in Positions,
         stage \notin {"overlay", "failed"} \/ Role(e) = "info"
  PROVE  Body(e) = overlays[e] /\ Read(e) = Content(e) /\ Content(e) \in Values
PROOF
<1>1. table \in Tables /\ table[e] \in Record
  BY TableIsWhole DEF OverlayInv, TypeOK
<1>2. Body(e) = overlays[e]
  BY DEF Body, OverlayInv, CopiesAreOverlaid
<1>3. overlays[e] \in Seq(Positions \X (Nat \ {0}))
  BY DEF OverlayInv, TypeOK
<1>4. CASE Role(e) = "info"
  BY <1>1, <1>2, <1>4, InfoHasNoOverlays DEF Read, Content, Record
<1>5. CASE stage \notin {"overlay", "failed"}
  <2>1. \A p \in EntriesOf(e) : \E k \in DOMAIN overlays[e] : overlays[e][k] = p
    BY <1>5 DEF OverlayInv, OverlaysFollowTable, Handled
  <2>2. \A k \in DOMAIN overlays[e] : overlays[e][k] \in EntriesOf(e)
    BY DEF OverlayInv, OverlaysFollowTable
  <2>3. CASE overlays[e] = <<>>
    <3>1. EntriesOf(e) = {}
      BY <2>1, <2>3
    <3> QED
      BY <1>1, <1>2, <2>3, <3>1 DEF Read, Content, Record
  <2>4. CASE overlays[e] # <<>>
    <3> DEFINE last == overlays[e][Len(overlays[e])]
    <3>1. Len(overlays[e]) \in DOMAIN overlays[e]
      BY <1>3, <2>4
    <3>2. last \in EntriesOf(e) /\ \A q \in EntriesOf(e) : q \in Pairs /\ Before(q, last)
      <4>1. \A k \in DOMAIN overlays[e] : Before(overlays[e][k], last)
        BY DEF OverlayInv, OverlaysFollowTable
      <4> QED
        BY <2>1, <2>2, <3>1, <4>1 DEF EntriesOf
    <3>3. LastOf(EntriesOf(e)) = last
      <4> HIDE DEF last
      <4>1. \A q \in EntriesOf(e) : q = <<q[1], q[2]>> /\ q[1] \in Nat /\ q[2] \in Nat
        BY <1>1, <3>2, PairsAreEntries
      <4> QED
        BY <3>2, <4>1, LastOfIsLast
    <3>4. ValueOf(last) \in Values
      <4> HIDE DEF last
      <4> QED
        BY <1>1, <3>2, PairsAreEntries
    <3> QED
      BY <1>2, <2>4, <3>2, <3>3, <3>4 DEF Read, Content, Applied
  <2> QED
    BY <2>3, <2>4
<1> QED
  BY <1>4, <1>5

\* What becomes of a structure a stage decodes.
LEMMA DecodeFacts ==
  ASSUME OverlayInv, NEW e \in Positions, NEW outcome, Decode(e, outcome),
         stage \notin {"overlay", "failed"} \/ Role(e) = "info"
  PROVE  /\ UNCHANGED <<overlays, linked, targets, properties>>
         /\ copy' = copy \/ copy' = [copy EXCEPT ![e] = overlays[e]]
         /\ \/ UNCHANGED <<decoded, info>>
            \/ /\ Decodable(e) /\ Content(e) \in Values
               /\ decoded' = decoded \cup {e}
               /\ info' = [info EXCEPT ![e] = Content(e)]
         /\ outcome \in Succeeded => e \in decoded' \/ Role(e) = "opaque"
         /\ \/ outcome \in Succeeded /\ UNCHANGED errors
            \/ outcome = "mistaken" /\ starving /\ UNCHANGED errors
            \/ outcome = "memory" /\ starving' = TRUE /\ raised' = raised \cup {<<"memory", e, 0>>}
            \/ /\ outcome \notin Succeeded \cup Starving
               /\ Spoiled(e) /\ starving' = FALSE /\ raised' = raised \cup {Own(e)}
PROOF
<1>1. Body(e) = overlays[e] /\ Read(e) = Content(e) /\ Content(e) \in Values
  BY ReadIsContent
<1>2. outcome \in Outcomes(e)
  BY DEF Decode
<1>3. copy' = copy \/ copy' = [copy EXCEPT ![e] = overlays[e]]
  BY <1>1 DEF Decode
<1>4. CASE e \in decoded \/ Role(e) = "opaque"
  BY <1>2, <1>3, <1>4 DEF Decode, Outcomes, Raise, Succeeded, Starving
<1>5. CASE e \notin decoded /\ Role(e) # "opaque" /\ ~table[e].long
  BY <1>2, <1>3, <1>5 DEF Decode, Outcomes, Raise, Succeeded, Starving, Spoiled, Decodable, Own
<1>6. CASE e \notin decoded /\ Role(e) # "opaque" /\ table[e].long /\ Content(e) \notin Malformed
  BY <1>1, <1>2, <1>3, <1>6 DEF Decode, Outcomes, Raise, Succeeded, Starving, Decodable
<1>7. CASE e \notin decoded /\ Role(e) # "opaque" /\ table[e].long /\ Content(e) \in Malformed
  BY <1>1, <1>2, <1>3, <1>7
  DEF Decode, Outcomes, Raise, Succeeded, Starving, Spoiled, Decodable, Own
<1> QED
  BY <1>4, <1>5, <1>6, <1>7

-----------------------------------------------------------------------------
(* Steps keep OverlayInv                                                     *)

LEMMA FlagsStay == ASSUME Next PROVE UNCHANGED flags
  BY DEF Next, Enter, FailOpening, Advance, flags, entities, errors,
         SkipOverlays, PassByInfo, AttachEntry, AttachWithoutMemory, RefuseEntry, PassEntries,
         FinishOverlays, MissFirmware, MissPlatformInfo, PassByProcessor, FinishProcessors,
         SetupModules, FinishDecode, PassByUnlinked, LinkReferences, LinkWithoutMemory,
         LinkProperty, LinkPropertyWithoutMemory, RefuseProperty, FinishLink, DecodeInfo,
         DecodeFirmware, DecodePlatformInfo, DecodeProcessor, DecodeStructure

LEMMA FirstIsThere ==
  ASSUME table \in Tables, NEW role, IsOf(role) # {}
  PROVE  First(role) \in Positions /\ Role(First(role)) = role
PROOF
<1>1. IsOf(role) \subseteq Positions /\ Positions \subseteq Nat
  BY TableIsWhole DEF IsOf
<1>2. \E e \in IsOf(role) : \A f \in IsOf(role) : e <= f
  BY <1>1, Least
<1> QED
  BY <1>1, <1>2 DEF First, IsOf

LEMMA OverlaysStay ==
  ASSUME OverlayInv, UNCHANGED flags, overlays' = overlays,
         stage' = "overlay" =>
           stage = "overlay" /\ \A p \in Pairs : Processed(p) => Processed(p)',
         \A e \in Positions : \A p \in EntriesOf(e) : Handled(p)' => Handled(p)
  PROVE  OverlaysFollowTable'
PROOF
<1>1. Positions' = Positions /\ \A e : EntriesOf(e)' = EntriesOf(e)
  BY TableStays
<1>2. \A e : EntriesOf(e) \subseteq Pairs
  BY DEF EntriesOf
<1>3. OverlaysFollowTable
  BY DEF OverlayInv
<1> SUFFICES ASSUME NEW e \in Positions
             PROVE  /\ \A k \in DOMAIN overlays[e] :
                         /\ overlays[e][k] \in EntriesOf(e)
                         /\ Before(overlays[e][k], overlays[e][Len(overlays[e])])
                         /\ stage' = "overlay" => Processed(overlays[e][k])'
                    /\ \A p \in EntriesOf(e) : Handled(p)' =>
                         \E k \in DOMAIN overlays[e] : overlays[e][k] = p
  BY <1>1 DEF OverlaysFollowTable, Processed
<1>4. ASSUME NEW k \in DOMAIN overlays[e]
      PROVE  /\ overlays[e][k] \in EntriesOf(e)
             /\ Before(overlays[e][k], overlays[e][Len(overlays[e])])
             /\ stage' = "overlay" => Processed(overlays[e][k])'
  <2> DEFINE q == overlays[e][k]
  <2>1. q \in EntriesOf(e) /\ Before(q, overlays[e][Len(overlays[e])])
    BY <1>3 DEF OverlaysFollowTable
  <2>2. stage' = "overlay" => Processed(q) /\ q \in Pairs
    BY <1>2, <1>3 DEF OverlaysFollowTable
  <2>3. stage' = "overlay" => Processed(q)'
    BY <1>1, <2>2
  <2> QED
    BY <2>1, <2>3
<1>5. ASSUME NEW p \in EntriesOf(e), Handled(p)'
      PROVE  \E k \in DOMAIN overlays[e] : overlays[e][k] = p
  BY <1>3, <1>5 DEF OverlaysFollowTable
<1> QED
  BY <1>4, <1>5

\* A step that decodes a structure, or none.
Decodes == \E e \in Positions, o \in DecodeOutcomes :
             /\ stage \notin {"overlay", "failed"} \/ Role(e) = "info"
             /\ Decode(e, o)
Retains == UNCHANGED <<decoded, info, overlays, copy>>

LEMMA DecodedStays ==
  ASSUME OverlayInv, UNCHANGED flags, Decodes \/ Retains,
         stage' = "overlay" => stage = "overlay"
  PROVE  CopiesAreOverlaid' /\ DecodedIsDecodable' /\ DecodedAsOverlaid' /\ overlays' = overlays
PROOF
<1>1. /\ Positions' = Positions
      /\ \A e : Role(e)' = Role(e) /\ Content(e)' = Content(e) /\ Decodable(e)' = Decodable(e)
  BY TableStays
<1>2. /\ TypeOK /\ CopiesAreOverlaid /\ DecodedIsDecodable /\ DecodedAsOverlaid
      /\ decoded \subseteq Positions
      /\ copy \in [Positions -> Seq(Positions \X (Nat \ {0}))]
      /\ info \in [Positions -> Values \cup {Nothing}]
  BY DEF OverlayInv, TypeOK
<1>3. CASE Retains
  BY <1>1, <1>2, <1>3
  DEF Retains, CopiesAreOverlaid, DecodedIsDecodable, DecodedAsOverlaid
<1>4. CASE Decodes
  <2>1. PICK e \in Positions, outcome \in DecodeOutcomes :
          /\ stage \notin {"overlay", "failed"} \/ Role(e) = "info"
          /\ Decode(e, outcome)
    BY <1>4 DEF Decodes
  <2>2. /\ overlays' = overlays
        /\ copy' = copy \/ copy' = [copy EXCEPT ![e] = overlays[e]]
        /\ \/ UNCHANGED <<decoded, info>>
           \/ /\ Decodable(e)
              /\ decoded' = decoded \cup {e}
              /\ info' = [info EXCEPT ![e] = Content(e)]
    BY <2>1, DecodeFacts
  <2>3. stage = "overlay" => overlays[e] = <<>> /\ Role(e) = "info"
    BY <2>1, InfoHasNoOverlays
  <2>4. CopiesAreOverlaid'
    BY <1>1, <1>2, <2>2, <2>3 DEF CopiesAreOverlaid
  <2>5. DecodedIsDecodable'
    BY <1>1, <1>2, <2>2, <2>3 DEF DecodedIsDecodable
  <2>6. DecodedAsOverlaid'
    BY <1>1, <1>2, <2>2 DEF DecodedAsOverlaid
  <2> QED
    BY <2>2, <2>4, <2>5, <2>6
<1> QED
  BY <1>3, <1>4, <1>2 DEF Retains

\* Steps of the stages that follow, and steps of the first that attach nothing.
LEMMA LaterStep ==
  ASSUME OverlayInv, UNCHANGED flags, Decodes \/ Retains, TypeOK',
         stage \notin {"overlay", "failed"}, stage' # "overlay", entry' = 0 \/ stage' = "failed"
  PROVE  OverlayInv'
PROOF
<1>1. \A p : Handled(p)
  BY DEF Handled
<1>2. CopiesAreOverlaid' /\ DecodedIsDecodable' /\ DecodedAsOverlaid' /\ overlays' = overlays
  BY DecodedStays
<1>3. OverlaysFollowTable'
  BY <1>1, <1>2, OverlaysStay
<1>4. EntriesAreRead'
  BY DEF EntriesAreRead
<1> QED
  BY <1>2, <1>3, <1>4 DEF OverlayInv

LEMMA OverlayStep ==
  ASSUME OverlayInv, UNCHANGED flags, Decodes \/ Retains, TypeOK', EntriesAreRead',
         stage = "overlay",
         stage' = "overlay" => \A p \in Pairs : Processed(p) => Processed(p)',
         \A e \in Positions : \A p \in EntriesOf(e) : Handled(p)' => Handled(p)
  PROVE  OverlayInv'
PROOF
<1>1. CopiesAreOverlaid' /\ DecodedIsDecodable' /\ DecodedAsOverlaid' /\ overlays' = overlays
  BY DecodedStays
<1>2. OverlaysFollowTable'
  BY <1>1, OverlaysStay
<1> QED
  BY <1>1, <1>2 DEF OverlayInv

-----------------------------------------------------------------------------
(* Types                                                                     *)

EntitiesTyped ==
  /\ decoded \subseteq Positions
  /\ info \in [Positions -> Values \cup {Nothing}]
  /\ overlays \in [Positions -> Seq(Positions \X (Nat \ {0}))]
  /\ copy \in [Positions -> Seq(Positions \X (Nat \ {0}))]
  /\ linked \subseteq Positions
  /\ targets \in [Positions -> Seq(Positions \cup {Nowhere})]
  /\ properties \in [Positions -> Seq(Positions)]

ErrorsTyped ==
  /\ raised \subseteq ({"short", "malformed", "memory", "entry", "reference", "firmware",
                        "modules"} \X Nat \X Nat)
  /\ starving \in BOOLEAN

ControlTyped == /\ stage \in Stages
                /\ cursor \in 1..(Len(table) + 1)
                /\ entry \in Nat
                /\ clean \in BOOLEAN

StatusTyped == status \subseteq {"Scanned", "Overlaid", "Decoded", "Linked"}

LEMMA TypeParts ==
  TypeOK <=> /\ table \in Tables
             /\ strict \in BOOLEAN /\ overlaying \in BOOLEAN /\ linking \in BOOLEAN
             /\ EntitiesTyped /\ ErrorsTyped /\ ControlTyped /\ StatusTyped
  BY DEF TypeOK, EntitiesTyped, ErrorsTyped, ControlTyped, StatusTyped

LEMMA TypesStay ==
  ASSUME TypeOK, UNCHANGED flags
  PROVE  /\ EntitiesTyped /\ ErrorsTyped /\ ControlTyped /\ StatusTyped
         /\ UNCHANGED entities => EntitiesTyped'
         /\ UNCHANGED errors => ErrorsTyped'
         /\ UNCHANGED status => StatusTyped'
         /\ EntitiesTyped' /\ ErrorsTyped' /\ ControlTyped' /\ StatusTyped' => TypeOK'
PROOF
<1>1. UNCHANGED Positions
  BY TableStays
<1>2. /\ table \in Tables /\ strict \in BOOLEAN /\ overlaying \in BOOLEAN /\ linking \in BOOLEAN
      /\ EntitiesTyped /\ ErrorsTyped /\ ControlTyped /\ StatusTyped
  BY TypeParts
<1>3. UNCHANGED entities => EntitiesTyped'
  BY <1>1, <1>2 DEF entities, EntitiesTyped
<1>4. UNCHANGED errors => ErrorsTyped'
  BY <1>2 DEF errors, ErrorsTyped
<1>5. UNCHANGED status => StatusTyped'
  BY <1>2 DEF StatusTyped
<1>6. EntitiesTyped' /\ ErrorsTyped' /\ ControlTyped' /\ StatusTyped' => TypeOK'
  <2> SUFFICES ASSUME EntitiesTyped' /\ ErrorsTyped' /\ ControlTyped' /\ StatusTyped'
               PROVE  TypeOK'
    OBVIOUS
  <2>1. (table \in Tables)' /\ (strict \in BOOLEAN /\ overlaying \in BOOLEAN /\ linking \in BOOLEAN)'
    BY <1>2, TableStays DEF flags
  <2> QED
    BY <2>1 DEF TypeOK, EntitiesTyped, ErrorsTyped, ControlTyped, StatusTyped
<1> QED
  BY <1>2, <1>3, <1>4, <1>5, <1>6

\* The control of opening is typed by the ways a stage goes on.
LEMMA ControlStays ==
  ASSUME TypeOK, UNCHANGED flags
  PROVE  /\ \A next \in Stages : Enter(next) => ControlTyped'
         /\ FailOpening => ControlTyped'
         /\ Advance /\ cursor \in Positions /\ clean' \in BOOLEAN => ControlTyped'
         /\ UNCHANGED <<stage, cursor>> /\ entry' \in Nat /\ clean' \in BOOLEAN => ControlTyped'
PROOF
<1>1. ControlTyped /\ Len(table) \in Nat /\ Len(table') = Len(table) /\ Positions = 1..Len(table)
  BY TypeParts, TableIsWhole DEF flags, Positions
<1>2. ASSUME NEW next \in Stages, Enter(next) PROVE ControlTyped'
  BY <1>1, <1>2 DEF Enter, ControlTyped
<1>3. ASSUME FailOpening PROVE ControlTyped'
  BY <1>1, <1>3 DEF FailOpening, ControlTyped, Stages
<1>4. ASSUME Advance, cursor \in Positions, clean' \in BOOLEAN PROVE ControlTyped'
  BY <1>1, <1>4 DEF Advance, ControlTyped
<1>5. ASSUME UNCHANGED <<stage, cursor>>, entry' \in Nat, clean' \in BOOLEAN PROVE ControlTyped'
  BY <1>1, <1>5 DEF ControlTyped
<1> QED
  BY <1>2, <1>3, <1>4, <1>5

LEMMA ReportTypes ==
  ASSUME TypeOK, NEW faults, Report(faults),
         faults \subseteq ({"short", "malformed", "memory", "entry", "reference", "firmware",
                            "modules"} \X Nat \X Nat)
  PROVE  ErrorsTyped'
  BY TypeParts DEF Report, ErrorsTyped

LEMMA DecodeTypes ==
  ASSUME OverlayInv, UNCHANGED flags, NEW e \in Positions, NEW outcome, Decode(e, outcome),
         stage \notin {"overlay", "failed"} \/ Role(e) = "info"
  PROVE  EntitiesTyped' /\ ErrorsTyped'
PROOF
<1>1. TypeOK /\ EntitiesTyped /\ ErrorsTyped /\ table \in Tables
  BY TypeParts DEF OverlayInv
<1>2. e \in Nat /\ UNCHANGED Positions
  BY <1>1, TableIsWhole, TableStays
<1>3. Own(e) \in {"short", "malformed"} \X Nat \X Nat /\ <<"memory", e, 0>> \in {"memory"} \X Nat \X Nat
  BY <1>2 DEF Own
<1>4. /\ UNCHANGED <<overlays, linked, targets, properties>>
      /\ copy' = copy \/ copy' = [copy EXCEPT ![e] = overlays[e]]
      /\ \/ UNCHANGED <<decoded, info>>
         \/ /\ Content(e) \in Values
            /\ decoded' = decoded \cup {e}
            /\ info' = [info EXCEPT ![e] = Content(e)]
  BY DecodeFacts
<1>5. \/ UNCHANGED <<raised, starving>>
      \/ /\ starving' \in BOOLEAN
         /\ raised' = raised \cup {<<"memory", e, 0>>} \/ raised' = raised \cup {Own(e)}
  BY DecodeFacts DEF errors
<1>6. ErrorsTyped'
  BY <1>1, <1>3, <1>5 DEF ErrorsTyped
<1>7. EntitiesTyped'
  BY <1>1, <1>2, <1>4 DEF EntitiesTyped
<1> QED
  BY <1>6, <1>7

\* A stage that decodes is one that may.
LEMMA DecodeStages ==
  ASSUME OverlayInv, NEW o \in DecodeOutcomes
  PROVE  /\ DecodeInfo(o) => cursor \in Positions /\ Role(cursor) = "info" /\ Decode(cursor, o)
         /\ DecodeFirmware(o) => /\ stage = "vendor" /\ First("firmware") \in Positions
                                 /\ Decode(First("firmware"), o)
         /\ DecodePlatformInfo(o) => /\ stage \in {"system", "baseboard"} /\ First(stage) \in Positions
                                     /\ Decode(First(stage), o)
         /\ DecodeProcessor(o) => /\ stage = "processors" /\ cursor \in Positions
                                  /\ Decode(cursor, o)
         /\ DecodeStructure(o) => stage = "decode" /\ cursor \in Positions /\ Decode(cursor, o)
         /\ (DecodeInfo(o) \/ DecodeFirmware(o) \/ DecodePlatformInfo(o)
              \/ DecodeProcessor(o) \/ DecodeStructure(o)) => Decodes
PROOF
<1>1. table \in Tables
  BY DEF OverlayInv, TypeOK
<1>2. DecodeInfo(o) => cursor \in Positions /\ Role(cursor) = "info" /\ Decode(cursor, o)
  BY DEF DecodeInfo, At
<1>3. DecodeFirmware(o) => /\ stage = "vendor" /\ First("firmware") \in Positions
                           /\ Decode(First("firmware"), o)
  BY <1>1, FirstIsThere DEF DecodeFirmware
<1>4. DecodePlatformInfo(o) => /\ stage \in {"system", "baseboard"} /\ First(stage) \in Positions
                               /\ Decode(First(stage), o)
  BY <1>1, FirstIsThere DEF DecodePlatformInfo, AfterInfo
<1>5. DecodeProcessor(o) => stage = "processors" /\ cursor \in Positions /\ Decode(cursor, o)
  BY DEF DecodeProcessor, At
<1>6. DecodeStructure(o) => stage = "decode" /\ cursor \in Positions /\ Decode(cursor, o)
  BY DEF DecodeStructure, At
<1> QED
  BY <1>2, <1>3, <1>4, <1>5, <1>6 DEF Decodes

LEMMA FollowTypes ==
  ASSUME TypeOK, UNCHANGED flags, cursor \in Positions, NEW reached, Follow(reached)
  PROVE  targets' \in [Positions -> Seq(Positions \cup {Nowhere})]
PROOF
<1> DEFINE given(k) == IF k \in reached /\ Resolves(Refs(cursor)[k]) THEN Refs(cursor)[k] ELSE Nowhere
<1>1. Refs(cursor) \in Seq(Nat)
  BY TableIsWhole DEF TypeOK, Record, Refs
<1>2. \A k \in DOMAIN Refs(cursor) : given(k) \in Positions \cup {Nowhere}
  BY DEF Resolves, Found
<1>3. [k \in DOMAIN Refs(cursor) |-> given(k)] \in Seq(Positions \cup {Nowhere})
  <2> HIDE DEF given
  <2>1. Len(Refs(cursor)) \in Nat /\ DOMAIN Refs(cursor) = 1..Len(Refs(cursor))
    BY <1>1, LenProperties
  <2> QED
    BY <1>2, <2>1
<1>4. targets' = [targets EXCEPT ![cursor] = [k \in DOMAIN Refs(cursor) |-> given(k)]]
  BY DEF Follow
<1> HIDE DEF given
<1> QED
  BY <1>3, <1>4 DEF TypeOK

LEMMA BrokenTypes ==
  ASSUME TypeOK, cursor \in Positions, NEW reached
  PROVE  BrokenLinks(reached) \subseteq {"reference"} \X Nat \X Nat
PROOF
<1>1. Refs(cursor) \in Seq(Nat) /\ cursor \in Nat
  BY TableIsWhole DEF TypeOK, Record, Refs
<1>2. DOMAIN Refs(cursor) \subseteq Nat
  BY <1>1
<1>3. Broken(cursor) \subseteq Nat
  BY <1>2 DEF Broken
<1> QED
  BY <1>1, <1>3 DEF BrokenLinks

LEMMA TypeNext ==
  ASSUME OverlayInv, Next
  PROVE  TypeOK'
PROOF
<1>1. TypeOK /\ UNCHANGED flags
  BY FlagsStay DEF OverlayInv
<1>2. SUFFICES EntitiesTyped' /\ ErrorsTyped' /\ ControlTyped' /\ StatusTyped'
  BY <1>1, TypesStay
<1>3. /\ EntitiesTyped /\ ErrorsTyped /\ ControlTyped /\ StatusTyped /\ Positions' = Positions
      /\ UNCHANGED entities => EntitiesTyped'
      /\ UNCHANGED errors => ErrorsTyped'
      /\ UNCHANGED status => StatusTyped'
  BY <1>1, TypesStay, TableStays
<1>4. cursor \in Nat /\ entry \in Nat /\ clean \in BOOLEAN /\ table \in Tables
  BY <1>1, TableIsWhole DEF TypeOK
<1>5. /\ \A next \in Stages : Enter(next) => ControlTyped'
      /\ FailOpening => ControlTyped'
      /\ Advance /\ cursor \in Positions /\ clean' \in BOOLEAN => ControlTyped'
      /\ UNCHANGED <<stage, cursor>> /\ entry' \in Nat /\ clean' \in BOOLEAN => ControlTyped'
  BY <1>1, ControlStays
<1>6. \A s \in {"vendor", "system", "baseboard", "processors", "modules", "decode", "link", "open"} :
        s \in Stages
  BY DEF Stages
<1> HIDE DEF Stages
<1>7. CASE SkipOverlays
  BY <1>3, <1>5, <1>6, <1>7 DEF SkipOverlays
<1>8. CASE PassByInfo
  BY <1>3, <1>4, <1>5, <1>8 DEF PassByInfo, At
<1>9. CASE AttachEntry
  <2> DEFINE to == Current.to
  <2>1. /\ to \in Positions /\ cursor \in Positions /\ entry \in DOMAIN table[cursor].entries
        /\ UNCHANGED <<decoded, info, copy, linked, targets, properties>>
        /\ overlays' = [overlays EXCEPT ![to] = Append(@, <<cursor, entry>>)]
        /\ UNCHANGED <<stage, cursor, clean, raised, starving>> /\ entry' = entry + 1
        /\ status' = status \cup {"Overlaid"}
    BY <1>9 DEF AttachEntry, Reading, At, Found, Attach, errors
  <2>2. table[cursor].entries \in Seq(Entries)
    BY <1>4, <2>1, TableIsWhole DEF Record
  <2>3. <<cursor, entry>> \in Positions \X (Nat \ {0})
    BY <2>1, <2>2
  <2>4. Append(overlays[to], <<cursor, entry>>) \in Seq(Positions \X (Nat \ {0}))
    <3> HIDE DEF to
    <3>1. overlays[to] \in Seq(Positions \X (Nat \ {0}))
      BY <1>3, <2>1 DEF EntitiesTyped
    <3> QED
      BY <2>3, <3>1
  <2>5. EntitiesTyped'
    <3> HIDE DEF to
    <3> QED
      BY <1>3, <2>1, <2>4 DEF EntitiesTyped
  <2>6. ErrorsTyped' /\ StatusTyped'
    BY <1>3, <2>1 DEF ErrorsTyped, StatusTyped
  <2>7. ControlTyped'
    BY <1>4, <1>5, <2>1
  <2> QED
    BY <2>5, <2>6, <2>7
<1>10. CASE AttachWithoutMemory
  BY <1>3, <1>4, <1>5, <1>10 DEF AttachWithoutMemory, ErrorsTyped
<1>11. CASE RefuseEntry
  <2>1. {<<"entry", cursor, entry>>} \subseteq {"entry"} \X Nat \X Nat
    BY <1>4
  <2>2. ErrorsTyped'
    BY <1>1, <1>11, <2>1, ReportTypes DEF RefuseEntry
  <2>3. UNCHANGED <<stage, cursor>> /\ entry' \in Nat
    BY <1>4, <1>11 DEF RefuseEntry
  <2>5. clean' \in BOOLEAN
    BY <1>11, Zenon DEF RefuseEntry
  <2>4. UNCHANGED <<entities, status>>
    BY <1>11 DEF RefuseEntry
  <2> QED
    BY <1>3, <1>5, <2>2, <2>3, <2>4, <2>5
<1>12. CASE PassEntries
  BY <1>3, <1>4, <1>5, <1>12 DEF PassEntries, At
<1>13. CASE FinishOverlays
  BY <1>3, <1>5, <1>6, <1>13 DEF FinishOverlays
<1>14. CASE MissFirmware
  <2>1. Report({<<"firmware", 0, 0>>}) => ErrorsTyped'
    BY <1>1, ReportTypes
  <2> QED
    BY <1>3, <1>5, <1>6, <1>14, <2>1 DEF MissFirmware
<1>15. CASE MissPlatformInfo
  BY <1>3, <1>5, <1>6, <1>15 DEF MissPlatformInfo, AfterInfo
<1>16. CASE PassByProcessor
  BY <1>3, <1>4, <1>5, <1>16 DEF PassByProcessor, At
<1>17. CASE FinishProcessors
  BY <1>3, <1>5, <1>6, <1>17 DEF FinishProcessors
<1>18. CASE SetupModules
  <2>1. Report({<<"modules", 0, 0>>}) => ErrorsTyped'
    BY <1>1, ReportTypes
  <2> QED
    BY <1>3, <1>5, <1>6, <1>18, <2>1 DEF SetupModules
<1>19. CASE FinishDecode
  BY <1>3, <1>5, <1>6, <1>19 DEF FinishDecode, StatusTyped
<1>20. CASE PassByUnlinked
  BY <1>3, <1>4, <1>5, <1>20 DEF PassByUnlinked, At
<1>21. CASE LinkReferences
  <2> DEFINE all == DOMAIN Refs(cursor)
             broken == BrokenLinks(all)
  <2>1. /\ cursor \in Positions /\ Follow(all) /\ Report(broken) /\ Advance
        /\ UNCHANGED <<decoded, info, overlays, copy, properties, status>>
        /\ linked' = linked \cup {cursor} \/ linked' = linked
        /\ clean' \in BOOLEAN
    BY <1>4, <1>21 DEF LinkReferences, LinksNow, At
  <2>2. EntitiesTyped'
    BY <1>1, <1>3, <2>1, FollowTypes DEF EntitiesTyped
  <2>3. ErrorsTyped'
    BY <1>1, <2>1, BrokenTypes, ReportTypes
  <2> QED
    BY <1>3, <1>5, <2>1, <2>2, <2>3
<1>22. CASE LinkWithoutMemory
  <2>1. PICK reached \in SUBSET DOMAIN Refs(cursor) :
          Follow(reached) /\ Report({<<"memory", cursor, 0>>} \cup BrokenLinks(reached))
    BY <1>22 DEF LinkWithoutMemory
  <2>2. /\ cursor \in Positions /\ Advance /\ clean' = FALSE
        /\ UNCHANGED <<decoded, info, overlays, copy, linked, properties, status>>
    BY <1>22 DEF LinkWithoutMemory, LinksNow, At
  <2>3. EntitiesTyped'
    BY <1>1, <1>3, <2>1, <2>2, FollowTypes DEF EntitiesTyped
  <2>4. {<<"memory", cursor, 0>>} \cup BrokenLinks(reached) \subseteq {"memory", "reference"} \X Nat \X Nat
    BY <1>1, <1>4, <2>2, BrokenTypes
  <2>5. ErrorsTyped'
    BY <1>1, <2>1, <2>4, ReportTypes
  <2> QED
    BY <1>3, <1>5, <2>2, <2>3, <2>5
<1>23. CASE LinkProperty
  <2> DEFINE p == Parent(cursor)
  <2>1. /\ cursor \in Positions /\ p \in Positions /\ Advance
        /\ properties' = [properties EXCEPT ![p] = Append(@, cursor)]
        /\ targets' = [targets EXCEPT ![cursor] = <<p>>]
        /\ linked' = linked \cup {cursor}
        /\ UNCHANGED <<clean, decoded, info, overlays, copy, status, errors>>
    BY <1>23 DEF LinkProperty, LinksNow, At, CanHave, Found, AddProperty
  <2> HIDE DEF p
  <2>2. Append(properties[p], cursor) \in Seq(Positions) /\ <<p>> \in Seq(Positions \cup {Nowhere})
    BY <1>3, <2>1 DEF EntitiesTyped
  <2>3. EntitiesTyped'
    BY <1>3, <2>1, <2>2 DEF EntitiesTyped
  <2> QED
    BY <1>3, <1>4, <1>5, <2>1, <2>3
<1>24. CASE LinkPropertyWithoutMemory
  <2>1. {<<"memory", cursor, 0>>} \subseteq {"memory"} \X Nat \X Nat
    BY <1>4
  <2>2. ErrorsTyped'
    BY <1>1, <1>24, <2>1, ReportTypes DEF LinkPropertyWithoutMemory
  <2> QED
    BY <1>3, <1>5, <1>24, <2>2 DEF LinkPropertyWithoutMemory, LinksNow, At
<1>25. CASE RefuseProperty
  <2>1. {<<"reference", cursor, 1>>} \subseteq {"reference"} \X Nat \X Nat
    BY <1>4
  <2>2. ErrorsTyped'
    BY <1>1, <1>25, <2>1, ReportTypes DEF RefuseProperty
  <2> QED
    BY <1>3, <1>5, <1>25, <2>2 DEF RefuseProperty, LinksNow, At
<1>26. CASE FinishLink
  BY <1>3, <1>5, <1>6, <1>26 DEF FinishLink, StatusTyped
<1>27. ASSUME NEW o \in DecodeOutcomes,
              \/ DecodeInfo(o) \/ DecodeFirmware(o) \/ DecodePlatformInfo(o)
              \/ DecodeProcessor(o) \/ DecodeStructure(o)
       PROVE  EntitiesTyped' /\ ErrorsTyped' /\ ControlTyped' /\ StatusTyped'
  <2>1. EntitiesTyped' /\ ErrorsTyped'
    <3>1. PICK e \in Positions, outcome \in DecodeOutcomes :
          /\ stage \notin {"overlay", "failed"} \/ Role(e) = "info"
          /\ Decode(e, outcome)
      BY <1>27, DecodeStages DEF Decodes
    <3> QED
      BY <1>1, <3>1, DecodeTypes
  <2>2. StatusTyped'
    BY <1>3, <1>27
    DEF DecodeInfo, DecodeFirmware, DecodePlatformInfo, DecodeProcessor, DecodeStructure
  <2>3. ControlTyped'
    <3>1. CASE DecodeInfo(o)
      <4>1. CASE entry' = 1 /\ UNCHANGED <<flags, stage, cursor, clean>>
        BY <1>4, <1>5, <4>1
      <4>2. CASE FailOpening
        BY <1>5, <4>2
      <4>3. CASE Advance /\ clean' = FALSE
        <5>1. cursor \in Positions
          BY <3>1 DEF DecodeInfo, At
        <5>2. clean' \in BOOLEAN
          BY <4>3, Zenon
        <5> QED
          BY <1>5, <4>3, <5>1, <5>2
      <4> QED
        BY <3>1, <4>1, <4>2, <4>3 DEF DecodeInfo
    <3>2. CASE DecodeFirmware(o)
      BY <1>5, <1>6, <3>2 DEF DecodeFirmware
    <3>3. CASE DecodePlatformInfo(o)
      BY <1>5, <1>6, <3>3 DEF DecodePlatformInfo, AfterInfo
    <3>4. CASE DecodeProcessor(o)
      BY <1>4, <1>5, <1>6, <3>4 DEF DecodeProcessor, At
    <3>5. CASE DecodeStructure(o)
      BY <1>4, <1>5, <3>5 DEF DecodeStructure, At
    <3> QED
      BY <1>27, <3>1, <3>2, <3>3, <3>4, <3>5
  <2> QED
    BY <2>1, <2>2, <2>3
<1> QED
  BY <1>7, <1>8, <1>9, <1>10, <1>11, <1>12, <1>13, <1>14, <1>15, <1>16, <1>17, <1>18, <1>19,
     <1>20, <1>21, <1>22, <1>23, <1>24, <1>25, <1>26, <1>27 DEF Next

-----------------------------------------------------------------------------
(* Steps keep OverlayInv                                                     *)

LEMMA InitOverlays ==
  ASSUME Init
  PROVE  OverlayInv
PROOF
<1>1. Len(table) \in Nat /\ Positions = 1..Len(table) /\ table \in Tables
  BY TableIsWhole DEF Init, Positions
<1>2. TypeOK
  <2>1. EntitiesTyped /\ stage \in Stages /\ entry \in Nat /\ cursor \in 1..(Len(table) + 1)
    BY <1>1 DEF Init, EntitiesTyped, Stages
  <2>2. clean \in BOOLEAN /\ starving \in BOOLEAN
    BY Zenon DEF Init
  <2>3. ErrorsTyped /\ ControlTyped /\ StatusTyped
    BY <2>1, <2>2 DEF Init, ErrorsTyped, ControlTyped, StatusTyped
  <2>4. strict \in BOOLEAN /\ overlaying \in BOOLEAN /\ linking \in BOOLEAN
    BY DEF Init
  <2> QED
    BY <1>1, <2>1, <2>3, <2>4, TypeParts
<1>3. EntriesAreRead
  BY DEF Init, EntriesAreRead
<1>4. \A p \in Pairs : ~Handled(p)
  BY <1>1, PairsAreEntries DEF Init, Handled, Processed
<1>5. OverlaysFollowTable
  <2>1. \A e \in Positions : overlays[e] = <<>> /\ EntriesOf(e) \subseteq Pairs
    BY DEF Init, EntriesOf
  <2> QED
    BY <1>4, <2>1 DEF OverlaysFollowTable
<1>6. CopiesAreOverlaid /\ DecodedIsDecodable /\ DecodedAsOverlaid
  BY DEF Init, CopiesAreOverlaid, DecodedIsDecodable, DecodedAsOverlaid
<1> QED
  BY <1>2, <1>3, <1>5, <1>6 DEF OverlayInv

\* The entries of the table are gone through in its order.
LEMMA OverlayOrder ==
  ASSUME OverlayInv, stage = "overlay"
  PROVE  /\ cursor \in Nat \ {0} /\ entry \in Nat
         /\ cursor \in Positions \/ cursor = Len(table) + 1
         /\ \A p \in Pairs : /\ p[1] \in Nat /\ p[2] \in Nat \ {0} /\ p[1] <= Len(table)
                             /\ Informs(p[1]) /\ p[2] <= Len(table[p[1]].entries)
                             /\ p = <<p[1], p[2]>>
PROOF
<1>1. TypeOK /\ Len(table) \in Nat /\ Positions = 1..Len(table)
  BY TableIsWhole DEF OverlayInv, TypeOK, Positions
<1>2. ASSUME NEW p \in Pairs
      PROVE  /\ p[1] \in Nat /\ p[2] \in Nat \ {0} /\ p[1] <= Len(table)
             /\ Informs(p[1]) /\ p[2] <= Len(table[p[1]].entries)
             /\ p = <<p[1], p[2]>>
  <2>1. /\ p = <<p[1], p[2]>>
        /\ p[1] \in Positions /\ p[1] \in Nat /\ Informs(p[1])
        /\ p[2] \in DOMAIN table[p[1]].entries /\ p[2] \in Nat \ {0}
    BY <1>1, PairsAreEntries DEF TypeOK
  <2>2. table[p[1]].entries \in Seq(Entries)
    BY <1>1, <2>1, TableIsWhole DEF TypeOK, Record
  <2> QED
    BY <1>1, <2>1, <2>2
<1> QED
  BY <1>1, <1>2 DEF TypeOK

\* Entries are gone past one by one.
LEMMA OverlayProgress ==
  ASSUME OverlayInv, UNCHANGED flags
  PROVE  /\ PassByInfo \/ PassEntries => \A p \in Pairs : Processed(p)' <=> Processed(p)
         /\ \A o : DecodeInfo(o) /\ stage' = "overlay" =>
                     \A p \in Pairs : Processed(p)' <=> Processed(p)
         /\ AttachEntry \/ RefuseEntry =>
              /\ <<cursor, entry>> \in Pairs
              /\ \A p \in Pairs : Processed(p)' <=> Processed(p) \/ p = <<cursor, entry>>
         /\ AttachEntry \/ RefuseEntry => (Fitting(<<cursor, entry>>) <=> AttachEntry)
PROOF
<1>1. TypeOK /\ EntriesAreRead
  BY DEF OverlayInv
<1>2. ASSUME PassByInfo
      PROVE  \A p \in Pairs : Processed(p)' <=> Processed(p)
  <2>1. stage = "overlay" /\ entry' = 0 /\ cursor' = cursor + 1 /\ Role(cursor) # "info"
    BY <1>2 DEF PassByInfo, At, Advance
  <2> QED
    BY <2>1, <1>1, OverlayOrder DEF Processed, Informs, EntriesAreRead
<1>3. ASSUME PassEntries
      PROVE  \A p \in Pairs : Processed(p)' <=> Processed(p)
  <2>1. /\ stage = "overlay" /\ entry' = 0 /\ cursor' = cursor + 1
        /\ cursor \in Positions /\ entry > Len(table[cursor].entries)
    BY <1>3 DEF PassEntries, At, Advance
  <2>2. Len(table[cursor].entries) \in Nat
    BY <1>1, <2>1, TableIsWhole DEF TypeOK, Record
  <2> QED
    BY <2>1, <2>2, OverlayOrder DEF Processed
<1>4. ASSUME NEW o, DecodeInfo(o), stage' = "overlay"
      PROVE  \A p \in Pairs : Processed(p)' <=> Processed(p)
  <2>1. /\ stage = "overlay" /\ entry = 0 /\ cursor \in Positions /\ Role(cursor) = "info"
        /\ Decode(cursor, o)
    BY <1>4 DEF DecodeInfo, At
  <2>2. CASE entry' = 1 /\ cursor' = cursor
    BY <2>1, <2>2, OverlayOrder DEF Processed
  <2>3. CASE o \notin Succeeded \cup Starving /\ Advance
    <3>1. entry' = 0 /\ cursor' = cursor + 1
      BY <2>3 DEF Advance
    <3>2. Spoiled(cursor)
      BY <2>1, <2>3, DecodeFacts DEF Starving
    <3>3. ~Informs(cursor)
      BY <2>1, <3>2, InfoHasNoOverlays DEF Spoiled, Decodable, Content, Informs
    <3> QED
      BY <2>1, <3>1, <3>3, OverlayOrder DEF Processed
  <2> QED
    BY <1>4, <2>2, <2>3 DEF DecodeInfo, FailOpening
<1>5. ASSUME AttachEntry \/ RefuseEntry
      PROVE  /\ <<cursor, entry>> \in Pairs
             /\ \A p \in Pairs : Processed(p)' <=> Processed(p) \/ p = <<cursor, entry>>
             /\ Fitting(<<cursor, entry>>) <=> AttachEntry
  <2>1. /\ stage = "overlay" /\ cursor' = cursor /\ entry' = entry + 1
        /\ cursor \in Positions /\ entry \in DOMAIN table[cursor].entries
    BY <1>5 DEF AttachEntry, RefuseEntry, Reading, At
  <2>2. entry \in Nat \ {0}
    <3>1. table[cursor].entries \in Seq(Entries)
      BY <1>1, <2>1, TableIsWhole DEF TypeOK, Record
    <3> QED
      BY <2>1, <3>1
  <2>3. cursor \in decoded /\ Role(cursor) = "info"
    BY <1>1, <2>1, <2>2 DEF EntriesAreRead
  <2>4. Informs(cursor)
    BY <2>1, <2>3, InfoHasNoOverlays
    DEF OverlayInv, DecodedIsDecodable, Decodable, Content, Informs
  <2>5. <<cursor, entry>> \in Pairs
    BY <2>1, <2>4 DEF Pairs
  <2>6. \A p \in Pairs : Processed(p)' <=> Processed(p) \/ p = <<cursor, entry>>
    BY <2>1, <2>2, OverlayOrder DEF Processed
  <2>7. Fitting(<<cursor, entry>>) <=> Found(Current.to) /\ Attachable(Current.to)
    <3>1. \A e \in decoded : Role(e) = "info"
      BY <2>1 DEF OverlayInv, DecodedIsDecodable
    <3>2. EntryOf(<<cursor, entry>>) = Current
      BY DEF EntryOf, Current
    <3> QED
      BY <3>1, <3>2 DEF Fitting, Attachable
  <2> QED
    BY <1>5, <2>5, <2>6, <2>7 DEF AttachEntry, RefuseEntry
<1> QED
  BY <1>2, <1>3, <1>4, <1>5

LEMMA OverlayNext ==
  ASSUME OverlayInv, Next
  PROVE  OverlayInv'
PROOF
<1>1. UNCHANGED flags /\ TypeOK /\ TypeOK' /\ EntriesAreRead
  BY FlagsStay, TypeNext DEF OverlayInv
<1>2. /\ Positions' = Positions /\ Pairs' = Pairs
      /\ \A e : EntriesOf(e)' = EntriesOf(e) /\ Role(e)' = Role(e)
  BY <1>1, TableStays
<1>3. \A e : EntriesOf(e) \subseteq Pairs
  BY DEF EntriesOf
<1> DEFINE Stay == Decodes \/ Retains
<1>4. UNCHANGED entities => Retains
  BY DEF entities, Retains
<1>5. CASE SkipOverlays
  <2>1. stage = "overlay" /\ stage' = "vendor" /\ entry' = 0
    BY <1>5 DEF SkipOverlays, Enter
  <2>2. \A e : EntriesOf(e) = {}
    BY <1>5 DEF SkipOverlays, EntriesOf
  <2>3. EntriesAreRead'
    BY <2>1 DEF EntriesAreRead
  <2> QED
    BY <1>1, <1>4, <1>5, <2>1, <2>2, <2>3, OverlayStep DEF SkipOverlays
<1>6. CASE PassByInfo
  <2>1. stage = "overlay" /\ stage' = "overlay" /\ entry' = 0 /\ cursor' = cursor + 1 /\ Role(cursor) # "info"
    BY <1>6 DEF PassByInfo, At, Advance
  <2>2. EntriesAreRead'
    BY <2>1 DEF EntriesAreRead
  <2>3. \A p \in Pairs : Processed(p)' <=> Processed(p)
    BY <1>1, <1>6, OverlayProgress
  <2> QED
    BY <1>1, <1>3, <1>4, <1>6, <2>1, <2>2, <2>3, OverlayStep DEF PassByInfo, Handled
<1>7. CASE AttachWithoutMemory
  <2>1. stage = "overlay" /\ stage' = "failed"
    BY <1>7 DEF AttachWithoutMemory, Reading, At, FailOpening
  <2>2. EntriesAreRead'
    BY <2>1 DEF EntriesAreRead
  <2> QED
    BY <1>1, <1>4, <1>7, <2>1, <2>2, OverlayStep DEF AttachWithoutMemory, Handled
<1>8. CASE PassEntries
  <2>1. /\ stage = "overlay" /\ stage' = "overlay" /\ entry' = 0 /\ cursor' = cursor + 1
    BY <1>8 DEF PassEntries, At, Advance
  <2>2. EntriesAreRead'
    BY <2>1 DEF EntriesAreRead
  <2>3. \A p \in Pairs : Processed(p)' <=> Processed(p)
    BY <1>1, <1>8, OverlayProgress
  <2> QED
    BY <1>1, <1>3, <1>4, <1>8, <2>1, <2>2, <2>3, OverlayStep DEF PassEntries, Handled
<1>9. CASE FinishOverlays
  <2>1. /\ stage = "overlay"
        /\ stage' = "failed" \/ (stage' = "vendor" /\ entry' = 0)
        /\ cursor \notin Positions
    BY <1>9 DEF FinishOverlays, Past, FailOpening, Enter
  <2>2. EntriesAreRead'
    BY <2>1 DEF EntriesAreRead
  <2>3. \A p \in Pairs : Handled(p)
    <3>1. Len(table) \in Nat
      BY <1>1, TableIsWhole DEF TypeOK
    <3> QED
      BY <2>1, <3>1, OverlayOrder DEF Handled, Processed
  <2> QED
    BY <1>1, <1>3, <1>4, <1>9, <2>1, <2>2, <2>3, OverlayStep DEF FinishOverlays

<1>10. ASSUME NEW o \in DecodeOutcomes, DecodeInfo(o) PROVE OverlayInv'
  <2>1. /\ stage = "overlay" /\ entry = 0 /\ cursor \in Positions /\ Role(cursor) = "info"
        /\ Decode(cursor, o) /\ overlaying /\ UNCHANGED overlaying
    BY <1>10 DEF DecodeInfo, At, Decode, flags, FailOpening, Advance
  <2>2. Decodes
    BY <2>1 DEF Decodes
  <2>3. CASE o \in Succeeded /\ entry' = 1 /\ UNCHANGED <<flags, stage, cursor, clean>>
    <3>1. cursor \in decoded'
      BY <1>1, <2>1, <2>3, DecodeFacts
    <3>2. EntriesAreRead'
      <4>1. Len(table[cursor].entries) \in Nat
        BY <1>1, <2>1, TableIsWhole DEF TypeOK, Record
      <4> QED
        BY <1>2, <2>1, <2>3, <3>1, <4>1 DEF EntriesAreRead, flags
    <3>3. \A p \in Pairs : Processed(p)' <=> Processed(p)
      BY <1>1, <1>10, <2>1, <2>3, OverlayProgress
    <3> QED
      BY <1>1, <1>3, <2>1, <2>2, <2>3, <3>2, <3>3, OverlayStep DEF Handled
  <2>4. CASE FailOpening
    <3>1. stage' = "failed"
      BY <2>4 DEF FailOpening
    <3>2. EntriesAreRead'
      BY <3>1 DEF EntriesAreRead
    <3> QED
      BY <1>1, <2>1, <2>2, <3>1, <3>2, OverlayStep DEF Handled
  <2>5. CASE o \notin Succeeded \cup Starving /\ Advance
    <3>1. stage' = "overlay" /\ entry' = 0 /\ cursor' = cursor + 1
      BY <2>1, <2>5 DEF Advance
    <3>2. EntriesAreRead'
      BY <3>1 DEF EntriesAreRead
    <3>3. \A p \in Pairs : Processed(p)' <=> Processed(p)
      BY <1>1, <1>10, <3>1, OverlayProgress
    <3> QED
      BY <1>1, <1>3, <2>1, <2>2, <3>1, <3>2, <3>3, OverlayStep DEF Handled
  <2> QED
    BY <1>10, <2>3, <2>4, <2>5 DEF DecodeInfo
<1>11. CASE RefuseEntry
  <2>1. /\ stage = "overlay" /\ stage' = "overlay" /\ cursor' = cursor /\ entry' = entry + 1
        /\ overlaying /\ cursor \in Positions /\ entry \in DOMAIN table[cursor].entries
        /\ UNCHANGED entities
    BY <1>11 DEF RefuseEntry, Reading, At
  <2>2. entry \in Nat \ {0} /\ entry <= Len(table[cursor].entries)
    <3>1. table[cursor].entries \in Seq(Entries)
      BY <1>1, <2>1, TableIsWhole DEF TypeOK, Record
    <3> QED
      BY <2>1, <3>1
  <2>3. EntriesAreRead'
    <3>1. entry' <= Len(table[cursor].entries) + 1
      BY <1>1, <2>1, <2>2, TableIsWhole DEF TypeOK, Record
    <3> QED
      BY <1>1, <1>2, <2>1, <2>2, <3>1 DEF EntriesAreRead, flags, entities
  <2>4. \A p \in Pairs : Processed(p)' <=> Processed(p) \/ p = <<cursor, entry>>
    BY <1>1, <1>11, OverlayProgress
  <2>5. \A e \in Positions : <<cursor, entry>> \notin EntriesOf(e)
    BY <1>1, <1>11, OverlayProgress DEF EntriesOf, AttachEntry, RefuseEntry
  <2> QED
    BY <1>1, <1>3, <1>4, <2>1, <2>3, <2>4, <2>5, OverlayStep DEF Handled
<1>12. CASE AttachEntry
  <2> DEFINE to == Current.to
             new == <<cursor, entry>>
             Gone(p) == p[1] < cursor \/ (p[1] = cursor /\ p[2] < entry + 1)
  <2>1. /\ stage = "overlay" /\ stage' = "overlay" /\ cursor' = cursor /\ entry' = entry + 1
        /\ overlaying /\ cursor \in Positions /\ entry \in DOMAIN table[cursor].entries
        /\ to \in Positions /\ to \notin decoded /\ Role(to) # "info" /\ Current.fits
        /\ overlays' = [overlays EXCEPT ![to] = Append(@, new)]
        /\ UNCHANGED <<decoded, info, copy>>
    BY <1>12 DEF AttachEntry, Reading, At, Found, Attachable, Attach
  <2>2. entry \in Nat \ {0} /\ entry <= Len(table[cursor].entries) /\ Len(table[cursor].entries) \in Nat
    <3>1. table[cursor].entries \in Seq(Entries)
      BY <1>1, <2>1, TableIsWhole DEF TypeOK, Record
    <3> QED
      BY <2>1, <3>1
  <2>3. EntriesAreRead'
    <3>1. entry' <= Len(table[cursor].entries) + 1
      BY <2>1, <2>2
    <3> QED
      BY <1>1, <1>2, <2>1, <2>2, <3>1 DEF EntriesAreRead, flags
  <2>4. new \in Pairs /\ \A p \in Pairs : Processed(p)' <=> Processed(p) \/ p = new
    BY <1>1, <1>12, OverlayProgress
  <2>7. new \in EntriesOf(to)
    BY <2>1, <2>4 DEF EntriesOf, Fitting, EntryOf, Current, Found
  <2>8. \A e : new \in EntriesOf(e) => e = to
    BY DEF EntriesOf, EntryOf, Current
  <2>9. \A p \in Pairs : /\ Gone(p) <=> (Processed(p) \/ p = new)
                         /\ Processed(p) => Before(p, new)
    BY <2>1, <2>2, <2>4, OverlayOrder DEF Processed, Before
  <2>10. CopiesAreOverlaid' /\ DecodedIsDecodable' /\ DecodedAsOverlaid'
    <3>1. \A e : Content(e)' = Content(e) /\ Decodable(e)' = Decodable(e)
      BY <1>1, TableStays
    <3>2. CopiesAreOverlaid'
      BY <1>2, <2>1 DEF OverlayInv, CopiesAreOverlaid
    <3>3. DecodedIsDecodable' /\ DecodedAsOverlaid'
      BY <1>2, <2>1, <3>1 DEF OverlayInv, DecodedIsDecodable, DecodedAsOverlaid
    <3> QED
      BY <3>2, <3>3
  <2>11. OverlaysFollowTable'
    <3> HIDE DEF to, new, Gone
    <3>1. overlays \in [Positions -> Seq(Positions \X (Nat \ {0}))] /\ OverlaysFollowTable
      BY DEF OverlayInv, TypeOK
    <3> SUFFICES ASSUME NEW e \in Positions
                 PROVE  /\ \A k \in DOMAIN overlays'[e] :
                             /\ overlays'[e][k] \in EntriesOf(e)
                             /\ Before(overlays'[e][k], overlays'[e][Len(overlays'[e])])
                             /\ Gone(overlays'[e][k])
                        /\ \A p \in EntriesOf(e) : Gone(p) =>
                             \E k \in DOMAIN overlays'[e] : overlays'[e][k] = p
      BY <1>2, <2>1 DEF OverlaysFollowTable, Handled, Processed, Gone
    <3>2. /\ \A k \in DOMAIN overlays[e] :
               /\ overlays[e][k] \in EntriesOf(e)
               /\ Before(overlays[e][k], overlays[e][Len(overlays[e])])
               /\ Processed(overlays[e][k])
          /\ \A p \in EntriesOf(e) : Processed(p) => \E k \in DOMAIN overlays[e] : overlays[e][k] = p
      BY <2>1, <3>1 DEF OverlaysFollowTable, Handled
    <3>3. CASE e # to
      <4>1. overlays'[e] = overlays[e]
        BY <2>1, <3>1, <3>3
      <4>2. \A p \in EntriesOf(e) : Gone(p) <=> Processed(p)
        BY <1>3, <2>8, <2>9, <3>3
      <4> QED
        BY <3>2, <4>1, <4>2
    <3>4. CASE e = to
      <4> DEFINE n == Len(overlays[e])
      <4>1. overlays[e] \in Seq(Positions \X (Nat \ {0})) /\ new \in Positions \X (Nat \ {0})
        BY <2>1, <2>2, <3>1 DEF new
      <4>2. /\ overlays'[e] = Append(overlays[e], new)
            /\ n \in Nat /\ DOMAIN overlays[e] = 1..n
            /\ Len(overlays'[e]) = n + 1 /\ DOMAIN overlays'[e] = 1..(n + 1)
            /\ \A k \in 1..n : overlays'[e][k] = overlays[e][k]
            /\ overlays'[e][n + 1] = new
        BY <2>1, <3>1, <3>4, <4>1
      <4> HIDE DEF n
      <4>3. Before(new, new)
        BY <2>1, <2>2, OverlayOrder DEF Before, new
      <4>4. ASSUME NEW k \in DOMAIN overlays'[e]
            PROVE  /\ overlays'[e][k] \in EntriesOf(e)
                   /\ Before(overlays'[e][k], overlays'[e][Len(overlays'[e])])
                   /\ Gone(overlays'[e][k])
        <5>1. CASE k \in 1..n
          <6> DEFINE q == overlays[e][k]
          <6>1. overlays'[e][k] = q /\ q \in EntriesOf(e) /\ Processed(q) /\ q \in Pairs
            BY <1>3, <3>2, <4>2, <5>1
          <6> HIDE DEF q
          <6>2. Before(q, new) /\ Gone(q)
            BY <2>9, <6>1
          <6>3. Gone(overlays'[e][k])
            BY <6>1, <6>2
          <6> QED
            BY <4>2, <6>1, <6>2, <6>3
        <5>2. CASE k = n + 1
          <6>1. overlays'[e][k] = new
            BY <4>2, <5>2
          <6>2. Gone(new)
            BY <2>4, <2>9
          <6>3. Gone(overlays'[e][k])
            BY <6>1, <6>2
          <6> QED
            BY <2>7, <3>4, <4>2, <4>3, <6>1, <6>3
        <5> QED
          BY <4>2, <5>1, <5>2
      <4>5. ASSUME NEW p \in EntriesOf(e), Gone(p)
            PROVE  \E k \in DOMAIN overlays'[e] : overlays'[e][k] = p
        <5>1. CASE p = new
          BY <4>2, <5>1
        <5>2. CASE p # new
          <6>1. Processed(p)
            BY <1>3, <2>9, <4>5, <5>2
          <6>2. PICK k \in DOMAIN overlays[e] : overlays[e][k] = p
            BY <3>2, <6>1
          <6>3. k \in DOMAIN overlays'[e] /\ overlays'[e][k] = p
            BY <4>2, <6>2
          <6> QED
            BY <6>3
        <5> QED
          BY <5>1, <5>2
      <4> QED
        BY <4>4, <4>5
    <3> QED
      BY <3>3, <3>4
  <2> QED
    BY <1>1, <2>3, <2>10, <2>11 DEF OverlayInv
<1>13. CASE \E o \in DecodeOutcomes : \/ DecodeFirmware(o) \/ DecodePlatformInfo(o)
                                      \/ DecodeProcessor(o) \/ DecodeStructure(o)
  <2>1. PICK o \in DecodeOutcomes : \/ DecodeFirmware(o) \/ DecodePlatformInfo(o)
                                    \/ DecodeProcessor(o) \/ DecodeStructure(o)
    BY <1>13
  <2>2. Decodes /\ stage \in {"vendor", "system", "baseboard", "processors", "decode"}
    <3>1. CASE DecodeFirmware(o)
      BY <3>1, DecodeStages
    <3>2. CASE DecodePlatformInfo(o)
      BY <3>2, DecodeStages
    <3>3. CASE DecodeProcessor(o)
      BY <3>3, DecodeStages
    <3>4. CASE DecodeStructure(o)
      BY <3>4, DecodeStages
    <3> QED
      BY <2>1, <3>1, <3>2, <3>3, <3>4
  <2>3. stage' # "overlay" /\ (entry' = 0 \/ stage' = "failed")
    BY <2>1, <2>2
    DEF DecodeFirmware, DecodePlatformInfo, DecodeProcessor, DecodeStructure, Enter, FailOpening,
        Advance, AfterInfo
  <2> QED
    BY <1>1, <2>2, <2>3, LaterStep
<1>14. CASE \/ MissFirmware \/ MissPlatformInfo \/ PassByProcessor \/ FinishProcessors
            \/ SetupModules \/ FinishDecode \/ PassByUnlinked \/ FinishLink
  <2>1. Retains
    BY <1>4, <1>14
    DEF MissFirmware, MissPlatformInfo, PassByProcessor, FinishProcessors, SetupModules,
        FinishDecode, PassByUnlinked, FinishLink
  <2>2. /\ stage \notin {"overlay", "failed"}
        /\ stage' # "overlay" /\ (entry' = 0 \/ stage' = "failed")
    BY <1>14
    DEF MissFirmware, MissPlatformInfo, PassByProcessor, FinishProcessors, SetupModules,
        FinishDecode, PassByUnlinked, FinishLink, At, Past, Enter, FailOpening, Advance, AfterInfo
  <2> QED
    BY <1>1, <2>1, <2>2, LaterStep
<1>15. CASE \/ LinkReferences \/ LinkWithoutMemory \/ LinkProperty
            \/ LinkPropertyWithoutMemory \/ RefuseProperty
  <2>1. Retains
    BY <1>4, <1>15
    DEF LinkReferences, LinkWithoutMemory, LinkProperty, LinkPropertyWithoutMemory, RefuseProperty,
        Retains
  <2>2. /\ stage \notin {"overlay", "failed"}
        /\ stage' # "overlay" /\ entry' = 0
    BY <1>15
    DEF LinkReferences, LinkWithoutMemory, LinkProperty, LinkPropertyWithoutMemory, RefuseProperty,
        LinksNow, At, Advance
  <2> QED
    BY <1>1, <2>1, <2>2, LaterStep
<1> QED
  BY <1>5, <1>6, <1>7, <1>8, <1>9, <1>10, <1>11, <1>12, <1>13, <1>14, <1>15 DEF Next

LEMMA OverlayStutters ==
  ASSUME OverlayInv, UNCHANGED vars
  PROVE  OverlayInv'
PROOF
<1> USE DEF vars, flags, entities, errors
<1>1. /\ Positions' = Positions /\ Pairs' = Pairs
      /\ \A e : /\ EntriesOf(e)' = EntriesOf(e) /\ Role(e)' = Role(e)
                /\ Content(e)' = Content(e) /\ Decodable(e)' = Decodable(e)
  BY TableStays
<1>2. TypeOK'
  BY <1>1, TypesStay DEF OverlayInv, ControlTyped
<1>3. EntriesAreRead'
  BY <1>1 DEF OverlayInv, EntriesAreRead
<1>4. \A p : (Processed(p)' <=> Processed(p)) /\ (Handled(p)' <=> Handled(p))
  BY DEF Processed, Handled
<1>5. CopiesAreOverlaid' /\ DecodedIsDecodable' /\ DecodedAsOverlaid' /\ overlays' = overlays
  BY DecodedStays DEF Retains
<1>6. OverlaysFollowTable'
  BY <1>1, <1>4, <1>5, OverlaysStay DEF EntriesOf
<1> QED
  BY <1>2, <1>3, <1>5, <1>6 DEF OverlayInv

-----------------------------------------------------------------------------
(* Theorems: types and overlays                                              *)

\* The strengthening of the types and of what is decoded from overlays.
THEOREM OverlaysInvariant == Spec => []OverlayInv
PROOF
<1>1. Init => OverlayInv
  BY InitOverlays
<1>2. OverlayInv /\ [Next]_vars => OverlayInv'
  BY OverlayNext, OverlayStutters
<1> QED
  BY <1>1, <1>2, PTL DEF Spec

(* Whatever runs out of memory and whatever is malformed, each structure     *)
(* keeps a body, a list of overlays and one of properties, and the iterator  *)
(* stays within the table or at its end.                                     *)
THEOREM TypeCorrect == Spec => []TypeOK
PROOF
<1>1. OverlayInv => TypeOK
  BY DEF OverlayInv
<1> QED
  BY <1>1, OverlaysInvariant, PTL

(* However many stages try to decode a structure, and however often, it is   *)
(* decoded from the value of the last entry of additional information that   *)
(* refers to it.                                                             *)
THEOREM DecodedFromLastEntry == Spec => []DecodedAsOverlaid
PROOF
<1>1. OverlayInv => DecodedAsOverlaid
  BY DEF OverlayInv
<1> QED
  BY <1>1, OverlaysInvariant, PTL

-----------------------------------------------------------------------------
(* Steps keep VerdictInv                                                     *)

LEMMA MemoryIsTold ==
  ASSUME NEW S, NEW a, NEW b, <<"memory", a, b>> \in S
  PROVE  \E f \in S : f[1] = "memory"
PROOF
<1>1. <<"memory", a, b>>[1] = "memory"
  OBVIOUS
<1> QED
  BY <1>1

\* What a step may raise: nothing, or that memory has run out, or a fault.
LEMMA ErrorSteps ==
  ASSUME OverlayInv, Next
  PROVE  /\ raised \subseteq raised'
         /\ starving' => starving \/ \E f \in raised' : f[1] = "memory"
PROOF
<1> DEFINE Grows == /\ raised \subseteq raised'
                    /\ starving' => starving \/ \E f \in raised' : f[1] = "memory"
<1>1. UNCHANGED errors => Grows
  BY DEF errors
<1>2. \A faults : Report(faults) => Grows
  BY DEF Report
<1>3. Decodes => Grows
  <2> SUFFICES ASSUME NEW e \in Positions, NEW o \in DecodeOutcomes, Decode(e, o),
                      stage \notin {"overlay", "failed"} \/ Role(e) = "info"
               PROVE  Grows
    BY DEF Decodes
  <2>1. CASE UNCHANGED errors
    BY <1>1, <2>1
  <2>2. CASE raised' = raised \cup {<<"memory", e, 0>>}
    <3>1. <<"memory", e, 0>> \in raised'
      BY <2>2
    <3> QED
      BY <2>2, <3>1, MemoryIsTold
  <2>3. CASE ~starving' /\ raised' = raised \cup {Own(e)}
    BY <2>3
  <2>4. \/ UNCHANGED errors
        \/ raised' = raised \cup {<<"memory", e, 0>>}
        \/ ~starving' /\ raised' = raised \cup {Own(e)}
    BY DecodeFacts
  <2> QED
    BY <2>1, <2>2, <2>3, <2>4
<1>4. (\E o \in DecodeOutcomes : \/ DecodeInfo(o) \/ DecodeFirmware(o) \/ DecodePlatformInfo(o)
                                 \/ DecodeProcessor(o) \/ DecodeStructure(o)) => Decodes
  BY DecodeStages
<1>5. SUFFICES Grows
  OBVIOUS
<1>6. CASE AttachWithoutMemory
  <2>1. raised' = raised \cup {<<"memory", cursor, entry>>}
    BY <1>6 DEF AttachWithoutMemory
  <2>2. <<"memory", cursor, entry>> \in raised'
    BY <2>1
  <2> QED
    BY <2>1, <2>2, MemoryIsTold
<1> HIDE DEF Grows
<1>7. CASE \/ SkipOverlays \/ PassByInfo \/ AttachEntry \/ PassEntries \/ FinishOverlays
           \/ MissPlatformInfo \/ PassByProcessor \/ FinishProcessors \/ FinishDecode
           \/ PassByUnlinked \/ LinkProperty \/ FinishLink
  <2>1. UNCHANGED errors
    BY <1>7
    DEF SkipOverlays, PassByInfo, AttachEntry, PassEntries, FinishOverlays, MissPlatformInfo,
        PassByProcessor, FinishProcessors, FinishDecode, PassByUnlinked, LinkProperty, FinishLink
  <2> QED
    BY <1>1, <2>1
<1>8. CASE \/ RefuseEntry \/ MissFirmware \/ SetupModules \/ LinkReferences
           \/ LinkWithoutMemory \/ LinkPropertyWithoutMemory \/ RefuseProperty
  <2>1. UNCHANGED errors \/ \E faults : Report(faults)
    BY <1>8
    DEF RefuseEntry, MissFirmware, SetupModules, LinkReferences, LinkWithoutMemory,
        LinkPropertyWithoutMemory, RefuseProperty
  <2> QED
    BY <1>1, <1>2, <2>1
<1>9. Grows
  BY <1>3, <1>4, <1>6, <1>7, <1>8 DEF Next
<1> QED
  BY <1>9 DEF Grows

\* How opening goes from stage to stage.
LEMMA StageSteps ==
  ASSUME OverlayInv, Next
  PROVE  /\ stage \notin {"open", "failed"}
         /\ \/ stage' = "failed" \/ (stage' = stage /\ cursor' \in {cursor, cursor + 1})
            \/ stage = "overlay" /\ stage' = "vendor" /\ (SkipOverlays \/ FinishOverlays)
            \/ /\ stage = "vendor" /\ stage' = "system"
               /\ strict => IsOf("firmware") # {}
            \/ stage = "system" /\ stage' = "baseboard"
            \/ stage = "baseboard" /\ stage' = "processors"
            \/ stage = "processors" /\ stage' = "modules"
            \/ stage = "modules" /\ stage' = "decode" /\ cursor' = 1
            \/ stage = "decode" /\ stage' = (IF linking THEN "link" ELSE "open") /\ FinishDecode /\ cursor' = 1
            \/ stage = "link" /\ stage' = "open" /\ FinishLink
         /\ stage' = "failed" => UNCHANGED cursor
         /\ stage # "link" => UNCHANGED <<linked, targets, properties>>
         /\ stage = "link" => UNCHANGED <<decoded, info, copy, overlays>>
PROOF
<1>1. CASE \/ SkipOverlays \/ PassByInfo \/ AttachEntry \/ AttachWithoutMemory \/ RefuseEntry
           \/ PassEntries \/ FinishOverlays
  BY <1>1
  DEF SkipOverlays, PassByInfo, AttachEntry, AttachWithoutMemory, RefuseEntry, PassEntries,
      FinishOverlays, Reading, At, Past, Enter, Advance, FailOpening, entities
<1>2. CASE \/ MissFirmware \/ MissPlatformInfo \/ PassByProcessor \/ FinishProcessors
           \/ SetupModules \/ FinishDecode
  BY <1>2
  DEF MissFirmware, MissPlatformInfo, PassByProcessor, FinishProcessors, SetupModules,
      FinishDecode, At, Past, Enter, Advance, FailOpening, entities, AfterInfo
<1>3. CASE \/ PassByUnlinked \/ LinkReferences \/ LinkWithoutMemory \/ LinkProperty
           \/ LinkPropertyWithoutMemory \/ RefuseProperty \/ FinishLink
  BY <1>3
  DEF PassByUnlinked, LinkReferences, LinkWithoutMemory, LinkProperty,
      LinkPropertyWithoutMemory, RefuseProperty, FinishLink, LinksNow, At, Past, Enter, Advance,
      FailOpening, entities
<1>4. ASSUME NEW o \in DecodeOutcomes,
             \/ DecodeInfo(o) \/ DecodeFirmware(o) \/ DecodePlatformInfo(o)
             \/ DecodeProcessor(o) \/ DecodeStructure(o)
      PROVE  /\ \/ stage' = "failed" /\ UNCHANGED cursor
                \/ (stage' = stage /\ cursor' \in {cursor, cursor + 1})
                \/ stage = "vendor" /\ stage' = "system" /\ IsOf("firmware") # {}
                \/ stage = "system" /\ stage' = "baseboard"
                \/ stage = "baseboard" /\ stage' = "processors"
                \/ stage = "processors" /\ stage' = "modules"
             /\ stage \notin {"link", "open", "failed"}
             /\ UNCHANGED <<linked, targets, properties>>
  BY <1>4
  DEF DecodeInfo, DecodeFirmware, DecodePlatformInfo, DecodeProcessor, DecodeStructure,
      At, Enter, Advance, FailOpening, AfterInfo, Decode
<1>5. CASE \E o \in DecodeOutcomes :
             \/ DecodeInfo(o) \/ DecodeFirmware(o) \/ DecodePlatformInfo(o)
             \/ DecodeProcessor(o) \/ DecodeStructure(o)
  BY <1>4, <1>5
<1> QED
  BY <1>1, <1>2, <1>3, <1>5 DEF Next

LEMMA StarvingNext ==
  ASSUME OverlayInv, StarvingIsKnown, Next
  PROVE  StarvingIsKnown'
PROOF
<1>1. /\ raised \subseteq raised'
      /\ starving' => starving \/ \E f \in raised' : f[1] = "memory"
  BY ErrorSteps
<1> QED
  BY <1>1 DEF StarvingIsKnown, Starved

\* In relaxed mode, opening fails for want of memory, or in SetupModules.
LEMMA RelaxedNext ==
  ASSUME OverlayInv, StarvingIsKnown, RelaxedSurvives, Next
  PROVE  RelaxedSurvives'
PROOF
<1>1. /\ raised \subseteq raised' /\ UNCHANGED flags
      /\ Starved => Starved'
  BY ErrorSteps, FlagsStay DEF Starved
<1> SUFFICES ASSUME stage' = "failed", ~strict
             PROVE  Starved' \/ <<"modules", 0, 0>> \in raised'
  BY <1>1 DEF RelaxedSurvives, flags
<1>2. ASSUME NEW e \in Positions, NEW o \in Starving, Decode(e, o),
             stage \notin {"overlay", "failed"} \/ Role(e) = "info"
      PROVE  Starved'
  <2>1. \/ starving
        \/ raised' = raised \cup {<<"memory", e, 0>>}
    BY <1>2, DecodeFacts DEF Starving, Succeeded
  <2>2. CASE starving
    BY <1>1, <2>2 DEF StarvingIsKnown
  <2>3. CASE raised' = raised \cup {<<"memory", e, 0>>}
    BY <2>3, MemoryIsTold DEF Starved
  <2> QED
    BY <2>1, <2>2, <2>3
<1>3. CASE AttachWithoutMemory
  BY <1>3, MemoryIsTold DEF AttachWithoutMemory, Starved
<1>4. CASE SetupModules
  BY <1>4 DEF SetupModules, Enter, Report
<1>5. ASSUME NEW o \in DecodeOutcomes, DecodeInfo(o)
      PROVE  Starved'
  <2>1. cursor \in Positions /\ Role(cursor) = "info" /\ Decode(cursor, o)
    BY <1>5, DecodeStages
  <2>2. o \in Starving
    BY <1>5 DEF DecodeInfo, At, Advance
  <2> QED
    BY <1>2, <2>1, <2>2
<1>6. ASSUME NEW o \in DecodeOutcomes, DecodeStructure(o)
      PROVE  Starved'
  <2>1. stage = "decode" /\ cursor \in Positions /\ Decode(cursor, o)
    BY <1>6, DecodeStages
  <2>2. o \in Starving
    BY <1>6, <2>1 DEF DecodeStructure, Advance
  <2> QED
    BY <1>2, <2>1, <2>2
<1>7. ~(\/ SkipOverlays \/ PassByInfo \/ AttachEntry \/ RefuseEntry \/ PassEntries
        \/ FinishOverlays \/ MissFirmware \/ MissPlatformInfo \/ PassByProcessor
        \/ FinishProcessors \/ FinishDecode)
  BY DEF SkipOverlays, PassByInfo, AttachEntry, RefuseEntry, PassEntries, FinishOverlays,
         MissFirmware, MissPlatformInfo, PassByProcessor, FinishProcessors, FinishDecode,
         Reading, At, Past, Enter, Advance, Fatal, AfterInfo
<1>8. ~(\/ PassByUnlinked \/ LinkReferences \/ LinkWithoutMemory \/ LinkProperty
        \/ LinkPropertyWithoutMemory \/ RefuseProperty \/ FinishLink)
  BY DEF PassByUnlinked, LinkReferences, LinkWithoutMemory, LinkProperty,
         LinkPropertyWithoutMemory, RefuseProperty, FinishLink, LinksNow, At, Past, Enter, Advance,
         Fatal
<1>9. \A o \in DecodeOutcomes : ~(DecodeFirmware(o) \/ DecodePlatformInfo(o) \/ DecodeProcessor(o))
  BY DEF DecodeFirmware, DecodePlatformInfo, DecodeProcessor, Enter, Advance, At, AfterInfo
<1> QED
  BY <1>3, <1>4, <1>5, <1>6, <1>7, <1>8, <1>9 DEF Next

\* What is reported of the table is a fault of it.
Named == {"short", "malformed", "entry", "reference"}

LEMMA FaultsNext ==
  ASSUME OverlayInv, LinkReports, OnlyFaultsReported, Next
  PROVE  OnlyFaultsReported'
PROOF
<1>1. UNCHANGED flags /\ Faults' = Faults
  BY FlagsStay, TableStays DEF Faults
<1> DEFINE True == \A f \in raised' : f \in raised \/ f[1] \notin Named \/ f \in Faults
<1>2. SUFFICES True
  BY <1>1 DEF OnlyFaultsReported, Named
<1>3. UNCHANGED errors => True
  BY DEF errors
<1>4. ASSUME NEW faults, Report(faults), \A f \in faults : f[1] \notin Named \/ f \in Faults
      PROVE  True
  BY <1>4 DEF Report
<1>5. ASSUME NEW o \in DecodeOutcomes,
             \/ DecodeInfo(o) \/ DecodeFirmware(o) \/ DecodePlatformInfo(o)
             \/ DecodeProcessor(o) \/ DecodeStructure(o)
      PROVE  True
  <2>1. Decodes
    BY <1>5, DecodeStages
  <2>2. PICK e \in Positions, u \in DecodeOutcomes :
          /\ stage \notin {"overlay", "failed"} \/ Role(e) = "info"
          /\ Decode(e, u)
    BY <2>1 DEF Decodes
  <2>3. \/ UNCHANGED errors
        \/ raised' = raised \cup {<<"memory", e, 0>>}
        \/ Spoiled(e) /\ raised' = raised \cup {Own(e)}
    BY <2>2, DecodeFacts
  <2>4. Spoiled(e) => Own(e) \in Faults
    BY DEF Faults, DecodeFaults
  <2>5. <<"memory", e, 0>>[1] \notin Named
    BY DEF Named
  <2> QED
    BY <1>3, <2>3, <2>4, <2>5
<1>6. CASE AttachWithoutMemory
  <2>1. raised' = raised \cup {<<"memory", cursor, entry>>}
    BY <1>6 DEF AttachWithoutMemory
  <2>2. <<"memory", cursor, entry>>[1] \notin Named
    BY DEF Named
  <2> QED
    BY <2>1, <2>2
<1>7. CASE RefuseEntry
  <2>1. ~AttachEntry /\ overlaying /\ Report({<<"entry", cursor, entry>>})
    BY <1>7 DEF RefuseEntry, AttachEntry, Reading
  <2>2. <<cursor, entry>> \in Pairs /\ ~Fitting(<<cursor, entry>>)
    BY <1>1, <1>7, <2>1, OverlayProgress
  <2>3. <<"entry", cursor, entry>> \in Faults
    BY <2>1, <2>2 DEF Faults, OverlayFaults
  <2> QED
    BY <1>4, <2>1, <2>3
<1>8. CASE MissFirmware
  <2>1. UNCHANGED errors \/ Report({<<"firmware", 0, 0>>})
    BY <1>8 DEF MissFirmware
  <2>2. <<"firmware", 0, 0>>[1] \notin Named
    BY DEF Named
  <2> QED
    BY <1>3, <1>4, <2>1, <2>2
<1>9. CASE SetupModules
  <2>1. UNCHANGED errors \/ Report({<<"modules", 0, 0>>})
    BY <1>9 DEF SetupModules
  <2>2. <<"modules", 0, 0>>[1] \notin Named
    BY DEF Named
  <2> QED
    BY <1>3, <1>4, <2>1, <2>2
<1>10. ASSUME LinksNow, NEW k \in Unlinked(cursor)
       PROVE  <<"reference", cursor, k>> \in Faults
  <2>1. cursor \in Positions /\ Linkable(cursor) /\ Decodable(cursor) /\ linking
    BY <1>10 DEF LinksNow, At, OverlayInv, DecodedIsDecodable, LinkReports
  <2> QED
    BY <1>10, <2>1 DEF Faults, LinkFaults
<1>11. ASSUME LinksNow, Role(cursor) # "property", NEW reached, NEW f \in BrokenLinks(reached)
       PROVE  f \in Faults
  BY <1>10, <1>11 DEF BrokenLinks, Unlinked
<1>12. CASE LinkReferences
  <2>1. /\ LinksNow /\ Role(cursor) # "property"
        /\ Report(BrokenLinks(DOMAIN Refs(cursor)))
    BY <1>12 DEF LinkReferences
  <2> QED
    BY <1>4, <1>11, <2>1
<1>13. CASE LinkWithoutMemory
  <2>1. PICK reached : Report({<<"memory", cursor, 0>>} \cup BrokenLinks(reached))
    BY <1>13 DEF LinkWithoutMemory
  <2>2. LinksNow /\ Role(cursor) # "property"
    BY <1>13 DEF LinkWithoutMemory
  <2>3. <<"memory", cursor, 0>>[1] \notin Named
    BY DEF Named
  <2>4. \A f \in {<<"memory", cursor, 0>>} \cup BrokenLinks(reached) : f[1] \notin Named \/ f \in Faults
    BY <1>11, <2>2, <2>3
  <2> QED
    BY <1>4, <2>1, <2>4
<1>14. CASE LinkPropertyWithoutMemory
  <2>1. Report({<<"memory", cursor, 0>>})
    BY <1>14 DEF LinkPropertyWithoutMemory
  <2>2. <<"memory", cursor, 0>>[1] \notin Named
    BY DEF Named
  <2> QED
    BY <1>4, <2>1, <2>2
<1>15. CASE RefuseProperty
  <2>1. LinksNow /\ 1 \in Unlinked(cursor) /\ Report({<<"reference", cursor, 1>>})
    BY <1>15 DEF RefuseProperty, Unlinked
  <2> QED
    BY <1>4, <1>10, <2>1
<1>16. CASE \/ SkipOverlays \/ PassByInfo \/ AttachEntry \/ PassEntries \/ FinishOverlays
            \/ MissPlatformInfo \/ PassByProcessor \/ FinishProcessors \/ FinishDecode
            \/ PassByUnlinked \/ LinkProperty \/ FinishLink
  <2>1. UNCHANGED errors
    BY <1>16
    DEF SkipOverlays, PassByInfo, AttachEntry, PassEntries, FinishOverlays, MissPlatformInfo,
        PassByProcessor, FinishProcessors, FinishDecode, PassByUnlinked, LinkProperty, FinishLink
  <2> QED
    BY <1>3, <2>1
<1> HIDE DEF True
<1> QED
  BY <1>5, <1>6, <1>7, <1>8, <1>9, <1>12, <1>13, <1>14, <1>15, <1>16 DEF Next

LEMMA OverlayReportsNext ==
  ASSUME OverlayInv, OverlayReports, Next
  PROVE  OverlayReports'
PROOF
<1>1. /\ UNCHANGED flags /\ Pairs' = Pairs /\ raised \subseteq raised'
      /\ \A e : Own(e)' = Own(e) /\ Spoiled(e)' = Spoiled(e) /\ IsOf(e)' = IsOf(e)
      /\ \A p : Fitting(p)' = Fitting(p)
  BY FlagsStay, TableStays, ErrorSteps
<1> SUFFICES ASSUME stage' = "overlay", overlaying
             PROVE  /\ \A e \in IsOf("info") : e < cursor' /\ Spoiled(e) => Own(e) \in raised' /\ ~clean'
                    /\ \A p \in Pairs : Processed(p)' /\ ~Fitting(p) =>
                         <<"entry", p[1], p[2]>> \in raised' /\ ~clean'
  BY <1>1 DEF OverlayReports, flags
<1>2. /\ stage = "overlay" /\ cursor \in Nat /\ IsOf("info") \subseteq Nat
      /\ IsOf("info") \subseteq Positions
      /\ \A e \in IsOf("info") : e < cursor /\ Spoiled(e) => Own(e) \in raised /\ ~clean
      /\ \A p \in Pairs : Processed(p) /\ ~Fitting(p) => <<"entry", p[1], p[2]>> \in raised /\ ~clean
  <2>1. stage = "overlay"
    BY StageSteps
  <2>2. cursor \in Nat /\ table \in Tables
    BY DEF OverlayInv, TypeOK
  <2>3. Positions \subseteq Nat
    BY <2>2, TableIsWhole
  <2>4. IsOf("info") \subseteq Nat /\ IsOf("info") \subseteq Positions
    BY <2>3 DEF IsOf
  <2> QED
    BY <2>1, <2>2, <2>4 DEF OverlayReports
<1>3. CASE PassByInfo
  <2>1. cursor' = cursor + 1 /\ cursor \notin IsOf("info") /\ clean' = clean
    BY <1>3 DEF PassByInfo, Advance, IsOf
  <2>2. \A p \in Pairs : Processed(p)' <=> Processed(p)
    BY <1>1, <1>3, OverlayProgress
  <2>3. \A e \in IsOf("info") : e < cursor' <=> e < cursor
    BY <1>2, <2>1
  <2> QED
    BY <1>1, <1>2, <2>1, <2>2, <2>3
<1>4. CASE PassEntries
  <2>1. /\ cursor' = cursor + 1 /\ clean' = clean /\ cursor \in Positions
        /\ entry > Len(table[cursor].entries)
    BY <1>4 DEF PassEntries, Advance, At
  <2>2. cursor \in decoded
    <3>1. Len(table[cursor].entries) \in Nat /\ entry \in Nat
      BY <2>1, TableIsWhole DEF OverlayInv, TypeOK, Record
    <3> QED
      BY <1>2, <2>1, <3>1 DEF OverlayInv, EntriesAreRead
  <2>3. ~Spoiled(cursor)
    BY <2>2 DEF OverlayInv, DecodedIsDecodable, Spoiled
  <2>4. \A p \in Pairs : Processed(p)' <=> Processed(p)
    BY <1>1, <1>4, OverlayProgress
  <2>5. \A e \in IsOf("info") : e < cursor' <=> e < cursor \/ e = cursor
    BY <1>2, <2>1
  <2> QED
    BY <1>1, <1>2, <2>1, <2>3, <2>4, <2>5
<1>5. CASE AttachEntry
  <2>1. cursor' = cursor /\ clean' = clean
    BY <1>5 DEF AttachEntry
  <2>2. \A p \in Pairs : Processed(p)' /\ ~Fitting(p) => Processed(p)
    BY <1>1, <1>5, OverlayProgress
  <2> QED
    BY <1>1, <1>2, <2>1, <2>2
<1>6. CASE RefuseEntry
  <2>1. cursor' = cursor /\ ~clean' /\ <<"entry", cursor, entry>> \in raised'
    BY <1>6 DEF RefuseEntry, Report
  <2>2. /\ \A p \in Pairs : Processed(p)' => Processed(p) \/ p = <<cursor, entry>>
        /\ <<cursor, entry>>[1] = cursor /\ <<cursor, entry>>[2] = entry
    BY <1>1, <1>6, OverlayProgress
  <2> QED
    BY <1>1, <1>2, <2>1, <2>2
<1>7. ASSUME NEW o \in DecodeOutcomes, DecodeInfo(o)
      PROVE  /\ \A e \in IsOf("info") : e < cursor' /\ Spoiled(e) => Own(e) \in raised' /\ ~clean'
             /\ \A p \in Pairs : Processed(p)' /\ ~Fitting(p) =>
                  <<"entry", p[1], p[2]>> \in raised' /\ ~clean'
  <2>1. \A p \in Pairs : Processed(p)' <=> Processed(p)
    BY <1>1, <1>7, OverlayProgress
  <2>2. cursor \in Positions /\ Role(cursor) = "info" /\ Decode(cursor, o)
    BY <1>7, DecodeStages
  <2>3. CASE UNCHANGED <<flags, stage, cursor, clean>>
    BY <1>1, <1>2, <2>1, <2>3
  <2>4. CASE o \notin Succeeded \cup Starving /\ Advance /\ clean' = FALSE
    <3>1. cursor' = cursor + 1 /\ ~clean'
      BY <2>4 DEF Advance
    <3>2. raised' = raised \cup {Own(cursor)}
      BY <2>2, <2>4, DecodeFacts DEF Starving
    <3>3. \A e \in IsOf("info") : e < cursor' => e < cursor \/ e = cursor
      BY <1>2, <3>1
    <3> QED
      BY <1>1, <1>2, <2>1, <3>1, <3>2, <3>3
  <2> QED
    BY <1>2, <1>7, <2>3, <2>4 DEF DecodeInfo, FailOpening
<1>8. ~(SkipOverlays \/ AttachWithoutMemory \/ FinishOverlays)
  BY <1>2 DEF SkipOverlays, AttachWithoutMemory, FinishOverlays, Past, Enter, FailOpening
<1>9. ~(\/ MissFirmware \/ MissPlatformInfo \/ PassByProcessor \/ FinishProcessors
        \/ SetupModules \/ FinishDecode \/ PassByUnlinked \/ LinkReferences \/ LinkWithoutMemory
        \/ LinkProperty \/ LinkPropertyWithoutMemory \/ RefuseProperty \/ FinishLink)
  BY <1>2
  DEF MissFirmware, MissPlatformInfo, PassByProcessor, FinishProcessors, SetupModules,
      FinishDecode, PassByUnlinked, LinkReferences, LinkWithoutMemory, LinkProperty,
      LinkPropertyWithoutMemory, RefuseProperty, FinishLink, LinksNow, At, Past, AfterInfo
<1>10. \A o \in DecodeOutcomes : ~(\/ DecodeFirmware(o) \/ DecodePlatformInfo(o)
                                   \/ DecodeProcessor(o) \/ DecodeStructure(o))
  BY <1>2
  DEF DecodeFirmware, DecodePlatformInfo, DecodeProcessor, DecodeStructure, At, AfterInfo
<1> QED
  BY <1>3, <1>4, <1>5, <1>6, <1>7, <1>8, <1>9, <1>10 DEF Next

\* A stage at its end has gone past all structures.
LEMMA PastIsAll ==
  ASSUME OverlayInv, NEW which, Past(which)
  PROVE  \A e \in Positions : e \in Nat /\ e < cursor
PROOF
<1>1. Len(table) \in Nat /\ Positions = 1..Len(table) /\ cursor \in 1..(Len(table) + 1)
  BY TableIsWhole DEF OverlayInv, TypeOK, Positions
<1> QED
  BY <1>1 DEF Past

LEMMA DecodeReportsNext ==
  ASSUME OverlayInv, OverlayInv', DecodeReports, Next
  PROVE  DecodeReports'
PROOF
<1>1. /\ UNCHANGED flags /\ Positions' = Positions /\ raised \subseteq raised'
      /\ \A e : /\ Own(e)' = Own(e) /\ Spoiled(e)' = Spoiled(e) /\ Role(e)' = Role(e)
                /\ Decodable(e)' = Decodable(e)
  BY FlagsStay, TableStays, ErrorSteps
<1>2. cursor \in Nat /\ Positions \subseteq Nat \ {0}
  BY TableIsWhole DEF OverlayInv, TypeOK
<1>3. ASSUME stage' = "decode"
      PROVE  \A e \in Positions : e < cursor' /\ Role(e) # "opaque" =>
               e \in decoded' \/ (Spoiled(e) /\ Own(e) \in raised' /\ ~clean')
  <2>1. CASE stage = "decode"
    <3>1. PICK o \in DecodeOutcomes : DecodeStructure(o)
      BY <1>3, <2>1
      DEF Next, SkipOverlays, PassByInfo, AttachEntry, AttachWithoutMemory, RefuseEntry,
          PassEntries, FinishOverlays, MissFirmware, MissPlatformInfo, PassByProcessor,
          FinishProcessors, SetupModules, FinishDecode, PassByUnlinked, LinkReferences,
          LinkWithoutMemory, LinkProperty, LinkPropertyWithoutMemory, RefuseProperty, FinishLink,
          DecodeInfo, DecodeFirmware, DecodePlatformInfo, DecodeProcessor, Reading, LinksNow, At,
          Past, AfterInfo, Enter, FailOpening
    <3>2. /\ cursor \in Positions /\ Decode(cursor, o)
      BY <3>1, DecodeStages
    <3>3. /\ o \notin Starving /\ cursor' = cursor + 1
          /\ clean' = (clean /\ o \in Succeeded)
      BY <1>3, <3>1 DEF DecodeStructure, FailOpening, Advance
    <3>4. decoded \subseteq decoded'
      BY <3>2 DEF Decode
    <3>5. \/ o \in Succeeded /\ (cursor \in decoded' \/ Role(cursor) = "opaque")
          \/ o \notin Succeeded /\ Spoiled(cursor) /\ raised' = raised \cup {Own(cursor)}
      BY <2>1, <3>2, <3>3, DecodeFacts DEF Starving
    <3>6. \A e \in Positions : e < cursor' => e < cursor \/ e = cursor
      BY <1>2, <3>3
    <3>7. ~clean => ~clean'
      BY <3>3
    <3>8. o \notin Succeeded => ~clean'
      BY <3>3
    <3> QED
      BY <1>1, <2>1, <3>4, <3>5, <3>6, <3>7, <3>8 DEF DecodeReports
  <2>2. CASE stage # "decode"
    <3>1. cursor' = 1
      BY <1>3, <2>2, StageSteps
    <3> QED
      BY <1>2, <3>1
  <2> QED
    BY <2>1, <2>2
<1>4. ASSUME stage' \in {"link", "open"}
      PROVE  \A e \in Positions : Decodable(e) => e \in decoded'
  <2>1. CASE stage = "decode"
    <3>1. Past("decode") /\ UNCHANGED decoded
      BY <1>4, <2>1, StageSteps DEF FinishDecode, entities
    <3> QED
      BY <2>1, <3>1, PastIsAll DEF DecodeReports, Decodable, Spoiled
  <2>2. CASE stage = "link"
    BY <2>2, StageSteps DEF DecodeReports
  <2> QED
    BY <1>4, <2>1, <2>2, StageSteps
<1> QED
  BY <1>1, <1>3, <1>4 DEF DecodeReports

\* The link stage goes past the structures one by one.
LEMMA LinkSteps ==
  ASSUME OverlayInv, Next, stage = "link"
  PROVE  /\ \/ PassByUnlinked \/ LinkReferences \/ LinkWithoutMemory \/ LinkProperty
            \/ LinkPropertyWithoutMemory \/ RefuseProperty \/ FinishLink
         /\ ~FinishLink => /\ cursor \in Positions /\ stage' = "link" /\ cursor' = cursor + 1
                           /\ \A e \in Positions : e < cursor' <=> e < cursor \/ e = cursor
PROOF
<1>1. \/ PassByUnlinked \/ LinkReferences \/ LinkWithoutMemory \/ LinkProperty
      \/ LinkPropertyWithoutMemory \/ RefuseProperty \/ FinishLink
  BY DEF Next, SkipOverlays, PassByInfo, AttachEntry, AttachWithoutMemory, RefuseEntry,
         PassEntries, FinishOverlays, MissFirmware, MissPlatformInfo, PassByProcessor,
         FinishProcessors, SetupModules, FinishDecode, DecodeInfo, DecodeFirmware,
         DecodePlatformInfo, DecodeProcessor, DecodeStructure, Reading, At, Past, AfterInfo
<1>2. ~FinishLink => cursor \in Positions /\ stage' = "link" /\ cursor' = cursor + 1
  BY <1>1
  DEF PassByUnlinked, LinkReferences, LinkWithoutMemory, LinkProperty,
      LinkPropertyWithoutMemory, RefuseProperty, LinksNow, At, Advance
<1>3. cursor \in Nat /\ Positions \subseteq Nat
  BY TableIsWhole DEF OverlayInv, TypeOK
<1> QED
  BY <1>1, <1>2, <1>3

LEMMA LinkReportsNext ==
  ASSUME OverlayInv, OverlayInv', LinkReports, Next
  PROVE  LinkReports'
PROOF
<1>1. /\ UNCHANGED flags /\ Positions' = Positions /\ raised \subseteq raised'
      /\ \A e : /\ Linkable(e)' = Linkable(e) /\ Unlinked(e)' = Unlinked(e)
  BY FlagsStay, TableStays, ErrorSteps
<1>2. cursor \in Nat /\ Positions \subseteq Nat \ {0} /\ decoded \subseteq Positions
  BY TableIsWhole DEF OverlayInv, TypeOK
<1>3. /\ stage' = "link" => linking'
      /\ stage' \notin {"link", "open", "failed"} => linked' = {}
  BY <1>1, StageSteps DEF LinkReports, flags
<1> DEFINE Reported(e) == \A k \in Unlinked(e) :
                            <<"reference", e, k>> \in raised' \/ <<"memory", e, 0>> \in raised'
           Settled(e) == /\ e \notin linked' => /\ ~clean'
                                                /\ Unlinked(e) # {} \/ <<"memory", e, 0>> \in raised'
                         /\ Reported(e)
<1>4. ASSUME stage' = "link"
      PROVE  /\ \A e \in decoded' : e < cursor' /\ Linkable(e) => Settled(e)
             /\ \A e \in linked' : e < cursor'
  <2>1. CASE stage # "link"
    <3>1. cursor' = 1 /\ linked' = {} /\ decoded' \subseteq Positions
      BY <1>1, <1>4, <2>1, StageSteps DEF LinkReports, OverlayInv, TypeOK
    <3> QED
      BY <1>2, <3>1
  <2>2. CASE stage = "link"
    <3>1. /\ decoded' = decoded /\ cursor \in Positions
          /\ \A e \in Positions : e < cursor' <=> e < cursor \/ e = cursor
          /\ cursor' = cursor + 1
      BY <1>4, <2>2, LinkSteps, StageSteps DEF FinishLink, Enter, FailOpening, Past
    <3>2. linked' = linked \/ (linked' = linked \cup {cursor})
      BY <1>4, <2>2, LinkSteps
      DEF PassByUnlinked, LinkReferences, LinkWithoutMemory, LinkProperty,
          LinkPropertyWithoutMemory, RefuseProperty, FinishLink, entities
    <3>3. ~clean => ~clean'
      <4>1. CASE PassByUnlinked \/ LinkProperty
        BY <4>1 DEF PassByUnlinked, LinkProperty
      <4>2. CASE \/ LinkWithoutMemory \/ LinkPropertyWithoutMemory \/ RefuseProperty
        BY <4>2 DEF LinkWithoutMemory, LinkPropertyWithoutMemory, RefuseProperty
      <4>3. CASE LinkReferences
        BY <4>3 DEF LinkReferences
      <4>4. CASE FinishLink
        BY <1>4, <4>4 DEF FinishLink, FailOpening, Enter
      <4> QED
        BY <2>2, <4>1, <4>2, <4>3, <4>4, LinkSteps
    <3>4. \A e \in linked' : e < cursor'
      <4>1. \A e \in linked : e < cursor /\ e \in Positions
        BY <2>2 DEF LinkReports, OverlayInv, TypeOK
      <4>2. \A e \in Positions : e < cursor \/ e = cursor => e < cursor'
        BY <1>2, <3>1
      <4>3. \A e \in linked' : e \in linked \/ e = cursor
        BY <3>2
      <4> QED
        BY <3>1, <4>1, <4>2, <4>3
    <3>5. \A e \in decoded : e < cursor /\ Linkable(e) => Settled(e)
      <4> SUFFICES ASSUME NEW e \in decoded, e < cursor, Linkable(e)
                   PROVE  Settled(e)
        OBVIOUS
      <4>1. /\ e \notin linked => ~clean /\ (Unlinked(e) # {} \/ <<"memory", e, 0>> \in raised)
            /\ \A k \in Unlinked(e) : <<"reference", e, k>> \in raised \/ <<"memory", e, 0>> \in raised
        BY <2>2 DEF LinkReports
      <4> QED
        BY <1>1, <3>2, <3>3, <4>1
    <3>6. cursor \in decoded /\ Linkable(cursor) => Settled(cursor)
      <4> SUFFICES ASSUME cursor \in decoded, Linkable(cursor)
                   PROVE  Settled(cursor)
        OBVIOUS
      <4>1. CASE PassByUnlinked \/ FinishLink
        BY <1>4, <4>1 DEF PassByUnlinked, FinishLink, FailOpening, Enter
      <4>2. CASE LinkReferences
        <5> DEFINE broken == BrokenLinks(DOMAIN Refs(cursor))
        <5>1. /\ Report(broken) /\ broken = {<<"reference", cursor, k>> : k \in Unlinked(cursor)}
              /\ linked' = IF broken = {} THEN linked \cup {cursor} ELSE linked
              /\ clean' = (clean /\ broken = {})
          BY <4>2 DEF LinkReferences, BrokenLinks, Broken, Unlinked
        <5>2. broken \subseteq raised'
          BY <5>1 DEF Report
        <5>3. Reported(cursor)
          BY <5>1, <5>2
        <5>4. cursor \notin linked' => broken # {}
          BY <5>1
        <5>5. broken # {} => Unlinked(cursor) # {} /\ ~clean'
          BY <5>1
        <5> QED
          BY <5>3, <5>4, <5>5
      <4>3. CASE LinkWithoutMemory \/ LinkPropertyWithoutMemory
        <5>1. <<"memory", cursor, 0>> \in raised' /\ ~clean'
          BY <4>3 DEF LinkWithoutMemory, LinkPropertyWithoutMemory, Report
        <5> QED
          BY <5>1
      <4>4. CASE LinkProperty
        BY <4>4 DEF LinkProperty, Unlinked
      <4>5. CASE RefuseProperty
        <5>1. Unlinked(cursor) = {1} /\ <<"reference", cursor, 1>> \in raised' /\ ~clean'
          BY <4>5 DEF RefuseProperty, Unlinked, Report
        <5> QED
          BY <5>1
      <4> QED
        BY <2>2, <4>1, <4>2, <4>3, <4>4, <4>5, LinkSteps
    <3> HIDE DEF Settled
    <3>7. \A e \in decoded' : e < cursor' /\ Linkable(e) => Settled(e)
      BY <1>2, <3>1, <3>5, <3>6
    <3> QED
      BY <3>4, <3>7
  <2> QED
    BY <2>1, <2>2
<1> QED
  BY <1>1, <1>3, <1>4 DEF LinkReports

\* A stage that ends without a fault in strict mode has met none.
LEMMA StrictNext ==
  ASSUME OverlayInv, OverlayReports, DecodeReports, LinkReports, StrictStages, Next
  PROVE  StrictStages'
PROOF
<1>1. /\ UNCHANGED flags /\ Positions' = Positions /\ UNCHANGED OverlayFaults
      /\ \A e : Linkable(e)' = Linkable(e) /\ Role(e)' = Role(e) /\ IsOf(e)' = IsOf(e)
  BY FlagsStay, TableStays
<1> SUFFICES ASSUME strict, stage' # "failed"
             PROVE  /\ stage' # "overlay" => OverlayFaults = {}
                    /\ stage' \notin {"overlay", "vendor"} => IsOf("firmware") # {}
                    /\ stage' \in {"link", "open"} =>
                         \A e \in Positions : Role(e) # "opaque" => e \in decoded'
                    /\ stage' = "open" /\ linking => \A e \in Positions : Linkable(e) => e \in linked'
  BY <1>1 DEF StrictStages, flags
<1>2. stage # "failed"
  BY StageSteps
<1>3. ASSUME stage' # "overlay"
      PROVE  OverlayFaults = {}
  <2>1. CASE stage # "overlay"
    BY <1>2, <2>1 DEF StrictStages
  <2>2. CASE stage = "overlay"
    <3>1. SkipOverlays \/ FinishOverlays
      BY <1>3, <2>2, StageSteps
    <3>2. CASE SkipOverlays
      BY <3>2 DEF SkipOverlays, OverlayFaults
    <3>3. CASE FinishOverlays
      <4>1. overlaying /\ Past("overlay") /\ clean
        BY <3>3 DEF FinishOverlays, Fatal, FailOpening
      <4>2. \A e \in Positions : e < cursor
        BY <4>1, PastIsAll
      <4>3. \A e \in IsOf("info") : ~Spoiled(e)
        BY <2>2, <4>1, <4>2 DEF OverlayReports, IsOf
      <4>4. \A p \in Pairs : p[1] \in Positions
        BY PairsAreEntries DEF OverlayInv, TypeOK
      <4>5. \A p \in Pairs : Processed(p)
        BY <4>2, <4>4 DEF Processed
      <4>6. \A p \in Pairs : Fitting(p)
        BY <2>2, <4>1, <4>5 DEF OverlayReports
      <4> QED
        BY <4>3, <4>6 DEF OverlayFaults
    <3> QED
      BY <3>1, <3>2, <3>3
  <2> QED
    BY <2>1, <2>2
<1>4. stage' \notin {"overlay", "vendor"} => IsOf("firmware") # {}
  BY <1>2, StageSteps DEF StrictStages
<1>5. ASSUME stage' \in {"link", "open"}, NEW e \in Positions, Role(e) # "opaque"
      PROVE  e \in decoded'
  <2>1. CASE stage = "link"
    BY <1>5, <2>1, StageSteps DEF StrictStages
  <2>2. CASE stage = "decode"
    <3>1. Past("decode") /\ clean /\ UNCHANGED decoded
      BY <1>5, <2>2, StageSteps DEF FinishDecode, Fatal, FailOpening, entities
    <3> QED
      BY <1>5, <2>2, <3>1, PastIsAll DEF DecodeReports
  <2> QED
    BY <1>5, <2>1, <2>2, StageSteps
<1>6. ASSUME stage' = "open", linking, NEW e \in Positions, Linkable(e)
      PROVE  e \in linked'
  <2>1. stage = "link" /\ FinishLink
    BY <1>6, StageSteps
  <2>2. Past("link") /\ clean /\ UNCHANGED <<decoded, linked>>
    BY <2>1 DEF FinishLink, Fatal, FailOpening, entities
  <2>3. e \in decoded
    BY <1>5, <1>6, <2>2 DEF Linkable
  <2> QED
    BY <1>6, <2>1, <2>2, <2>3, PastIsAll DEF LinkReports
<1> QED
  BY <1>3, <1>4, <1>5, <1>6

\* References that all resolve are each resolved to what they refer to.
LEMMA FollowedAll ==
  ASSUME OverlayInv, cursor \in Positions, Follow(DOMAIN Refs(cursor)), Broken(cursor) = {}
  PROVE  targets' = [targets EXCEPT ![cursor] = Refs(cursor)]
PROOF
<1> DEFINE given(k) == IF k \in DOMAIN Refs(cursor) /\ Resolves(Refs(cursor)[k])
                       THEN Refs(cursor)[k] ELSE Nowhere
<1>1. targets' = [targets EXCEPT ![cursor] = [k \in DOMAIN Refs(cursor) |-> given(k)]]
  BY DEF Follow
<1>2. \A k \in DOMAIN Refs(cursor) : given(k) = Refs(cursor)[k]
  BY DEF Broken
<1>3. Refs(cursor) \in Seq(Nat)
  BY TableIsWhole DEF OverlayInv, TypeOK, Record, Refs
<1>4. Refs(cursor) = [k \in DOMAIN Refs(cursor) |-> Refs(cursor)[k]]
  BY <1>3
<1>5. [k \in DOMAIN Refs(cursor) |-> given(k)] = Refs(cursor)
  <2> HIDE DEF given
  <2> QED
    BY <1>2, <1>4, Zenon
<1> QED
  BY <1>1, <1>5

\* What a step of the link stage links, it has resolved.
LEMMA LinkVerdictNext ==
  ASSUME OverlayInv, LinkReports, LinkVerdict, Next
  PROVE  LinkVerdict'
PROOF
<1>1. /\ UNCHANGED flags /\ raised \subseteq raised' /\ table \in Tables
      /\ \A e : Linkable(e)' = Linkable(e) /\ Unlinked(e)' = Unlinked(e) /\ Refs(e)' = Refs(e)
  BY FlagsStay, TableStays, ErrorSteps DEF OverlayInv, TypeOK
<1>2. /\ \A e \in linked : e \in decoded /\ Unlinked(e) = {} /\ targets[e] = Refs(e)
      /\ targets \in [Positions -> Seq(Positions \cup {Nowhere})]
      /\ decoded \subseteq Positions /\ Positions \subseteq Nat /\ cursor \in Nat
  BY TableIsWhole DEF LinkVerdict, OverlayInv, TypeOK
<1>3. \A e \in linked' : e \in decoded' /\ Unlinked(e) = {} /\ targets'[e] = Refs(e)
  <2>1. CASE stage # "link"
    <3>1. UNCHANGED <<linked, targets>>
      BY <2>1, StageSteps
    <3>2. decoded \subseteq decoded' \/ linked = {}
      <4>1. CASE stage \notin {"link", "open", "failed"}
        BY <4>1 DEF LinkReports
      <4> QED
        BY <2>1, <4>1, StageSteps
    <3> QED
      BY <1>2, <3>1, <3>2
  <2>2. CASE stage = "link"
    <3>1. /\ UNCHANGED decoded
          /\ \A e \in linked : e < cursor
      BY <2>2, StageSteps DEF LinkReports
    <3>2. \A e \in linked : e # cursor
      BY <1>2, <3>1
    <3>3. CASE PassByUnlinked \/ LinkPropertyWithoutMemory \/ RefuseProperty \/ FinishLink
      <4>1. UNCHANGED <<linked, targets>>
        BY <3>3
        DEF PassByUnlinked, LinkPropertyWithoutMemory, RefuseProperty, FinishLink, entities
      <4> QED
        BY <1>2, <3>1, <4>1
    <3>4. CASE LinkWithoutMemory
      <4>1. UNCHANGED linked
        BY <3>4 DEF LinkWithoutMemory
      <4>2. \A e \in linked : targets'[e] = targets[e]
        BY <1>2, <3>2, <3>4 DEF LinkWithoutMemory, Follow
      <4> QED
        BY <1>2, <3>1, <4>1, <4>2
    <3>5. CASE LinkReferences
      <4> DEFINE broken == BrokenLinks(DOMAIN Refs(cursor))
      <4>1. /\ cursor \in Positions /\ cursor \in decoded /\ Follow(DOMAIN Refs(cursor))
            /\ linked' = IF broken = {} THEN linked \cup {cursor} ELSE linked
            /\ Role(cursor) # "property"
        BY <3>5 DEF LinkReferences, LinksNow, At
      <4>2. \A e \in linked : targets'[e] = targets[e]
        BY <1>2, <3>2, <4>1 DEF Follow
      <4>3. broken = {} => Broken(cursor) = {}
        BY DEF BrokenLinks, Broken
      <4>4. Broken(cursor) = {} => targets'[cursor] = Refs(cursor)
        BY <1>2, <4>1, FollowedAll
      <4>5. Broken(cursor) = {} => Unlinked(cursor) = {}
        BY <4>1 DEF Unlinked
      <4> HIDE DEF broken
      <4> QED
        BY <1>2, <3>1, <4>1, <4>2, <4>3, <4>4, <4>5
    <3>6. CASE LinkProperty
      <4>1. /\ cursor \in Positions /\ cursor \in decoded /\ Role(cursor) = "property"
            /\ CanHave(Parent(cursor)) /\ linked' = linked \cup {cursor}
            /\ targets' = [targets EXCEPT ![cursor] = <<Parent(cursor)>>]
        BY <3>6 DEF LinkProperty, LinksNow, At
      <4>2. <<Parent(cursor)>> = Refs(cursor)
        <5>1. Refs(cursor) \in Seq(Nat) /\ Len(Refs(cursor)) = 1
          BY <1>1, <4>1, TableIsWhole DEF Record, Refs, Role
        <5> QED
          BY <5>1 DEF Parent
      <4>3. Unlinked(cursor) = {}
        BY <4>1 DEF Unlinked
      <4> QED
        BY <1>2, <3>1, <3>2, <4>1, <4>2, <4>3
    <3> QED
      BY <2>2, <3>3, <3>4, <3>5, <3>6, LinkSteps
  <2> QED
    BY <2>1, <2>2
<1>4. ASSUME stage' = "open", linking
      PROVE  \A e \in decoded' : Linkable(e) /\ Unlinked(e) = {} /\ <<"memory", e, 0>> \notin raised'
                                   => e \in linked'
  <2>1. stage = "link" /\ FinishLink
    BY <1>4, StageSteps
  <2>2. Past("link") /\ UNCHANGED <<decoded, linked, raised>>
    BY <2>1 DEF FinishLink, entities, errors
  <2> QED
    BY <1>2, <2>1, <2>2, PastIsAll DEF LinkReports
<1> QED
  BY <1>1, <1>3, <1>4 DEF LinkVerdict, flags

LEMMA PropertiesNext ==
  ASSUME OverlayInv, LinkReports, PropertiesInOrder, Next
  PROVE  PropertiesInOrder'
PROOF
<1>1. /\ UNCHANGED flags /\ Positions' = Positions /\ table \in Tables
      /\ \A e : Role(e)' = Role(e) /\ Parent(e)' = Parent(e)
  BY FlagsStay, TableStays DEF OverlayInv, TypeOK
<1>2. /\ properties \in [Positions -> Seq(Positions)]
      /\ linked \subseteq Positions /\ Positions \subseteq Nat /\ cursor \in Nat
  BY TableIsWhole DEF OverlayInv, TypeOK
<1>3. CASE linked' = linked /\ properties' = properties
  BY <1>1, <1>3 DEF PropertiesInOrder
<1>4. CASE stage # "link"
  BY <1>3, <1>4, StageSteps
<1>5. CASE \/ PassByUnlinked \/ LinkWithoutMemory \/ LinkPropertyWithoutMemory \/ RefuseProperty
           \/ FinishLink
  BY <1>3, <1>5
  DEF PassByUnlinked, LinkWithoutMemory, LinkPropertyWithoutMemory, RefuseProperty, FinishLink,
      entities
<1>6. CASE LinkReferences
  <2>1. /\ properties' = properties /\ Role(cursor) # "property"
        /\ linked' = linked \/ linked' = linked \cup {cursor}
    BY <1>6 DEF LinkReferences
  <2>2. \A p : {e \in linked' : Role(e) = "property" /\ Parent(e) = p}
               = {e \in linked : Role(e) = "property" /\ Parent(e) = p}
    BY <2>1
  <2> QED
    BY <1>1, <2>1, <2>2 DEF PropertiesInOrder
<1>7. CASE LinkProperty
  <2> DEFINE parent == Parent(cursor)
  <2>1. /\ stage = "link" /\ cursor \in Positions /\ Role(cursor) = "property"
        /\ parent \in Positions
        /\ properties' = [properties EXCEPT ![parent] = Append(@, cursor)]
        /\ linked' = linked \cup {cursor}
    BY <1>7 DEF LinkProperty, LinksNow, At, CanHave, Found, AddProperty
  <2>2. \A e \in linked : e < cursor
    BY <2>1 DEF LinkReports
  <2> SUFFICES ASSUME NEW p \in Positions
               PROVE  /\ {properties'[p][k] : k \in DOMAIN properties'[p]}
                           = {e \in linked' : Role(e) = "property" /\ Parent(e) = p}
                      /\ \A k \in 2..Len(properties'[p]) : properties'[p][k - 1] < properties'[p][k]
    BY <1>1 DEF PropertiesInOrder
  <2>3. /\ {properties[p][k] : k \in DOMAIN properties[p]}
             = {e \in linked : Role(e) = "property" /\ Parent(e) = p}
        /\ \A k \in 2..Len(properties[p]) : properties[p][k - 1] < properties[p][k]
    BY DEF PropertiesInOrder
  <2>4. CASE p # parent
    <3>1. properties'[p] = properties[p]
      BY <1>2, <2>1, <2>4
    <3>2. {e \in linked' : Role(e) = "property" /\ Parent(e) = p}
            = {e \in linked : Role(e) = "property" /\ Parent(e) = p}
      BY <2>1, <2>4
    <3> QED
      BY <2>3, <3>1, <3>2
  <2>5. CASE p = parent
    <3> DEFINE n == Len(properties[p])
               list == properties'[p]
    <3>1. /\ list = Append(properties[p], cursor) /\ properties[p] \in Seq(Positions)
      BY <1>2, <2>1, <2>5
    <3>2. /\ n \in Nat /\ DOMAIN properties[p] = 1..n
          /\ Len(list) = n + 1 /\ DOMAIN list = 1..(n + 1)
          /\ \A k \in 1..n : list[k] = properties[p][k]
          /\ list[n + 1] = cursor
      BY <2>1, <3>1
    <3> HIDE DEF n, list
    <3>3. {list[k] : k \in DOMAIN list} = {properties[p][k] : k \in DOMAIN properties[p]} \cup {cursor}
      BY <3>2
    <3>4. {e \in linked' : Role(e) = "property" /\ Parent(e) = p}
            = {e \in linked : Role(e) = "property" /\ Parent(e) = p} \cup {cursor}
      BY <2>1, <2>5
    <3>5. \A k \in 1..n : properties[p][k] < cursor
      <4>1. \A k \in 1..n : properties[p][k] \in linked
        BY <2>3, <3>2
      <4> QED
        BY <2>2, <4>1
    <3>6. ASSUME NEW k \in 2..(n + 1)
          PROVE  list[k - 1] < list[k]
      <4>1. CASE k = n + 1
        <5>1. k - 1 \in 1..n /\ list[k - 1] = properties[p][k - 1]
          BY <3>2, <4>1
        <5> QED
          BY <3>2, <3>5, <4>1, <5>1
      <4>2. CASE k # n + 1
        <5>1. /\ k - 1 \in 1..n /\ k \in 1..n /\ k \in 2..Len(properties[p])
          BY <3>2, <4>2 DEF n
        <5> QED
          BY <2>3, <3>2, <5>1
      <4> QED
        BY <4>1, <4>2
    <3> QED
      BY <2>3, <3>2, <3>3, <3>4, <3>6 DEF list
  <2> QED
    BY <2>4, <2>5
<1> QED
  BY <1>4, <1>5, <1>6, <1>7, LinkSteps

LEMMA InitVerdicts ==
  ASSUME Init
  PROVE  VerdictInv
PROOF
<1>1. OverlayInv
  BY InitOverlays
<1>2. \A e \in Positions : e \in Nat /\ ~(e < cursor)
  BY <1>1, TableIsWhole DEF Init, OverlayInv, TypeOK
<1>3. \A p \in Pairs : ~Processed(p)
  <2>1. entry = 0 /\ table \in Tables
    BY DEF Init
  <2>2. \A p \in Pairs : p[1] \in Positions /\ p[2] \in Nat
    BY <2>1, PairsAreEntries
  <2> QED
    BY <1>2, <2>1, <2>2 DEF Processed
<1>4. OverlayReports /\ DecodeReports
  BY <1>2, <1>3 DEF Init, OverlayReports, DecodeReports, IsOf
<1>5. StarvingIsKnown /\ LinkReports /\ StrictStages /\ RelaxedSurvives /\ OnlyFaultsReported
  BY DEF Init, StarvingIsKnown, LinkReports, StrictStages, RelaxedSurvives, OnlyFaultsReported
<1>6. LinkVerdict /\ PropertiesInOrder
  BY DEF Init, LinkVerdict, PropertiesInOrder
<1> QED
  BY <1>4, <1>5, <1>6 DEF VerdictInv

LEMMA VerdictStutters ==
  ASSUME OverlayInv, VerdictInv, UNCHANGED vars
  PROVE  VerdictInv'
PROOF
<1> USE DEF vars, flags, entities, errors
<1>1. /\ Positions' = Positions /\ Pairs' = Pairs
      /\ \A e : /\ Role(e)' = Role(e) /\ Decodable(e)' = Decodable(e) /\ Spoiled(e)' = Spoiled(e)
                /\ Unlinked(e)' = Unlinked(e) /\ Linkable(e)' = Linkable(e)
                /\ Refs(e)' = Refs(e) /\ Parent(e)' = Parent(e) /\ Own(e)' = Own(e)
                /\ IsOf(e)' = IsOf(e)
      /\ \A p : Fitting(p)' = Fitting(p)
      /\ UNCHANGED <<OverlayFaults, DecodeFaults, LinkFaults>>
  BY TableStays
<1>2. \A p : Processed(p)' <=> Processed(p)
  BY DEF Processed
<1>3. StarvingIsKnown' /\ RelaxedSurvives' /\ OnlyFaultsReported'
  BY <1>1 DEF VerdictInv, StarvingIsKnown, RelaxedSurvives, OnlyFaultsReported, Starved, Faults
<1>4. OverlayReports'
  BY <1>1, <1>2 DEF VerdictInv, OverlayReports
<1>5. DecodeReports' /\ StrictStages'
  BY <1>1 DEF VerdictInv, DecodeReports, StrictStages
<1>6. LinkReports'
  BY <1>1 DEF VerdictInv, LinkReports
<1>7. LinkVerdict' /\ PropertiesInOrder'
  BY <1>1 DEF VerdictInv, LinkVerdict, PropertiesInOrder
<1> QED
  BY <1>3, <1>4, <1>5, <1>6, <1>7 DEF VerdictInv

LEMMA VerdictNext ==
  ASSUME OverlayInv, OverlayInv', VerdictInv, Next
  PROVE  VerdictInv'
PROOF
<1>1. StarvingIsKnown' /\ RelaxedSurvives'
  BY StarvingNext, RelaxedNext DEF VerdictInv
<1>2. OnlyFaultsReported' /\ OverlayReports' /\ DecodeReports' /\ LinkReports' /\ StrictStages'
  BY FaultsNext, OverlayReportsNext, DecodeReportsNext, LinkReportsNext, StrictNext
  DEF VerdictInv
<1>3. LinkVerdict' /\ PropertiesInOrder'
  BY LinkVerdictNext, PropertiesNext DEF VerdictInv
<1> QED
  BY <1>1, <1>2, <1>3 DEF VerdictInv

-----------------------------------------------------------------------------
(* Theorems: reports and verdicts                                            *)

\* The strengthening of the reports, the links and the verdict.
THEOREM VerdictsInvariant == Spec => []VerdictInv
PROOF
<1>1. Init => VerdictInv
  BY InitVerdicts
<1>2. OverlayInv /\ OverlayInv' /\ VerdictInv /\ [Next]_vars => VerdictInv'
  BY VerdictNext, VerdictStutters
<1> QED
  BY <1>1, <1>2, OverlaysInvariant, PTL DEF Spec

LEMMA StrictIsClean ==
  ASSUME OverlayInv, VerdictInv
  PROVE  StrictMeansClean
PROOF
<1> SUFFICES ASSUME stage = "open", strict
             PROVE  /\ Faults = {}
                    /\ IsOf("firmware") # {}
                    /\ \A e \in Positions : Role(e) # "opaque" => e \in decoded
                    /\ linking => \A e \in Positions : Linkable(e) => e \in linked
  BY DEF StrictMeansClean
<1>1. /\ OverlayFaults = {} /\ IsOf("firmware") # {}
      /\ \A e \in Positions : Role(e) # "opaque" => e \in decoded
      /\ linking => \A e \in Positions : Linkable(e) => e \in linked
  BY DEF VerdictInv, StrictStages
<1>2. DecodeFaults = {}
  BY <1>1 DEF DecodeFaults, Spoiled, OverlayInv, DecodedIsDecodable
<1>3. LinkFaults = {}
  <2>1. CASE linking
    <3>1. \A e \in Positions : Linkable(e) => Unlinked(e) = {}
      BY <1>1, <2>1 DEF VerdictInv, LinkVerdict
    <3> QED
      BY <3>1 DEF LinkFaults
  <2>2. CASE ~linking
    BY <2>2 DEF LinkFaults
  <2> QED
    BY <2>1, <2>2
<1> QED
  BY <1>1, <1>2, <1>3 DEF Faults

(* Whatever the table holds and whenever memory runs out: a context opened   *)
(* in strict mode has a table without a fault, decoded and linked in full;   *)
(* in relaxed mode, nothing that the table holds keeps it from opening.      *)
THEOREM VerdictOfOpening == Spec => []OpeningVerdict
PROOF
<1>1. OverlayInv /\ VerdictInv => OpeningVerdict
  BY StrictIsClean DEF OpeningVerdict, VerdictInv
<1> QED
  BY <1>1, OverlaysInvariant, VerdictsInvariant, PTL

(* What is reported of the table is a fault of it: no structure is accused   *)
(* by a stage that reads it before its entries are attached, or again after  *)
(* another stage has decoded it.                                             *)
THEOREM ReportsAreTrue == Spec => []OnlyFaultsReported
PROOF
<1>1. VerdictInv => OnlyFaultsReported
  BY DEF VerdictInv
<1> QED
  BY <1>1, VerdictsInvariant, PTL

(* The linked structures of an open context are exactly the decoded ones all *)
(* of whose references resolve, but for those that memory failed.            *)
THEOREM LinksAreTrue == Spec => []LinkVerdict
PROOF
<1>1. VerdictInv => LinkVerdict
  BY DEF VerdictInv
<1> QED
  BY <1>1, VerdictsInvariant, PTL

(* A structure has each linked string property that names it once, in the    *)
(* order of the table.                                                       *)
THEOREM PropertiesFollowTable == Spec => []PropertiesInOrder
PROOF
<1>1. VerdictInv => PropertiesInOrder
  BY DEF VerdictInv
<1> QED
  BY <1>1, VerdictsInvariant, PTL

LEMMA EndOfStage ==
  ASSUME OverlayInv, VerdictInv, Past(stage)
  PROVE  \A f \in FaultsOf(stage) : f \in raised \/ <<"memory", f[2], 0>> \in raised
PROOF
<1>1. \A e \in Positions : e \in Nat /\ e < cursor
  BY PastIsAll
<1>2. CASE stage = "overlay" /\ overlaying
  <2>1. \A p \in Pairs : p[1] \in Positions
    BY PairsAreEntries DEF OverlayInv, TypeOK
  <2>2. \A p \in Pairs : Processed(p)
    BY <1>1, <2>1 DEF Processed
  <2> QED
    BY <1>1, <1>2, <2>2 DEF VerdictInv, OverlayReports, FaultsOf, OverlayFaults, IsOf
<1>3. CASE stage = "overlay" /\ ~overlaying
  BY <1>3 DEF FaultsOf, OverlayFaults
<1>4. CASE stage = "decode"
  <2>1. \A e \in Positions : Spoiled(e) => Own(e) \in raised
    BY <1>1, <1>4
    DEF VerdictInv, DecodeReports, Spoiled, OverlayInv, DecodedIsDecodable
  <2> QED
    BY <1>4, <2>1 DEF FaultsOf, DecodeFaults
<1>5. CASE stage = "link"
  <2>1. \A e \in Positions : Decodable(e) => e \in decoded
    BY <1>5 DEF VerdictInv, DecodeReports
  <2>2. ASSUME NEW e \in Positions, Linkable(e), Decodable(e), NEW k \in Unlinked(e)
        PROVE  <<"reference", e, k>> \in raised \/ <<"memory", e, 0>> \in raised
    BY <1>1, <1>5, <2>1, <2>2 DEF VerdictInv, LinkReports
  <2>3. \A f \in LinkFaults : \E e \in Positions : \E k \in Unlinked(e) :
          f = <<"reference", e, k>> /\ Linkable(e) /\ Decodable(e)
    BY DEF LinkFaults
  <2> QED
    BY <1>5, <2>2, <2>3 DEF FaultsOf
<1>6. CASE stage \notin {"overlay", "decode", "link"}
  BY <1>6 DEF FaultsOf
<1> QED
  BY <1>2, <1>3, <1>4, <1>5, <1>6

(* A stage that comes to its end has reported every fault of the table that  *)
(* it is to find, in both modes, whatever it has found before.               *)
THEOREM StagesAreThorough == Spec => StagesReportAll
PROOF
<1>1. OverlayInv /\ VerdictInv /\ [Next]_vars =>
        [Past(stage) /\ stage' # stage =>
           \A f \in FaultsOf(stage) : f \in raised \/ <<"memory", f[2], 0>> \in raised]_vars
  BY EndOfStage
<1> QED
  BY <1>1, OverlaysInvariant, VerdictsInvariant, PTL DEF Spec, StagesReportAll
=============================================================================
