---------------------------- MODULE EntityLayout ----------------------------
(***************************************************************************)
(* How the bytes of a table are split into structures, and a structure     *)
(* into its body and its strings (libopendmi/src/entity.c), and which      *)
(* specification a structure is given by its content.                      *)
(*                                                                         *)
(* Data is a sequence of bytes; offsets count from zero, as in the code.   *)
(* The header is a type, a length, and what the handle takes.  Of a byte   *)
(* of a string only the number is kept.                                    *)
(***************************************************************************)
EXTENDS Integers, FiniteSets, FiniteSetsExt, SequencesExt

CONSTANTS
  HeaderLength,   \* sizeof(dmi_header_t), two bytes or more
  EndOfTable,     \* DMI_TYPE_ID_END_OF_TABLE
  Whitespace      \* the bytes that are trimmed

ByteAt(data, offset) == data[offset + 1]
Slice(data, offset, length) == SubSeq(data, offset + 1, offset + length)

-----------------------------------------------------------------------------
(* dmi_entity_decode_length: the string set ends with the first two zeros  *)
(* in a row, and one that starts with a zero has no strings, even if other *)
(* bytes come before those two.                                            *)

Terminators(data, start) ==
  {p \in start .. Len(data) - 2 : ByteAt(data, p) = 0 /\ ByteAt(data, p + 1) = 0}

StringSet(data, start) ==
  LET found == Terminators(data, start)
  IN  IF found = {} THEN [whole |-> FALSE, length |-> 0, count |-> 0]
      ELSE LET end == Min(found)
               Ends == {p \in start .. end : ByteAt(data, p) = 0}
           IN  [whole |-> TRUE, length |-> end + 2 - start,
                count |-> IF ByteAt(data, start) = 0 THEN 0 ELSE Cardinality(Ends)]

(* dmi_entity_decode_strings: each string starts past the zero that ends   *)
(* the one before it.                                                      *)
ZeroFrom(data, offset) == Min({p \in offset .. Len(data) - 1 : ByteAt(data, p) = 0})

StringStarts(data, start, count) ==
  LET starts[i \in 0 .. count] ==
        IF i = 0 THEN start ELSE ZeroFrom(data, starts[i - 1]) + 1
  IN  [i \in 1 .. count |-> starts[i - 1]]

StringsOf(data, start, count) ==
  LET starts == StringStarts(data, start, count)
  IN  [i \in 1 .. count |-> Slice(data, starts[i], ZeroFrom(data, starts[i]) - starts[i])]

(* dmi_entity_string_trim                                                  *)
Trimmed(text) ==
  LET kept == {i \in DOMAIN text : text[i] \notin Whitespace}
  IN  IF kept = {} THEN << >> ELSE SubSeq(text, Min(kept), Max(kept))

-----------------------------------------------------------------------------
(* dmi_entity_create: a structure is read to the end of the data; a length *)
(* of zero stands for the end of the table whatever the type.              *)

Refused(reason) == [made |-> FALSE, reason |-> reason]

Created(data, offset) ==
  LET available == IF offset < Len(data) THEN Len(data) - offset ELSE 0
      declared  == ByteAt(data, offset + 1)
      body      == IF declared = 0 THEN HeaderLength ELSE declared
      set       == StringSet(data, offset + body)
  IN  IF available < HeaderLength + 2 THEN Refused("Truncated")
      ELSE IF declared \in 1 .. HeaderLength - 1 THEN Refused("LengthInvalid")
      ELSE IF declared > available \/ ~set.whole THEN Refused("Truncated")
      ELSE [made |-> TRUE, offset |-> offset, body_length |-> body,
            type_id |-> IF declared = 0 THEN EndOfTable ELSE ByteAt(data, offset),
            total_length |-> body + set.length, string_count |-> set.count]

(* The structures of the table in the order dmi_registry_scan creates them *)
(* up to the end of the table, and what has stopped it: the end of the     *)
(* table, or the structure that could not be created.                      *)
Walk(data) ==
  LET step[k \in 0 .. Len(data)] ==
        IF k = 0 THEN [at |-> 0, found |-> << >>, stop |-> "none"]
        ELSE LET before == step[k - 1]
                 entity == Created(data, before.at)
             IN  IF before.stop # "none" THEN before
                 ELSE IF ~entity.made THEN [before EXCEPT !.stop = entity.reason]
                 ELSE [at    |-> before.at + entity.total_length,
                       found |-> Append(before.found, entity),
                       stop  |-> IF entity.type_id = EndOfTable THEN "EndOfTable" ELSE "none"]
  IN  step[Len(data)]

-----------------------------------------------------------------------------
(* dmi_entity_signature_match, dmi_entity_spec_select: the candidates of a *)
(* type are the specification without a signature, if there is one, then   *)
(* those with one, of which the first that matches is taken.               *)

NoSignature == [length |-> 0, bytes |-> << >>, offset |-> 0, string |-> 0, text |-> << >>,
                no_strings |-> FALSE]

Matches(data, entity, signature) ==
  /\ signature.length # 0 => entity.body_length = signature.length
  /\ signature.bytes # << >> =>
       /\ signature.offset + Len(signature.bytes) <= entity.body_length
       /\ Slice(data, entity.offset + signature.offset, Len(signature.bytes)) = signature.bytes
  /\ signature.string # 0 =>
       /\ signature.string <= entity.string_count
       /\ StringsOf(data, entity.offset + entity.body_length,
                    entity.string_count)[signature.string] = signature.text
  /\ signature.no_strings => entity.string_count = 0

Selected(data, entity, candidates, otherwise) ==
  LET matching == {i \in DOMAIN candidates : Matches(data, entity, candidates[i])}
  IN  IF matching = {} THEN otherwise ELSE Min(matching)
=============================================================================
