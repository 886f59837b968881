--------------------------- MODULE CommonEntities ---------------------------
(***************************************************************************)
(* What the specifications of structures share, as the specifications of   *)
(* the library declare them: the codes that have names, the enumerators,   *)
(* the bits and the sizes of members, and the fields and attributes of     *)
(* each type.                                                              *)
(***************************************************************************)
EXTENDS Layout

(* Common                                                                  *)
ErrorCorrectTypeNames == 0..7
StatusNames == 0..6
ErrorCorrectType == 0..7
Status == 0..6
PciAddrMembers ==
  Sized(1, {"bus_number", "device_number", "function_number"})
  @@ Sized(2, {"segment_group"})
PciAddrAttrs ==
  {Value("segment_group", AllOnes, None), Value("bus_number", AllOnes, None),
     Value("device_number", AllOnes, None), Value("function_number", AllOnes, None)}

(* Entity                                                                  *)
PropertyNames == 0..65535
Property == {0, 1}

(* Memory error                                                            *)
MemoryErrorGranularityNames == 0..4
MemoryErrorOperationNames == 0..5
MemoryErrorTypeNames == 0..14
MemoryErrorGranularity == 0..4
MemoryErrorOperation == 0..5
MemoryErrorType == 0..14

(* Probe                                                                   *)
ProbeLocationNames == 0..15
ProbeMembers ==
  Sized(2, {"maximum_value", "minimum_value", "resolution", "tolerance", "accuracy",
     "nominal_value"})
  @@ Sized(4, {"location", "status", "oem_defined"}) @@ Sized(8, {"description"})
ProbeFields ==
  <<Str("description"), Bits("location", 5), Bits("status", 3), Pad(1)>>
  \o Numbers(2, <<"maximum_value", "minimum_value", "resolution", "tolerance",
        "accuracy">>)
  \o <<Number("oem_defined", 4), Preset("nominal_value")>>
  \o <<Group, Number("nominal_value", 2)>>
=============================================================================
