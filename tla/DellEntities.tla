---------------------------- MODULE DellEntities ----------------------------
(***************************************************************************)
(* The structures of Dell, as the specifications of the library declare    *)
(* them: the codes that have names, the enumerators, the bits and the      *)
(* sizes of members, and the fields and attributes of each type.           *)
(***************************************************************************)
EXTENDS Layout

(* Dell: Bios flags                                                        *)
DellBiosFlagsMembers == Sized(2, {"flags"}) @@ Sized(1, {"is_acpi_wmi"})
DellBiosFlagsSpec ==
  [type |-> 177, since |-> V(0, 0), minimum |-> 12, handlers |-> {"derive"},
   members |-> DellBiosFlagsMembers,
   fields |->
     <<Number("flags", 2), Skip(6)>>,
   attributes |->
     Plain({"flags", "is_acpi_wmi"})]

(* Dell: Calling iface                                                     *)
DellCallingIfaceMembers ==
  Sized(8, {"token_count", "tokens"}) @@ Sized(2, {"command_io_address"})
  @@ Sized(1, {"command_io_code"}) @@ Sized(4, {"supported_commands"})
DellCallingIfaceTokenMembers == Sized(2, {"id", "location", "value"})
DellCallingIfaceTokenAttrs ==
  Plain({"id", "location", "value"})
DellCallingIfaceSpec ==
  [type |-> 218, since |-> V(2, 0), minimum |-> 11, handlers |-> {"decode", "encode", "cleanup"},
   members |-> DellCallingIfaceMembers,
   fields |->
     NoFields,
   attributes |->
     Plain({"command_io_address", "command_io_code", "supported_commands"})
     \union {Each("token_count", Struct("tokens", DellCallingIfaceTokenMembers,
           DellCallingIfaceTokenAttrs))}]

(* Dell: Common                                                            *)
DellCheckTypeNames == 0..3
DellEnableStateNames == 0..4
DellPortSecurityNames == 0..6
DellValueFormatNames == 0..3
DellCheckType == 0..3
DellEnableState == 0..4
DellPortSecurity == 0..6
DellValueFormat == 0..3

(* Dell: Device                                                            *)
DellDeviceNameEntryMembers ==
  Sized(8, {"fqdd"}) @@ Sized(2, {"handle"}) @@ Sized(1, {"unknown"})
DellDeviceNamesMembers == Sized(8, {"device_count", "devices"}) @@ Sized(1, {"unknown"})
DellDeviceNamesSpec ==
  [type |-> 225, since |-> V(0, 0), minimum |-> 5, handlers |-> {},
   members |-> DellDeviceNamesMembers,
   fields |->
     <<Number("unknown", 1), ToTheEnd(4, Array("devices", "device_count",
        DellDeviceNameEntryMembers, <<Str("fqdd"), Number("handle", 2),
        Number("unknown", 1)>>))>>,
   attributes |->
     Plain({"unknown"})
     \union {Each("device_count", Struct("devices", DellDeviceNameEntryMembers,
           Plain({"fqdd", "handle", "unknown"})))}]

(* Dell: Device bay                                                        *)
DellDeviceBayMembers ==
  Sized(8, {"name", "supported_devices", "installed_device", "unknown_string_1",
     "unknown_string_2"})
  @@ Sized(1, {"unknown_1", "unknown_2", "has_unknown_strings"})
DellDeviceBaySpec ==
  [type |-> 219, since |-> V(0, 0), minimum |-> 9, handlers |-> {},
   members |-> DellDeviceBayMembers,
   fields |->
     <<Number("unknown_1", 1)>>
     \o Strs(<<"name", "supported_devices", "installed_device">>)
     \o <<Number("unknown_2", 1)>> \o <<Present("has_unknown_strings", Group)>>
     \o Strs(<<"unknown_string_1", "unknown_string_2">>),
   attributes |->
     Plain({"unknown_1", "name", "supported_devices", "installed_device", "unknown_2"})
     \union {Variant("has_unknown_strings", Plain({"unknown_string_1"})),
           Variant("has_unknown_strings", Plain({"unknown_string_2"}))}]

(* Dell: Hotkeys                                                           *)
DellHotkeyEntryMembers == Sized(2, {"scancode", "keycode"})
DellHotkeysMembers == Sized(8, {"hotkey_count", "hotkeys"})
DellHotkeysSpec ==
  [type |-> 178, since |-> V(0, 0), minimum |-> 4, handlers |-> {},
   members |-> DellHotkeysMembers,
   fields |->
     <<ToTheEnd(4, Array("hotkeys", "hotkey_count", DellHotkeyEntryMembers,
        Numbers(2, <<"scancode", "keycode">>)))>>,
   attributes |->
     {Each("hotkey_count", Struct("hotkeys", DellHotkeyEntryMembers,
        Plain({"scancode", "keycode"})))}]

(* Dell: Indexed io                                                        *)
DellIndexedIoMembers ==
  Sized(1, {"check_start", "check_end", "check_index"})
  @@ Sized(2, {"index_port", "data_port"}) @@ Sized(8, {"token_count", "tokens"})
  @@ Sized(4, {"check_type"})
DellIndexedIoTokenMembers ==
  Sized(1, {"location", "and_mask", "is_string", "or_value", "string_length"})
  @@ Sized(2, {"id"})
DellIndexedIoTokenAttrs ==
  Plain({"id", "location", "and_mask"})
  \union {Variant("is_string", Plain({"or_value"})),
        Variant("is_string", Plain({"string_length"}))}
DellIndexedIoSpec ==
  [type |-> 212, since |-> V(2, 0), minimum |-> 12, handlers |-> {"decode", "encode", "cleanup"},
   members |-> DellIndexedIoMembers,
   fields |->
     NoFields,
   attributes |->
     Plain({"index_port", "data_port", "check_start", "check_end", "check_index"})
     \union {Enum("check_type", DellCheckTypeNames, DellCheckType, None, None),
           Each("token_count",
           Struct("tokens", DellIndexedIoTokenMembers, DellIndexedIoTokenAttrs))}]

(* Dell: Infrared port                                                     *)
DellInfraredProtoNames == 0..5
DellInfraredProto == 0..5
DellInfraredPortMembers ==
  Sized(8, {"location", "physical_port", "virtual_com_port", "virtual_lpt_port"})
  @@ Sized(4, {"state", "speed_limit_state", "speed_limit", "protocol"})
DellInfraredPortSpec ==
  [type |-> 211, since |-> V(2, 2), minimum |-> 13, handlers |-> {},
   members |-> DellInfraredPortMembers,
   fields |->
     <<Str("location")>> \o Numbers(1, <<"state", "speed_limit_state">>)
     \o <<Number("speed_limit", 2)>>
     \o Strs(<<"physical_port", "virtual_com_port", "virtual_lpt_port">>)
     \o <<Number("protocol", 1)>>,
   attributes |->
     Plain({"location", "speed_limit", "physical_port", "virtual_com_port",
        "virtual_lpt_port"})
     \union {Enum("state", DellEnableStateNames, DellEnableState, 0, 2),
           Enum("speed_limit_state", DellEnableStateNames, DellEnableState, 0, 2),
           Enum("protocol", DellInfraredProtoNames, DellInfraredProto, 0, 2)}]

(* Dell: Memory ids                                                        *)
DellMemoryIdEntryMembers ==
  Sized(16, {"manufacturer", "serial_number"}) @@ Sized(2, {"handle"})
DellMemoryIdsMembers == Sized(8, {"module_count", "modules"}) @@ Sized(1, {"id_length"})
DellMemoryIdsSpec ==
  [type |-> 223, since |-> V(0, 0), minimum |-> 5, handlers |-> {},
   members |-> DellMemoryIdsMembers,
   fields |->
     <<Number("id_length", 1), ToTheEnd(14, Array("modules", "module_count",
        DellMemoryIdEntryMembers, <<Number("handle", 2), Binary("manufacturer", 8),
        Binary("serial_number", 4)>>))>>,
   attributes |->
     Plain({"id_length"})
     \union {Each("module_count", Struct("modules", DellMemoryIdEntryMembers,
           Plain({"handle", "manufacturer", "serial_number"})))}]

(* Dell: Parallel port                                                     *)
DellParallelPortCapsNames == 0..6 \union {15}
DellParallelPortConnectorPinoutNames == 0..6 \union 160..164
DellParallelPortConnectorTypeNames == 0..7 \union 160..162
DellParallelPortConnectorPinout == 0..6 \union 160..164
DellParallelPortConnectorType == 0..7 \union 160..162
DellParallelPortCaps == Unit(2, 16, 0..15)
DellParallelPortMembers ==
  Sized(4, {"connector", "pinout", "security"})
  @@ Sized(2, {"base_address", "capabilities"}) @@ Sized(1, {"irq_number"})
DellParallelPortSpec ==
  [type |-> 209, since |-> V(2, 2), minimum |-> 12, handlers |-> {},
   members |-> DellParallelPortMembers,
   fields |->
     <<Number("base_address", 2)>>
     \o Numbers(1, <<"irq_number", "connector", "pinout">>)
     \o <<Number("capabilities", 2), Number("security", 1)>>,
   attributes |->
     Plain({"base_address", "irq_number"})
     \union {Enum("connector", DellParallelPortConnectorTypeNames,
           DellParallelPortConnectorType, 0, 2), Enum("pinout",
           DellParallelPortConnectorPinoutNames, DellParallelPortConnectorPinout, 0, 2),
           Flags("capabilities", DellParallelPortCapsNames, DellParallelPortCaps),
           Enum("security", DellPortSecurityNames, DellPortSecurity, 0, 2)}]

(* Dell: Protected area 1                                                  *)
DellProtectedArea1Members ==
  Sized(2, {"token_id", "validation_key", "index_port", "data_port"})
  @@ Sized(1, {"value_length", "value_start", "check_index"})
  @@ Sized(4, {"value_format", "check_type"})
DellProtectedArea1Spec ==
  [type |-> 213, since |-> V(2, 0), minimum |-> 17, handlers |-> {},
   members |-> DellProtectedArea1Members,
   fields |->
     <<Number("token_id", 2)>> \o Numbers(1, <<"value_length", "value_format">>)
     \o Numbers(2, <<"validation_key", "index_port", "data_port">>)
     \o Numbers(1, <<"check_type", "value_start", "check_index">>),
   attributes |->
     Plain({"token_id", "value_length", "validation_key", "index_port", "data_port",
        "value_start", "check_index"})
     \union {Enum("value_format", DellValueFormatNames, DellValueFormat, None, None),
           Enum("check_type", DellCheckTypeNames, DellCheckType, None, None)}]

(* Dell: Protected area 2                                                  *)
DellProtectedArea2Members ==
  Sized(1, {"value_length", "value_start", "check_index", "range_check_start",
     "range_check_end", "range_check_index"})
  @@ Sized(2, {"token_id", "validation_key", "index_port", "data_port"})
  @@ Sized(4, {"value_format", "check_type", "range_check_type"})
DellProtectedArea2Spec ==
  [type |-> 214, since |-> V(2, 0), minimum |-> 21, handlers |-> {},
   members |-> DellProtectedArea2Members,
   fields |->
     <<Number("token_id", 2)>> \o Numbers(1, <<"value_length", "value_format">>)
     \o Numbers(2, <<"validation_key", "index_port", "data_port">>)
     \o Numbers(1, <<"check_type", "value_start", "check_index", "range_check_type",
           "range_check_start", "range_check_end", "range_check_index">>),
   attributes |->
     Plain({"token_id", "value_length", "validation_key", "index_port", "data_port",
        "value_start", "check_index", "range_check_start", "range_check_end",
        "range_check_index"})
     \union {Enum("value_format", DellValueFormatNames, DellValueFormat, None, None),
           Enum("check_type", DellCheckTypeNames, DellCheckType, None, None),
           Enum("range_check_type", DellCheckTypeNames, DellCheckType, None, None)}]

(* Dell: Revisions                                                         *)
DellRevisionsMembers ==
  Sized(8, {"manufacture_date", "first_poweron_date"})
  @@ Sized(4, {"implementation_version"}) @@ Sized(2, {"system_id"})
  @@ Sized(1, {"hardware_revision"})
DellRevisionsSpec ==
  [type |-> 208, since |-> V(2, 2), minimum |-> 8, handlers |-> {},
   members |-> DellRevisionsMembers,
   fields |->
     <<Number("implementation_version", 2)>>
     \o Numbers(1, <<"system_id", "hardware_revision">>)
     \o <<Group, Extended("system_id", 2, "system_id", 254)>> \o <<Group>>
     \o Strs(<<"manufacture_date", "first_poweron_date">>),
   attributes |->
     Plain({"implementation_version", "system_id", "hardware_revision",
        "manufacture_date", "first_poweron_date"})]

(* Dell: Serial port                                                       *)
DellSerialPortCapsNames == 0..6 \union {160, 161}
DellSerialPortConnectorTypeNames == 0..11 \union {160, 161}
DellSerialPortCaps == 0..6 \union {160, 161}
DellSerialPortConnectorType == 0..11 \union {160, 161}
DellSerialPortMembers ==
  Sized(4, {"connector", "capabilities", "maximum_speed", "security"})
  @@ Sized(2, {"base_address"}) @@ Sized(1, {"irq_number"})
DellSerialPortSpec ==
  [type |-> 210, since |-> V(2, 2), minimum |-> 12, handlers |-> {},
   members |-> DellSerialPortMembers,
   fields |->
     <<Number("base_address", 2)>>
     \o Numbers(1, <<"irq_number", "connector", "capabilities">>)
     \o <<Number("maximum_speed", 2), Number("security", 1)>>,
   attributes |->
     Plain({"base_address", "irq_number", "maximum_speed"})
     \union {Enum("connector", DellSerialPortConnectorTypeNames,
           DellSerialPortConnectorType, 0, 2), Enum("capabilities",
           DellSerialPortCapsNames, DellSerialPortCaps, None, None),
           Enum("security", DellPortSecurityNames, DellPortSecurity, 0, 2)}]

(* Dell: System id                                                         *)
DellSystemIdMembers == Sized(8, {"identifier", "system_id"})
DellSystemIdSpec ==
  [type |-> 255, since |-> V(0, 0), minimum |-> 6, handlers |-> {},
   members |-> DellSystemIdMembers,
   fields |->
     Strs(<<"identifier", "system_id">>),
   attributes |->
     Plain({"identifier", "system_id"})]

(* Dell: Token refs                                                        *)
DellTokenRefs1Members == Sized(8, {"token_count", "tokens"})
DellTokenRefs2Members ==
  Sized(1, {"unknown_1"}) @@ Sized(2, {"unknown_2"}) @@ Sized(12, {"tokens"})
DellTokenRefs1Spec ==
  [type |-> 220, since |-> V(0, 0), minimum |-> 20, handlers |-> {},
   members |-> DellTokenRefs1Members,
   fields |->
     <<ToTheEnd(2, Array("tokens", "token_count", NoMembers, <<Number("", 2)>>))>>,
   attributes |->
     {Each("token_count", Attr("tokens"))}]
DellTokenRefs2Spec ==
  [type |-> 221, since |-> V(0, 0), minimum |-> 19, handlers |-> {},
   members |-> DellTokenRefs2Members,
   fields |->
     <<Number("unknown_1", 1), Number("unknown_2", 2),
        Vector("tokens", 6, <<Number("", 2)>>)>>,
   attributes |->
     Plain({"unknown_1", "unknown_2", "tokens"})]

(* Dell: Video rom                                                         *)
DellVideoRomMembers ==
  Sized(8, {"vendor", "version"}) @@ Sized(1, {"unknown_1"}) @@ Sized(2, {"unknown_2"})
DellVideoRomSpec ==
  [type |-> 216, since |-> V(0, 0), minimum |-> 9, handlers |-> {},
   members |-> DellVideoRomMembers,
   fields |->
     Strs(<<"vendor", "version">>) \o <<Number("unknown_1", 1), Number("unknown_2", 2)>>,
   attributes |->
     Plain({"vendor", "version", "unknown_1", "unknown_2"})]
=============================================================================
