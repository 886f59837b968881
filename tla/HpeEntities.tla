---------------------------- MODULE HpeEntities -----------------------------
(***************************************************************************)
(* The structures of HP and HPE, as the specifications of the library      *)
(* declare them: the codes that have names, the enumerators, the bits and  *)
(* the sizes of members, and the fields and attributes of each type.       *)
(***************************************************************************)
EXTENDS Layout

(* HPE: Backplane                                                          *)
HpeBackplaneMembers ==
  Sized(1, {"i2c_address", "bay_count", "a0_bay_count", "a2_bay_count",
     "has_legacy_details"})
  @@ Sized(2, {"box_number", "nvram_id"}) @@ Sized(8, {"wwid", "name"})
HpeBackplaneSpec ==
  [type |-> 236, since |-> V(0, 0), minimum |-> 9, handlers |-> {"derive"},
   members |-> HpeBackplaneMembers,
   fields |->
     <<Number("i2c_address", 1)>> \o Numbers(2, <<"box_number", "nvram_id">>)
     \o <<Group, Number("wwid", 8)>> \o <<Group, Number("bay_count", 1)>> \o <<Group>>
     \o Numbers(1, <<"a0_bay_count", "a2_bay_count">>) \o <<Str("name")>>,
   attributes |->
     Plain({"i2c_address", "box_number", "nvram_id", "bay_count"})
     \union {Value("wwid", 0, None),
           Variant("has_legacy_details", Plain({"a0_bay_count"})),
           Variant("has_legacy_details", Plain({"a2_bay_count"})),
           Variant("has_legacy_details", Plain({"name"}))}]

(* HPE: Common                                                             *)
HpeEncryptionNames == 0..3
HpeFlagNames == {0, 1}
HpeEncryption == 0..3
HpeFlag == {0, 1, 255}

(* HPE: Cru                                                                *)
HpeCruMembers ==
  Sized(8, {"signature", "address", "entry_point"}) @@ Sized(4, {"length", "offset"})
  @@ Sized(16, {"signature_raw"}) @@ Sized(1, {"is_cru"})
HpeCruSpec ==
  [type |-> 212, since |-> V(0, 0), minimum |-> 24, handlers |-> {"derive"},
   members |-> HpeCruMembers,
   fields |->
     <<Binary("signature_raw", 4), Number("address", 8)>>
     \o Numbers(4, <<"length", "offset">>),
   attributes |->
     Plain({"signature"})
     \union {Variant("is_cru", Plain({"address"})),
           Variant("is_cru", Plain({"length"})), Variant("is_cru", Plain({"offset"})),
           Variant("is_cru", Plain({"entry_point"}))}]

(* HPE: Device correlation                                                 *)
HpeDeviceLocationNames == 0..21
HpeDeviceTypeNames == 3..18 \union {0}
HpeDeviceLocation == 0..21
HpeDeviceType == 3..18 \union {0}
HpeDeviceCorrelationMembers ==
  Sized(1, {"pci_class", "pci_subclass", "is_peer_bifurcated", "is_upstream",
     "instance", "sub_instance", "bay", "enclosure", "bus", "devfn",
     "has_pci_location"})
  @@ Sized(2, {"device_handle", "smbus_handle", "pci_vendor_id", "pci_device_id",
     "pci_subvendor_id", "pci_subdevice_id", "parent_handle", "physical_handle",
     "segment"})
  @@ Sized(8, {"uefi_device_path", "uefi_device_name", "device_name", "uefi_location",
     "part_number", "serial_number"})
  @@ Sized(4, {"device_type", "device_location"})
HpeDeviceCorrelationFields ==
  Numbers(2, <<"device_handle", "smbus_handle", "pci_vendor_id", "pci_device_id",
     "pci_subvendor_id", "pci_subdevice_id">>)
  \o Numbers(1, <<"pci_class", "pci_subclass">>)
  \o <<Number("parent_handle", 2), Bits("is_peer_bifurcated", 1),
        Bits("is_upstream", 1), Pad(2)>>
  \o Numbers(1, <<"device_type", "device_location", "instance", "sub_instance",
        "bay", "enclosure">>)
  \o Strs(<<"uefi_device_path", "uefi_device_name", "device_name">>)
  \o <<Group, Str("uefi_location"), Number("physical_handle", 2)>> \o <<Group>>
  \o Strs(<<"part_number", "serial_number">>)
  \o <<Present("has_pci_location", Group), Number("segment", 2)>>
  \o Numbers(1, <<"bus", "devfn">>)
HpeDeviceCorrelationAttributes ==
  Plain({"is_peer_bifurcated", "is_upstream", "instance", "sub_instance",
     "uefi_device_path", "uefi_device_name", "device_name", "uefi_location",
     "part_number", "serial_number"})
  \union {Value("device_handle", 65534, None), Value("smbus_handle", 65534, None),
        Value("pci_vendor_id", AllOnes, None), Value("pci_device_id", AllOnes, None),
        Value("pci_subvendor_id", AllOnes, None),
        Value("pci_subdevice_id", AllOnes, None), Value("pci_class", AllOnes, None),
        Value("pci_subclass", AllOnes, None), Value("parent_handle", 65534, None),
        Enum("device_type", HpeDeviceTypeNames, HpeDeviceType, None, None),
        Enum("device_location", HpeDeviceLocationNames, HpeDeviceLocation, None,
        None), Value("bay", AllOnes, 0), Value("enclosure", AllOnes, 0),
        Variant("is_peer_bifurcated", Plain({"physical_handle"})),
        Variant("has_pci_location", Plain({"segment"})),
        Variant("has_pci_location", Plain({"bus"})),
        Variant("has_pci_location", Plain({"devfn"}))}
HpeDeviceCorrelationSpec ==
  [type |-> 203, since |-> V(0, 0), minimum |-> 31, handlers |-> {},
   members |-> HpeDeviceCorrelationMembers,
   fields |-> HpeDeviceCorrelationFields, attributes |-> HpeDeviceCorrelationAttributes]

(* HPE: Dimm attrs                                                         *)
HpeDimmAttrsMembers ==
  Sized(4, {"attributes", "smart_memory", "load_reduced", "standard_memory",
     "encryption"})
  @@ Sized(2, {"device_handle", "minimum_voltage", "configured_voltage"})
  @@ Sized(1, {"is_config_error", "is_training_error"})
HpeDimmAttrsSpec ==
  [type |-> 232, since |-> V(0, 0), minimum |-> 14, handlers |-> {"derive"},
   members |-> HpeDimmAttrsMembers,
   fields |->
     <<Number("device_handle", 2), Number("attributes", 4)>>
     \o Numbers(2, <<"minimum_voltage", "configured_voltage">>)
     \o <<Group, Skip(20), Bits("is_config_error", 1), Bits("is_training_error", 1),
           Pad(1)>>
     \o <<Group, Number("encryption", 1)>>,
   attributes |->
     Plain({"device_handle", "attributes", "is_config_error", "is_training_error"})
     \union {Enum("smart_memory", HpeFlagNames, HpeFlag, 255, None),
           Enum("load_reduced", HpeFlagNames, HpeFlag, 255, None),
           Enum("standard_memory", HpeFlagNames, HpeFlag, 255, None),
           Value("minimum_voltage", 0, None), Value("configured_voltage", 0, None),
           Enum("encryption", HpeEncryptionNames, HpeEncryption, 255, None)}]

(* HPE: Dimm config                                                        *)
HpeInterleaveHealthNames == 0..255
HpeInterleaveHealth == 0..5 \union {256}
HpeDimmConfigMembers ==
  Sized(1, {"region_id", "is_volatile", "is_byte_accessible", "is_block_io",
     "passphrase_state", "is_passphrase_enabled", "interleave_dimm_count"})
  @@ Sized(2, {"device_handle", "interleave_set"}) @@ Sized(8, {"raw_size", "size"})
  @@ Sized(4, {"interleave_health"})
HpeDimmConfigSpec ==
  [type |-> 244, since |-> V(0, 0), minimum |-> 20, handlers |-> {"derive"},
   members |-> HpeDimmConfigMembers,
   fields |->
     <<Number("device_handle", 2), Number("region_id", 1), Bits("is_volatile", 1),
        Bits("is_byte_accessible", 1), Bits("is_block_io", 1), Pad(2),
        Number("raw_size", 8), Number("passphrase_state", 1),
        Number("interleave_set", 2)>>
     \o <<Group, Number("interleave_dimm_count", 1)>>
     \o <<Group, Number("interleave_health", 1)>>,
   attributes |->
     Plain({"device_handle", "region_id", "is_volatile", "is_byte_accessible",
        "is_block_io", "size", "is_passphrase_enabled", "interleave_dimm_count"})
     \union {Value("interleave_set", 0, None), Enum("interleave_health",
           HpeInterleaveHealthNames, HpeInterleaveHealth, 256, None)}]

(* HPE: Dimm location                                                      *)
HpeDimmLocationMembers ==
  Sized(1, {"board", "dimm", "processor", "logical_dimm", "controller", "channel",
     "ie_dimm", "ie_pldm_id", "interleave", "channel_index", "is_system_board",
     "has_ie", "has_channel_index"})
  @@ Sized(2, {"device_handle", "vendor_id", "device_id", "controller_vendor_id",
     "controller_device_id"})
  @@ Sized(8, {"uefi_device_path", "uefi_device_name", "device_name", "part_number"})
HpeDimmLocationFields ==
  <<Number("device_handle", 2)>> \o Numbers(1, <<"board", "dimm">>)
  \o <<Group, Number("processor", 1)>> \o <<Group, Number("logical_dimm", 1)>>
  \o <<Group>> \o Strs(<<"uefi_device_path", "uefi_device_name", "device_name">>)
  \o <<Group>> \o Numbers(1, <<"controller", "channel", "ie_dimm", "ie_pldm_id">>)
  \o Numbers(2, <<"vendor_id", "device_id", "controller_vendor_id",
        "controller_device_id">>)
  \o <<Group, Number("interleave", 1)>> \o <<Group, Str("part_number")>>
  \o <<Present("has_channel_index", Group), Number("channel_index", 1)>>
HpeDimmLocationAttributes ==
  Plain({"device_handle", "is_system_board", "dimm", "uefi_device_path",
     "uefi_device_name", "device_name", "part_number"})
  \union {Variant("is_system_board", Plain({"board"})),
        Value("processor", AllOnes, None), Value("logical_dimm", 0, None),
        Value("controller", 0, None), Value("channel", 0, None),
        Variant("has_ie", {Value("ie_dimm", AllOnes, None)}),
        Variant("has_ie", {Value("ie_pldm_id", AllOnes, None)}),
        Value("vendor_id", 0, None), Value("device_id", 0, None),
        Value("controller_vendor_id", 0, None),
        Value("controller_device_id", 0, None), Value("interleave", 0, None),
        Variant("has_channel_index", Plain({"channel_index"}))}
HpeDimmLocationSpec ==
  [type |-> 202, since |-> V(0, 0), minimum |-> 8, handlers |-> {"derive"},
   members |-> HpeDimmLocationMembers,
   fields |-> HpeDimmLocationFields, attributes |-> HpeDimmLocationAttributes]

(* HPE: Dimm vendor                                                        *)
HpeDimmVendorMembers ==
  Sized(8, {"manufacturer", "part_number", "serial_number"})
  @@ Sized(1, {"manufacture_year", "manufacture_week"}) @@ Sized(2, {"device_handle"})
HpeDimmVendorSpec ==
  [type |-> 237, since |-> V(0, 0), minimum |-> 8, handlers |-> {},
   members |-> HpeDimmVendorMembers,
   fields |->
     <<Number("device_handle", 2)>> \o Strs(<<"manufacturer", "part_number">>)
     \o <<Group, Str("serial_number")>>
     \o <<Group, Bcd("manufacture_year", 1), Bcd("manufacture_week", 1)>>,
   attributes |->
     Plain({"device_handle", "manufacturer", "part_number", "serial_number"})
     \union {Value("manufacture_year", 0, None), Value("manufacture_week", 0, None)}]

(* HPE: Drive                                                              *)
HpeDriveFormFactorNames == 2..9 \union 32..36
HpeDriveHealthNames == 0..2 \union {255}
HpeDriveTypeNames == 0..5
HpeDriveFormFactor == 2..9 \union 32..36
HpeDriveHealth == 0..2 \union {255}
HpeDriveType == 0..5
HpeDriveMembers ==
  Sized(8, {"unique_id", "power_on_hours", "serial_number", "model_number",
     "firmware_revision", "location", "capacity"})
  @@ Sized(4, {"drive_type", "legacy_capacity", "form_factor", "health", "encryption",
     "block_size"})
  @@ Sized(2, {"correlation_handle", "rotation_speed", "negotiated_speed",
     "capable_speed"})
  @@ Sized(1, {"power"})
HpeDriveSpec ==
  [type |-> 242, since |-> V(0, 0), minimum |-> 42, handlers |-> {},
   members |-> HpeDriveMembers,
   fields |->
     <<Number("correlation_handle", 2), Number("drive_type", 1), Number("unique_id", 8),
        Number("legacy_capacity", 4), Number("power_on_hours", 8), Skip(8), Skip(1)>>
     \o Numbers(1, <<"power", "form_factor", "health">>)
     \o Strs(<<"serial_number", "model_number", "firmware_revision">>)
     \o <<Group, Str("location"), Number("encryption", 1)>>
     \o <<Group, Number("capacity", 8), Number("block_size", 4)>>
     \o Numbers(2, <<"rotation_speed", "negotiated_speed", "capable_speed">>),
   attributes |->
     Plain({"correlation_handle", "unique_id", "legacy_capacity", "power_on_hours",
        "serial_number", "model_number", "firmware_revision", "location"})
     \union {Enum("drive_type", HpeDriveTypeNames, HpeDriveType, None, None),
           Value("capacity", 0, None), Value("power", 0, None), Enum("form_factor",
           HpeDriveFormFactorNames, HpeDriveFormFactor, None, None),
           Enum("health", HpeDriveHealthNames, HpeDriveHealth, None, 255),
           Enum("encryption", HpeEncryptionNames, HpeEncryption, 255, None),
           Value("block_size", 0, None), Value("rotation_speed", 1, 0),
           Value("negotiated_speed", None, 0), Value("capable_speed", None, 0)}]

(* HPE: Extension board                                                    *)
HpeBoardTypeNames == {0, 1}
HpeRiserPositionNames == 1..4 \union {10}
HpeBoardType == {0, 1}
HpeRiserPosition == 1..4 \union {10}
HpeMhsRiserMembers ==
  Sized(1, {"riser_id", "firmware_major", "firmware_minor", "is_downgradable",
     "slot_total"})
  @@ Sized(8, {"name", "slot_count", "slot_ids"}) @@ Sized(4, {"board_type"})
HpeRiserMembers ==
  Sized(1, {"riser_id", "cpld_version", "is_cpld_b_release"})
  @@ Sized(4, {"board_type", "position"}) @@ Sized(8, {"name"})
HpeMhsRiserSpec ==
  [type |-> 245, since |-> V(0, 0), minimum |-> 11, handlers |-> {},
   members |-> HpeMhsRiserMembers,
   fields |->
     Numbers(1, <<"board_type", "riser_id", "firmware_major", "firmware_minor">>)
     \o <<Bits("is_downgradable", 1), Pad(1), Str("name"), Counted(1, "slot_total",
           Array("slot_ids", "slot_count", NoMembers, <<Number("", 1)>>))>>,
   attributes |->
     Plain({"riser_id", "firmware_minor", "is_downgradable", "name", "slot_total"})
     \union {Enum("board_type", HpeBoardTypeNames, HpeBoardType, None, None),
           Value("firmware_major", 0, None), Each("slot_count", Attr("slot_ids"))}]
HpeRiserSpec ==
  [type |-> 245, since |-> V(0, 0), minimum |-> 9, handlers |-> {},
   members |-> HpeRiserMembers,
   fields |->
     Numbers(1, <<"board_type", "position", "riser_id">>)
     \o <<Bits("cpld_version", 7), Bits("is_cpld_b_release", 1), Pad(1), Str("name")>>,
   attributes |->
     Plain({"riser_id", "is_cpld_b_release", "name"})
     \union {Enum("board_type", HpeBoardTypeNames, HpeBoardType, None, None),
           Enum("position", HpeRiserPositionNames, HpeRiserPosition, None, None),
           Value("cpld_version", 0, None)}]

(* HPE: Inventory                                                          *)
HpeInventoryMembers ==
  Sized(4, {"package_version", "is_updatable", "is_reset_required", "is_auth_required",
     "is_in_use", "is_uefi_image", "lowest_version"})
  @@ Sized(8, {"version_string", "image_size", "attrs_defined", "attrs_set"})
  @@ Sized(2, {"correlation_handle"})
HpeInventorySpec ==
  [type |-> 240, since |-> V(0, 0), minimum |-> 39, handlers |-> {"derive"},
   members |-> HpeInventoryMembers,
   fields |->
     <<Number("correlation_handle", 2), Number("package_version", 4),
        Str("version_string")>>
     \o Numbers(8, <<"image_size", "attrs_defined", "attrs_set">>)
     \o <<Number("lowest_version", 4)>>,
   attributes |->
     Plain({"correlation_handle", "package_version", "version_string", "attrs_defined",
        "attrs_set"})
     \union {Value("image_size", 0, None),
           Enum("is_updatable", HpeFlagNames, HpeFlag, 255, None),
           Enum("is_reset_required", HpeFlagNames, HpeFlag, 255, None),
           Enum("is_auth_required", HpeFlagNames, HpeFlag, 255, None),
           Enum("is_in_use", HpeFlagNames, HpeFlag, 255, None),
           Enum("is_uefi_image", HpeFlagNames, HpeFlag, 255, None),
           Value("lowest_version", 0, None)}]

(* HPE: Microcode                                                          *)
HpeMicrocodeMembers == Sized(8, {"patch_count", "patches"})
HpeMicrocodePatchMembers ==
  Sized(4, {"patch_id", "raw_date", "date", "cpuid", "signature"})
HpeMicrocodeSpec ==
  [type |-> 199, since |-> V(0, 0), minimum |-> 4, handlers |-> {"derive"},
   members |-> HpeMicrocodeMembers,
   fields |->
     <<ToTheEnd(12, Array("patches", "patch_count", HpeMicrocodePatchMembers,
        Numbers(4, <<"patch_id", "raw_date", "cpuid">>)))>>,
   attributes |->
     {Each("patch_count", Struct("patches", HpeMicrocodePatchMembers,
        Plain({"cpuid", "signature", "date", "patch_id"})))}]

(* HPE: NIC                                                                *)
HpeNicStateNames == 0..2
HpeNicState == 0..2
HpeNicInfoMembers == Sized(8, {"port_count", "ports"})
HpeNicPortMembers ==
  Sized(1, {"devfn", "bus"}) @@ Sized(16, {"mac_address"}) @@ Sized(4, {"state"})
HpeIscsiNicSpec ==
  [type |-> 221, since |-> V(0, 0), minimum |-> 4, handlers |-> {"derive"},
   members |-> HpeNicInfoMembers,
   fields |->
     <<ToTheEnd(8, Array("ports", "port_count", HpeNicPortMembers,
        Numbers(1, <<"devfn", "bus">>) \o <<Binary("mac_address", 6)>>))>>,
   attributes |->
     {Each("port_count", Struct("ports", HpeNicPortMembers,
        Plain({"bus", "devfn", "mac_address"}) \union
        {Enum("state", HpeNicStateNames, HpeNicState, None, None)}))}]
HpePxeNicSpec ==
  [type |-> 209, since |-> V(0, 0), minimum |-> 4, handlers |-> {"derive"},
   members |-> HpeNicInfoMembers,
   fields |->
     <<ToTheEnd(8, Array("ports", "port_count", HpeNicPortMembers,
        Numbers(1, <<"devfn", "bus">>) \o <<Binary("mac_address", 6)>>))>>,
   attributes |->
     {Each("port_count", Struct("ports", HpeNicPortMembers,
        Plain({"bus", "devfn", "mac_address"}) \union
        {Enum("state", HpeNicStateNames, HpeNicState, None, None)}))}]

(* HPE: NIC mac                                                            *)
HpeNicMacMembers ==
  Sized(1, {"bus", "devfn", "port"}) @@ Sized(2, {"segment"})
  @@ Sized(16, {"mac_address"}) @@ Sized(4, {"state"}) @@ Sized(8, {"uefi_device_path"})
HpeNicMacSpec ==
  [type |-> 233, since |-> V(0, 0), minimum |-> 14, handlers |-> {"derive"},
   members |-> HpeNicMacMembers,
   fields |->
     <<Number("segment", 2)>> \o Numbers(1, <<"bus", "devfn">>)
     \o <<Binary("mac_address", 6)>> \o <<Group, Skip(26), Number("port", 1)>>
     \o <<Group, Str("uefi_device_path")>>,
   attributes |->
     Plain({"segment", "bus", "devfn", "mac_address", "uefi_device_path"})
     \union {Value("port", AllOnes, None),
           Enum("state", HpeNicStateNames, HpeNicState, None, None)}]

(* HPE: Physical attrs                                                     *)
HpePhysicalAttrsMembers ==
  Sized(16, {"uuid", "identifier_raw"}) @@ Sized(8, {"identifier", "serial_number"})
HpePhysicalAttrsLegacySpec ==
  [type |-> 226, since |-> V(0, 0), minimum |-> 21, handlers |-> {"derive"},
   members |-> HpePhysicalAttrsMembers,
   fields |->
     <<Binary("identifier_raw", 16), Str("serial_number")>>,
   attributes |->
     Plain({"identifier", "serial_number"})]
HpePhysicalAttrsSpec ==
  [type |-> 226, since |-> V(0, 0), minimum |-> 21, handlers |-> {},
   members |-> HpePhysicalAttrsMembers,
   fields |->
     <<Uuid("uuid"), Str("serial_number")>>,
   attributes |->
     Plain({"uuid", "serial_number"})]

(* HPE: Power supply                                                       *)
HpeFruAccessNames == 0..3
HpeFruAccess == 0..3
HpePowerSupplyMembers ==
  Sized(8, {"manufacturer", "revision"}) @@ Sized(1, {"i2c_bus", "i2c_address"})
  @@ Sized(2, {"power_supply_handle"}) @@ Sized(4, {"fru_access"})
HpePowerSupplySpec ==
  [type |-> 230, since |-> V(0, 0), minimum |-> 11, handlers |-> {},
   members |-> HpePowerSupplyMembers,
   fields |->
     <<Number("power_supply_handle", 2)>> \o Strs(<<"manufacturer", "revision">>)
     \o Numbers(1, <<"fru_access", "i2c_bus", "i2c_address">>),
   attributes |->
     Plain({"power_supply_handle", "manufacturer", "revision"})
     \union {Enum("fru_access", HpeFruAccessNames, HpeFruAccess, None, None),
           Value("i2c_bus", AllOnes, None), Value("i2c_address", AllOnes, None)}]

(* HPE: Processor                                                          *)
HpeProcessorMembers ==
  Sized(1, {"apic_id", "is_bsp", "is_x2apic", "is_thermal_margining", "slot", "socket"})
  @@ Sized(2, {"processor_handle", "maximum_power", "interconnect_speed"})
  @@ Sized(8, {"uuid", "qdf"}) @@ Sized(4, {"x2apic_id"}) @@ Sized(6, {"qdf_raw"})
HpeProcessorSpec ==
  [type |-> 197, since |-> V(0, 0), minimum |-> 10, handlers |-> {"derive"},
   members |-> HpeProcessorMembers,
   fields |->
     <<Number("processor_handle", 2), Number("apic_id", 1), Bits("is_bsp", 1),
        Bits("is_x2apic", 1), Bits("is_thermal_margining", 1), Pad(1)>>
     \o Numbers(1, <<"slot", "socket">>) \o <<Group, Number("maximum_power", 2)>>
     \o <<Group, Number("x2apic_id", 4)>> \o <<Group, Number("uuid", 8)>>
     \o <<Group, Number("interconnect_speed", 2)>>
     \o <<Group, Vector("qdf_raw", 6, <<Number("", 1)>>)>> \o <<Group, Skip(4)>>,
   attributes |->
     Plain({"processor_handle", "apic_id", "is_bsp", "is_x2apic",
        "is_thermal_margining", "qdf"})
     \union {Value("slot", AllOnes, None), Value("socket", AllOnes, None),
           Value("maximum_power", 0, None),
           Variant("is_x2apic", {Value("x2apic_id", AllOnes, None)}),
           Value("uuid", 0, None), Value("interconnect_speed", 0, None)}]

(* HPE: Proliant info                                                      *)
HpeProliantInfoMembers ==
  Sized(1, {"is_icru", "is_uefi", "has_omega_features", "has_misc_features"})
  @@ Sized(4, {"power_features", "omega_features", "misc_features"})
HpeProliantInfoSpec ==
  [type |-> 219, since |-> V(0, 0), minimum |-> 8, handlers |-> {"derive"},
   members |-> HpeProliantInfoMembers,
   fields |->
     <<Number("power_features", 4)>>
     \o <<Present("has_omega_features", Group), Number("omega_features", 4)>>
     \o <<Present("has_misc_features", Group), Skip(4), Number("misc_features", 4)>>,
   attributes |->
     Plain({"power_features"})
     \union {Variant("has_omega_features", Plain({"omega_features"})),
           Variant("has_misc_features", Plain({"misc_features"})),
           Variant("has_misc_features", Plain({"is_icru"})),
           Variant("has_misc_features", Plain({"is_uefi"}))}]

(* HPE: Rack locator                                                       *)
HpeRackLocatorMembers ==
  Sized(8, {"rack_name", "enclosure_name", "enclosure_model", "server_bay",
     "enclosure_serial"})
  @@ Sized(1, {"bay_count", "filled_bay_count"})
HpeRackLocatorSpec ==
  [type |-> 204, since |-> V(0, 0), minimum |-> 11, handlers |-> {},
   members |-> HpeRackLocatorMembers,
   fields |->
     Strs(<<"rack_name", "enclosure_name", "enclosure_model", "server_bay">>)
     \o Numbers(1, <<"bay_count", "filled_bay_count">>) \o <<Str("enclosure_serial")>>,
   attributes |->
     Plain({"rack_name", "enclosure_name", "enclosure_model", "enclosure_serial",
        "bay_count", "server_bay", "filled_bay_count"})]

(* HPE: Reserved memory                                                    *)
HpeReservedMemoryEntryMembers ==
  Sized(8, {"signature", "address", "size"}) @@ Sized(16, {"signature_raw"})
  @@ Sized(4, {"raw_size"}) @@ Sized(1, {"is_kilobytes"})
HpeReservedMemoryMembers == Sized(8, {"entry_count", "entries"})
HpeReservedMemorySpec ==
  [type |-> 229, since |-> V(0, 0), minimum |-> 4, handlers |-> {"derive"},
   members |-> HpeReservedMemoryMembers,
   fields |->
     <<ToTheEnd(16, Array("entries", "entry_count", HpeReservedMemoryEntryMembers,
        <<Binary("signature_raw", 4), Number("address", 8), Bits("raw_size", 31),
        Bits("is_kilobytes", 1), Pad(4)>>))>>,
   attributes |->
     {Each("entry_count", Struct("entries", HpeReservedMemoryEntryMembers,
        Plain({"signature", "address", "size"})))}]

(* HPE: Rom info                                                           *)
HpeRomInfoMembers ==
  Sized(8, {"redundant_rom_version", "bootblock_version", "oem_rom_filename",
     "oem_rom_date", "unknown_string"})
  @@ Sized(1, {"is_redundant_rom", "has_redundant_rom_version", "has_oem_rom",
     "has_unknown_string"})
HpeRomInfoSpec ==
  [type |-> 193, since |-> V(0, 0), minimum |-> 7, handlers |-> {"derive"},
   members |-> HpeRomInfoMembers,
   fields |->
     <<Bits("is_redundant_rom", 1), Pad(1)>>
     \o Strs(<<"redundant_rom_version", "bootblock_version">>) \o <<Group>>
     \o Strs(<<"oem_rom_filename", "oem_rom_date">>)
     \o <<Present("has_unknown_string", Group), Str("unknown_string")>>,
   attributes |->
     Plain({"is_redundant_rom", "bootblock_version"})
     \union {Variant("has_redundant_rom_version", Plain({"redundant_rom_version"})),
           Variant("has_oem_rom", Plain({"oem_rom_filename"})),
           Variant("has_oem_rom", Plain({"oem_rom_date"})),
           Variant("has_unknown_string", Plain({"unknown_string"}))}]

(* HPE: Super io                                                           *)
HpeSuperIoMembers ==
  Sized(1, {"is_serial_a_enabled", "is_serial_b_enabled", "is_parallel_enabled",
     "is_floppy_enabled", "is_virtual_serial_enabled"})
HpeSuperIoSpec ==
  [type |-> 194, since |-> V(0, 0), minimum |-> 5, handlers |-> {},
   members |-> HpeSuperIoMembers,
   fields |->
     <<Bits("is_serial_a_enabled", 1), Bits("is_serial_b_enabled", 1),
        Bits("is_parallel_enabled", 1), Bits("is_floppy_enabled", 1),
        Bits("is_virtual_serial_enabled", 1), Pad(1)>>,
   attributes |->
     Plain({"is_serial_a_enabled", "is_serial_b_enabled", "is_parallel_enabled",
        "is_floppy_enabled", "is_virtual_serial_enabled"})]

(* HPE: System id                                                          *)
HpeSystemIdMembers ==
  Sized(8, {"system_id"}) @@ Sized(2, {"platform_id"}) @@ Sized(1, {"has_platform_id"})
  @@ Sized(16, {"guid"})
HpeSystemIdSpec ==
  [type |-> 195, since |-> V(0, 0), minimum |-> 5, handlers |-> {},
   members |-> HpeSystemIdMembers,
   fields |->
     <<Str("system_id")>>
     \o <<Present("has_platform_id", Group),
           Vector("platform_id", 2, <<Number("", 1)>>)>>
     \o <<Group, Uuid("guid")>>,
   attributes |->
     Plain({"system_id", "guid"})
     \union {Variant("has_platform_id", Plain({"platform_id"}))}]

(* HPE: Tcontrol                                                           *)
HpeTcontrolMembers == Sized(2, {"processor_handle"}) @@ Sized(1, {"tcontrol"})
HpeTcontrolSpec ==
  [type |-> 211, since |-> V(0, 0), minimum |-> 7, handlers |-> {},
   members |-> HpeTcontrolMembers,
   fields |->
     <<Number("processor_handle", 2), Number("tcontrol", 1)>>,
   attributes |->
     Plain({"processor_handle"}) \union {Value("tcontrol", 0, None)}]

(* HPE: Trusted module                                                     *)
HpeTmChipNames == 0..6
HpeTmDisableReasonNames == {1, 2}
HpeTmErrorNames == {1}
HpeTmFipsNames == {1, 2}
HpeTmMountingNames == 1..3
HpeTmPresenceNames == 0..2
HpeTmTypeNames == 1..3
HpeTmChip == 0..6
HpeTmDisableReason == 0..2
HpeTmError == {0, 1}
HpeTmFips == 0..2
HpeTmMounting == 0..3
HpeTmPresence == 0..2
HpeTmType == 0..3
HpeTrustedModuleMembers ==
  Sized(4, {"presence", "disable_reason", "error_condition", "type", "mounting", "fips",
     "chip"})
  @@ Sized(1, {"is_orom_measuring", "is_hidden", "is_standard_algorithm",
     "is_chinese_algorithm", "has_extended_status", "has_chip"})
  @@ Sized(2, {"version_handle"})
HpeTrustedModuleFields ==
  <<Bits("presence", 2), Bits("is_orom_measuring", 1), Bits("is_hidden", 1), Pad(1)>>
  \o <<Present("has_extended_status", Group), Bits("disable_reason", 2),
        Bits("error_condition", 4), Pad(1), Bits("type", 4),
        Bits("is_standard_algorithm", 1), Bits("is_chinese_algorithm", 1), Pad(1),
        Bits("mounting", 2), Bits("fips", 2), Pad(1), Number("version_handle", 2)>>
  \o <<Present("has_chip", Group), Number("chip", 1), Skip(1)>>
HpeTrustedModuleAttributes ==
  Plain({"is_orom_measuring", "is_hidden"})
  \union {Enum("presence", HpeTmPresenceNames, HpeTmPresence, None, None),
        Variant("presence", {Enum("disable_reason", HpeTmDisableReasonNames,
        HpeTmDisableReason, 0, None)}), Variant("disable_reason",
        {Enum("error_condition", HpeTmErrorNames, HpeTmError, 0, None)}),
        Variant("has_extended_status",
        {Enum("type", HpeTmTypeNames, HpeTmType, 0, None)}),
        Variant("has_extended_status", Plain({"is_standard_algorithm"})),
        Variant("has_extended_status", Plain({"is_chinese_algorithm"})),
        Variant("has_extended_status",
        {Enum("mounting", HpeTmMountingNames, HpeTmMounting, 0, None)}),
        Variant("has_extended_status",
        {Enum("fips", HpeTmFipsNames, HpeTmFips, 0, None)}),
        Variant("has_extended_status", {Value("version_handle", AllOnes, None)}),
        Variant("has_chip", {Enum("chip", HpeTmChipNames, HpeTmChip, None, None)})}
HpeTrustedModuleSpec ==
  [type |-> 224, since |-> V(0, 0), minimum |-> 5, handlers |-> {},
   members |-> HpeTrustedModuleMembers,
   fields |-> HpeTrustedModuleFields, attributes |-> HpeTrustedModuleAttributes]

(* HPE: USB device                                                         *)
HpeUsbHubProtoNames == 0..2
HpeUsbStorageProtoNames == 0..2 \union {80, 98, 255}
HpeUsbStorageSubclassNames == 0..255
HpeUsbDeviceMembers ==
  Sized(8, {"capacity", "uefi_device_path", "uefi_device_name", "device_name",
     "location"})
  @@ Sized(1, {"is_sd_card_present", "usb_class", "usb_subclass", "usb_protocol"})
  @@ Sized(2, {"port_handle", "vendor_id", "product_id"}) @@ Sized(4, {"raw_capacity"})
HpeUsbDeviceSpec ==
  [type |-> 239, since |-> V(0, 0), minimum |-> 23, handlers |-> {"derive"},
   members |-> HpeUsbDeviceMembers,
   fields |->
     Numbers(2, <<"port_handle", "vendor_id">>)
     \o <<Bits("is_sd_card_present", 1), Pad(2)>>
     \o Numbers(1, <<"usb_class", "usb_subclass", "usb_protocol">>)
     \o <<Number("product_id", 2), Number("raw_capacity", 4)>>
     \o Strs(<<"uefi_device_path", "uefi_device_name", "device_name", "location">>),
   attributes |->
     Plain({"port_handle", "vendor_id", "product_id", "is_sd_card_present", "usb_class",
        "uefi_device_path", "uefi_device_name", "device_name", "location"})
     \union {Variant("usb_class", Plain({"usb_subclass"}) \union {Enum("usb_subclass",
           HpeUsbStorageSubclassNames, NoValues, None, None)}), Variant("usb_class",
           Plain({"usb_protocol"}) \union
           {Enum("usb_protocol", HpeUsbStorageProtoNames, NoValues, None, None),
           Enum("usb_protocol", HpeUsbHubProtoNames, NoValues, None, None)}),
           Value("capacity", 0, None)}]

(* HPE: USB port                                                           *)
HpeUsbLocationNames == 0..5 \union {7, 9}
HpeUsbSharingNames == 0..2
HpeUsbSpeedNames == 1..3
HpeUsbLocation == 0..5 \union {7, 9}
HpeUsbSharing == 0..2
HpeUsbSpeed == 1..3
HpeUsbPortMembers ==
  Sized(1, {"bus", "devfn", "instance", "hub_instance"})
  @@ Sized(4, {"location", "sharing", "speed"}) @@ Sized(2, {"port_handle", "segment"})
  @@ Sized(8, {"uefi_device_path"})
HpeUsbPortSpec ==
  [type |-> 238, since |-> V(0, 0), minimum |-> 15, handlers |-> {},
   members |-> HpeUsbPortMembers,
   fields |->
     <<Number("port_handle", 2)>> \o Numbers(1, <<"bus", "devfn", "location">>)
     \o <<Number("sharing", 2)>> \o Numbers(1, <<"instance", "hub_instance", "speed">>)
     \o <<Str("uefi_device_path")>> \o <<Group, Number("segment", 2)>>,
   attributes |->
     Plain({"port_handle", "segment", "bus", "devfn", "instance", "uefi_device_path"})
     \union {Enum("location", HpeUsbLocationNames, HpeUsbLocation, None, None),
           Enum("sharing", HpeUsbSharingNames, HpeUsbSharing, None, None),
           Value("hub_instance", 254, None),
           Enum("speed", HpeUsbSpeedNames, HpeUsbSpeed, None, None)}]

(* HPE: Version                                                            *)
HpeFirmwareTypeNamesFrom1 == 1..20 \union 32..35
HpeFirmwareTypeNames == HpeFirmwareTypeNamesFrom1 \union 48..67
HpeFirmwareType == 1..20 \union 32..35 \union 48..67
HpeVersionMembers ==
  Sized(8, {"firmware_name", "version_string", "version"})
  @@ Sized(4, {"firmware_type"}) @@ Sized(1, {"data_format"})
  @@ Sized(12, {"version_data"}) @@ Sized(2, {"unique_id"})
HpeVersionSpec ==
  [type |-> 216, since |-> V(0, 0), minimum |-> 23, handlers |-> {"derive"},
   members |-> HpeVersionMembers,
   fields |->
     <<Number("firmware_type", 2)>> \o Strs(<<"firmware_name", "version_string">>)
     \o <<Number("data_format", 1), Vector("version_data", 12, <<Number("", 1)>>),
           Number("unique_id", 2)>>,
   attributes |->
     Plain({"firmware_name", "version_string", "data_format", "version_data",
        "version"})
     \union {Enum("firmware_type", HpeFirmwareTypeNames, HpeFirmwareType, None, None),
           Value("unique_id", 0, None)}]
=============================================================================
