--------------------------- MODULE VendorEntities ---------------------------
(***************************************************************************)
(* The structures of Acer, AMI, Apple, Cisco, Lenovo and Sun, as the       *)
(* specifications of the library declare them: the codes that have names,  *)
(* the enumerators, the bits and the sizes of members, and the fields and  *)
(* attributes of each type.                                                *)
(***************************************************************************)
EXTENDS Layout

(* Acer: Devices                                                           *)
AcerDeviceKindNames == 1..5 \union {7, 8, 13, 17, 19, 21, 22, 25}
AcerDeviceKind == 1..5 \union {7, 8, 13, 17, 19, 21, 22, 25}
AcerDeviceEntryMembers == Sized(2, {"vendor_id", "device_id"}) @@ Sized(4, {"kind"})
AcerDevicesMembers == Sized(8, {"device_count", "devices"})
AcerDevicesSpec ==
  [type |-> 171, since |-> V(0, 0), minimum |-> 4, handlers |-> {},
   members |-> AcerDevicesMembers,
   fields |->
     <<ToTheEnd(5, Array("devices", "device_count", AcerDeviceEntryMembers,
        <<Number("kind", 1)>> \o Numbers(2, <<"vendor_id", "device_id">>)))>>,
   attributes |->
     {Each("device_count", Struct("devices", AcerDeviceEntryMembers,
        {Enum("kind", AcerDeviceKindNames, AcerDeviceKind, None, None),
        Value("vendor_id", 0, None), Value("device_id", 0, None)}))}]

(* Acer: Hotkeys                                                           *)
AcerCommFunctionNames == {0, 6, 7, 11, 14}
AcerHotkeyEntryMembers == Sized(1, {"key", "kind"}) @@ Sized(2, {"function"})
AcerHotkeysMembers ==
  Sized(2, {"comm_functions", "app_functions", "media_functions", "display_functions",
     "other_functions"})
  @@ Sized(8, {"hotkey_count", "hotkeys"}) @@ Sized(1, {"comm_key"})
AcerHotkeysAttrs ==
  Plain({"app_functions", "media_functions", "display_functions", "other_functions",
     "comm_key"})
  \union {Flags("comm_functions", AcerCommFunctionNames, NoBits), Each("hotkey_count",
        Struct("hotkeys", AcerHotkeyEntryMembers, Plain({"key", "kind", "function"})))}
AcerHotkeysBasicSpec ==
  [type |-> 170, since |-> V(0, 0), minimum |-> 15, handlers |-> {},
   members |-> AcerHotkeysMembers,
   fields |->
     Numbers(2, <<"comm_functions", "app_functions", "media_functions",
        "display_functions", "other_functions">>)
     \o <<Number("comm_key", 1)>>,
   attributes |->
     AcerHotkeysAttrs]
AcerHotkeysSpec ==
  [type |-> 170, since |-> V(0, 0), minimum |-> 15, handlers |-> {"derive"},
   members |-> AcerHotkeysMembers,
   fields |->
     Numbers(2, <<"comm_functions", "app_functions", "media_functions",
        "display_functions", "other_functions">>)
     \o <<ToTheEnd(4, Array("hotkeys", "hotkey_count", AcerHotkeyEntryMembers,
           Numbers(1, <<"key", "kind">>) \o <<Number("function", 2)>>))>>,
   attributes |->
     AcerHotkeysAttrs]

(* AMI: Firewire guid                                                      *)
AmiFirewireGuidMembers ==
  Sized(16, {"signature", "data"}) @@ Sized(1, {"unknown"}) @@ Sized(8, {"name"})
AmiFirewireGuidSpec ==
  [type |-> 139, since |-> V(0, 0), minimum |-> 54, handlers |-> {},
   members |-> AmiFirewireGuidMembers,
   fields |->
     <<Binary("signature", 8), Binary("data", 40), Number("unknown", 1), Str("name")>>,
   attributes |->
     Plain({"name", "data", "unknown"})]

(* Apple: Firmware volume                                                  *)
AppleExtendedFeatureNames == 0..3
AppleFirmwareFeatureNames == 0..31
AppleRegionTypeNames == 0..5
AppleRegionType == 0..5
AppleFirmwareVolumeMembers ==
  Sized(4, {"features", "features_mask", "extended_features", "extended_features_mask"})
  @@ Sized(1, {"region_count"}) @@ Sized(8, {"region_types"}) @@ Sized(96, {"regions"})
AppleFlashRegionMembers == Sized(4, {"type", "start_address", "end_address"})
AppleFirmwareVolumeSpec ==
  [type |-> 128, since |-> V(0, 0), minimum |-> 88, handlers |-> {"derive"},
   members |-> AppleFirmwareVolumeMembers,
   fields |->
     <<Number("region_count", 1), Skip(3)>>
     \o Numbers(4, <<"features", "features_mask">>)
     \o <<Vector("region_types", 8, <<Number("", 1)>>),
           Vector("regions", 8, Numbers(4, <<"start_address", "end_address">>))>>
     \o <<Group>> \o Numbers(4, <<"extended_features", "extended_features_mask">>),
   attributes |->
     Plain({"region_count", "features_mask", "extended_features_mask"})
     \union {Flags("features", AppleFirmwareFeatureNames, NoBits), Struct("regions",
           AppleFlashRegionMembers, Plain({"start_address", "end_address"}) \union
           {Enum("type", AppleRegionTypeNames, AppleRegionType, None, None)}),
           Flags("extended_features", AppleExtendedFeatureNames, NoBits)}]

(* Apple: Memory spd data                                                  *)
AppleMemorySpdDataMembers ==
  Sized(2, {"handle", "offset", "size"}) @@ Sized(16, {"data"})
AppleMemorySpdDataSpec ==
  [type |-> 130, since |-> V(0, 0), minimum |-> 10, handlers |-> {},
   members |-> AppleMemorySpdDataMembers,
   fields |->
     Numbers(2, <<"handle", "offset", "size">>) \o <<Binary("data", Rest)>>,
   attributes |->
     Plain({"handle", "offset", "size", "data"})]

(* Apple: Platform feature                                                 *)
ApplePlatformFeatureBitNames == 0..4
ApplePlatformFeatureMembers == Sized(8, {"features"})
ApplePlatformFeatureSpec ==
  [type |-> 133, since |-> V(0, 0), minimum |-> 12, handlers |-> {},
   members |-> ApplePlatformFeatureMembers,
   fields |->
     <<Number("features", 8)>>,
   attributes |->
     {Flags("features", ApplePlatformFeatureBitNames, NoBits)}]

(* Apple: Processor bus speed                                              *)
AppleProcessorBusSpeedMembers == Sized(2, {"speed"})
AppleProcessorBusSpeedSpec ==
  [type |-> 132, since |-> V(0, 0), minimum |-> 6, handlers |-> {},
   members |-> AppleProcessorBusSpeedMembers,
   fields |->
     <<Number("speed", 2)>>,
   attributes |->
     Plain({"speed"})]

(* Apple: Processor type                                                   *)
AppleProcessorClassNames == 2..7 \union 9..16 \union {0}
AppleProcessorClass == 2..7 \union 9..16 \union {0}
AppleProcessorTypeMembers == Sized(1, {"generation"}) @@ Sized(4, {"clazz"})
AppleProcessorTypeSpec ==
  [type |-> 131, since |-> V(0, 0), minimum |-> 6, handlers |-> {},
   members |-> AppleProcessorTypeMembers,
   fields |->
     Numbers(1, <<"generation", "clazz">>) \o <<Group, Skip(2)>>,
   attributes |->
     Plain({"generation"})
     \union {Enum("clazz", AppleProcessorClassNames, AppleProcessorClass, None, None)}]

(* Apple: Smc version                                                      *)
AppleSmcVersionMembers == Sized(16, {"version_raw"}) @@ Sized(8, {"version"})
AppleSmcVersionSpec ==
  [type |-> 134, since |-> V(0, 0), minimum |-> 20, handlers |-> {"derive"},
   members |-> AppleSmcVersionMembers,
   fields |->
     <<Binary("version_raw", 16)>>,
   attributes |->
     Plain({"version", "version_raw"})]

(* Cisco: PCI adapter                                                      *)
CiscoPciAdapterMembers ==
  Sized(2, {"raw_vendor_id", "raw_device_id", "raw_subsystem_vendor_id",
     "raw_subsystem_id", "vendor_id", "device_id", "subsystem_vendor_id",
     "subsystem_id"})
  @@ Sized(1, {"version", "prog_if", "subclass", "pci_class", "revision"})
  @@ Sized(8, {"model", "slot", "firmware_version"})
CiscoPciAdapterSpec ==
  [type |-> 202, since |-> V(0, 0), minimum |-> 20, handlers |-> {"derive"},
   members |-> CiscoPciAdapterMembers,
   fields |->
     <<Number("version", 1)>> \o Numbers(2, <<"raw_vendor_id", "raw_device_id">>)
     \o Numbers(1, <<"prog_if", "subclass", "pci_class", "revision">>)
     \o Strs(<<"model", "slot">>)
     \o Numbers(2, <<"raw_subsystem_vendor_id", "raw_subsystem_id">>)
     \o <<Str("firmware_version")>>,
   attributes |->
     Plain({"version", "model", "slot", "vendor_id", "device_id", "subsystem_vendor_id",
        "subsystem_id", "pci_class", "subclass", "prog_if", "revision",
        "firmware_version"})]

(* Cisco: Slot buses                                                       *)
CiscoSlotBusesMembers == Sized(8, {"slot", "bus_count", "buses"})
CiscoSlotBusesSpec ==
  [type |-> 201, since |-> V(0, 0), minimum |-> 6, handlers |-> {},
   members |-> CiscoSlotBusesMembers,
   fields |->
     <<Str("slot"), Counted(1, "",
        Array("buses", "bus_count", NoMembers, <<Number("", 1)>>))>>,
   attributes |->
     Plain({"slot"}) \union {Each("bus_count", Attr("buses"))}]

(* Lenovo: OEM                                                             *)
LenovoBayIoMembers ==
  Sized(16, {"signature", "bay_signature", "data"})
  @@ Sized(1, {"offset", "number", "version"})
LenovoDevicePresenceMembers ==
  Sized(1, {"offset", "number", "revision", "devices", "is_fingerprint_reader"})
  @@ Sized(16, {"signature"})
LenovoEcpMembers ==
  Sized(1, {"offset", "number", "revision"}) @@ Sized(8, {"version", "release_date"})
  @@ Sized(16, {"signature"})
LenovoOemMembers ==
  Sized(1, {"offset", "number", "revision"}) @@ Sized(16, {"signature", "data"})
LenovoBayIoSpec ==
  [type |-> 135, since |-> V(0, 0), minimum |-> 17, handlers |-> {},
   members |-> LenovoBayIoMembers,
   fields |->
     <<Binary("signature", 2)>> \o Numbers(1, <<"offset", "number">>)
     \o <<Binary("bay_signature", 8), Number("version", 1), Binary("data", Rest)>>,
   attributes |->
     Plain({"number", "version", "data"})]
LenovoDevicePresenceSpec ==
  [type |-> 135, since |-> V(0, 0), minimum |-> 10, handlers |-> {"derive"},
   members |-> LenovoDevicePresenceMembers,
   fields |->
     <<Binary("signature", 2)>>
     \o Numbers(1, <<"offset", "number", "revision", "devices">>),
   attributes |->
     Plain({"number", "revision", "devices", "is_fingerprint_reader"})]
LenovoEcpSpec ==
  [type |-> 140, since |-> V(0, 0), minimum |-> 15, handlers |-> {},
   members |-> LenovoEcpMembers,
   fields |->
     <<Binary("signature", 6)>> \o Numbers(1, <<"offset", "number", "revision">>)
     \o Strs(<<"version", "release_date">>),
   attributes |->
     Plain({"number", "revision", "version", "release_date"})]
LenovoMobileOemSpec ==
  [type |-> 135, since |-> V(0, 0), minimum |-> 9, handlers |-> {},
   members |-> LenovoOemMembers,
   fields |->
     <<Binary("signature", 2)>> \o Numbers(1, <<"offset", "number", "revision">>)
     \o <<Binary("data", Rest)>>,
   attributes |->
     Plain({"number", "revision", "data"})]
LenovoOemSpec ==
  [type |-> 140, since |-> V(0, 0), minimum |-> 13, handlers |-> {},
   members |-> LenovoOemMembers,
   fields |->
     <<Binary("signature", 6)>> \o Numbers(1, <<"offset", "number", "revision">>)
     \o <<Binary("data", Rest)>>,
   attributes |->
     Plain({"number", "revision", "data"})]

(* Lenovo: Records                                                         *)
LenovoDateMembers == Sized(4, {"raw_date", "date"})
LenovoMtmMembers == Sized(8, {"brand", "mtm"}) @@ Sized(16, {"data"})
LenovoTpmInfoMembers ==
  Sized(8, {"vendor", "signature", "description"})
  @@ Sized(1, {"unknown_1", "unknown_4"}) @@ Sized(2, {"unknown_2", "unknown_3"})
  @@ Sized(16, {"vendor_raw"})
LenovoDateSpec ==
  [type |-> 134, since |-> V(0, 0), minimum |-> 13, handlers |-> {"derive"},
   members |-> LenovoDateMembers,
   fields |->
     <<Number("raw_date", 4), Skip(5)>>,
   attributes |->
     Plain({"date"})]
LenovoMtmSpec ==
  [type |-> 200, since |-> V(0, 0), minimum |-> 16, handlers |-> {},
   members |-> LenovoMtmMembers,
   fields |->
     Strs(<<"brand", "mtm">>) \o <<Binary("data", 10)>>,
   attributes |->
     Plain({"brand", "mtm", "data"})]
LenovoTpmInfoSpec ==
  [type |-> 134, since |-> V(0, 0), minimum |-> 16, handlers |-> {"derive"},
   members |-> LenovoTpmInfoMembers,
   fields |->
     <<Number("unknown_1", 1), Binary("vendor_raw", 4),
        Vector("unknown_2", 2, <<Number("", 1)>>), Number("unknown_3", 2),
        Number("unknown_4", 1)>>
     \o Strs(<<"signature", "description">>),
   attributes |->
     Plain({"vendor", "unknown_1", "unknown_2", "unknown_3", "unknown_4",
        "description"})]

(* Lenovo: Tvt                                                             *)
LenovoTvtMembers ==
  Sized(1, {"version", "is_diagnostics"}) @@ Sized(16, {"features"})
  @@ Sized(8, {"signature"})
LenovoTvtSpec ==
  [type |-> 131, since |-> V(0, 0), minimum |-> 22, handlers |-> {"derive"},
   members |-> LenovoTvtMembers,
   fields |->
     <<Number("version", 1), Binary("features", 16), Str("signature")>>,
   attributes |->
     Plain({"version", "features", "is_diagnostics"})]

(* Sun: Memory array ex                                                    *)
SunMemoryArrayExMembers ==
  Sized(1, {"bus_number", "device_number", "function_number"})
  @@ Sized(2, {"memory_array_handle", "component_handle"})
SunMemoryArrayExSpec ==
  [type |-> 144, since |-> V(2, 0), minimum |-> 10, handlers |-> {},
   members |-> SunMemoryArrayExMembers,
   fields |->
     Numbers(2, <<"memory_array_handle", "component_handle">>)
     \o <<Bits("function_number", 3), Bits("device_number", 5), Bits("bus_number", 8),
           Pad(2)>>,
   attributes |->
     Plain({"memory_array_handle", "component_handle", "bus_number", "device_number",
        "function_number"})]

(* Sun: Memory device ex                                                   *)
SunMemoryDeviceExMembers ==
  Sized(1, {"dram_channel", "chip_select_total"})
  @@ Sized(8, {"chip_select_count", "chip_selects"})
  @@ Sized(2, {"memory_device_handle"})
SunMemoryDeviceExSpec ==
  [type |-> 145, since |-> V(2, 0), minimum |-> 8, handlers |-> {},
   members |-> SunMemoryDeviceExMembers,
   fields |->
     <<Number("memory_device_handle", 2), Number("dram_channel", 1), Counted(1,
        "chip_select_total", Array("chip_selects", "chip_select_count", NoMembers,
        <<Number("", 1)>>))>>,
   attributes |->
     Plain({"memory_device_handle", "dram_channel", "chip_select_total"})
     \union {Each("chip_select_count", Attr("chip_selects"))}]

(* Sun: Pcie root complex                                                  *)
SunPcieRootComplexMembers ==
  Sized(1, {"bus_number", "device_number", "function_number"})
  @@ Sized(2, {"baseboard_handle"})
SunPcieRootComplexSpec ==
  [type |-> 138, since |-> V(2, 0), minimum |-> 8, handlers |-> {},
   members |-> SunPcieRootComplexMembers,
   fields |->
     <<Number("baseboard_handle", 2), Bits("function_number", 3),
        Bits("device_number", 5), Bits("bus_number", 8), Pad(2)>>,
   attributes |->
     Plain({"baseboard_handle", "bus_number", "device_number", "function_number"})]

(* Sun: Port ex                                                            *)
SunPortExMembers ==
  Sized(2, {"chassis_handle", "port_handle", "device_handle"})
  @@ Sized(1, {"device_type", "phy"})
SunPortExSpec ==
  [type |-> 136, since |-> V(2, 0), minimum |-> 12, handlers |-> {},
   members |-> SunPortExMembers,
   fields |->
     Numbers(2, <<"chassis_handle", "port_handle">>)
     \o <<Number("device_type", 1), Number("device_handle", 2), Number("phy", 1)>>,
   attributes |->
     Plain({"chassis_handle", "port_handle", "device_type", "device_handle", "phy"})]

(* Sun: Processor ex                                                       *)
SunProcessorExMembers ==
  Sized(1, {"fru", "apic_id_total"}) @@ Sized(8, {"apic_id_count", "apic_ids"})
  @@ Sized(2, {"processor_handle"})
SunProcessorExSpec ==
  [type |-> 132, since |-> V(2, 0), minimum |-> 8, handlers |-> {},
   members |-> SunProcessorExMembers,
   fields |->
     <<Number("processor_handle", 2), Number("fru", 1), Counted(1, "apic_id_total",
        Array("apic_ids", "apic_id_count", NoMembers, <<Number("", 2)>>))>>,
   attributes |->
     Plain({"processor_handle", "fru", "apic_id_total"})
     \union {Each("apic_id_count", Attr("apic_ids"))}]
=============================================================================
