--------------------------- MODULE IntelEntities ----------------------------
(***************************************************************************)
(* The structures of Intel, its Rack Scale Design among them, as the       *)
(* specifications of the library declare them: the codes that have names,  *)
(* the enumerators, the bits and the sizes of members, and the fields and  *)
(* attributes of each type.                                                *)
(***************************************************************************)
EXTENDS Layout

(* Intel: Amt                                                              *)
IntelAmtOemCaps1Names == 0..6
IntelAmtOemCaps3Names == {6, 7}
IntelAmtOemCaps4Names == 0..5
IntelAmtTerminalNames == 0..4
IntelAmtTerminal == 0..4
IntelAmtOemCaps1 == Unit(1, 8, 0..6)
IntelAmtOemCaps3 == Unit(1, 8, {6, 7})
IntelAmtOemCaps4 == Unit(1, 8, 0..5)
IntelAmtMembers ==
  Sized(1, {"is_supported", "is_enabled", "is_ider_enabled", "is_sol_enabled",
     "is_network_enabled", "extended_data", "oem_capabilities_1", "oem_capabilities_3",
     "oem_capabilities_4", "is_kvm_enabled"})
  @@ Sized(16, {"signature"}) @@ Sized(4, {"terminal"})
IntelAmtSpec ==
  [type |-> 130, since |-> V(0, 0), minimum |-> 20, handlers |-> {},
   members |-> IntelAmtMembers,
   fields |->
     <<Binary("signature", 4)>>
     \o Numbers(1, <<"is_supported", "is_enabled", "is_ider_enabled", "is_sol_enabled",
           "is_network_enabled", "extended_data", "oem_capabilities_1">>)
     \o <<Bits("terminal", 4), Pad(1)>>
     \o Numbers(1, <<"oem_capabilities_3", "oem_capabilities_4", "is_kvm_enabled">>)
     \o <<Skip(1)>>,
   attributes |->
     Plain({"is_supported", "is_enabled", "is_ider_enabled", "is_sol_enabled",
        "is_network_enabled", "is_kvm_enabled", "extended_data"})
     \union {Flags("oem_capabilities_1", IntelAmtOemCaps1Names, IntelAmtOemCaps1),
           Enum("terminal", IntelAmtTerminalNames, IntelAmtTerminal, 0, None),
           Flags("oem_capabilities_3", IntelAmtOemCaps3Names, IntelAmtOemCaps3),
           Flags("oem_capabilities_4", IntelAmtOemCaps4Names, IntelAmtOemCaps4)}]

(* Intel: Asf                                                              *)
IntelAsfMembers ==
  Sized(1, {"version", "parameter", "has_extra"})
  @@ Sized(8, {"name", "identifier", "extra"})
IntelAsfSpec ==
  [type |-> 129, since |-> V(0, 0), minimum |-> 8, handlers |-> {},
   members |-> IntelAsfMembers,
   fields |->
     <<Number("version", 1)>> \o Strs(<<"name", "identifier">>)
     \o <<Number("parameter", 1)>>
     \o <<Present("has_extra", Group), Vector("extra", 8, <<Number("", 1)>>)>>,
   attributes |->
     Plain({"version", "name", "identifier", "parameter"})
     \union {Variant("has_extra", Plain({"extra"}))}]

(* Intel: Fvi                                                              *)
IntelFviItemMembers ==
  Sized(1, {"major", "minor", "revision"}) @@ Sized(8, {"component", "version_string"})
  @@ Sized(2, {"build"})
IntelFviMembers == Sized(8, {"item_count", "items"})
IntelFviSpec ==
  [type |-> 221, since |-> V(0, 0), minimum |-> 5, handlers |-> {},
   members |-> IntelFviMembers,
   fields |->
     <<Counted(1, "", Array("items", "item_count", IntelFviItemMembers,
        Strs(<<"component", "version_string">>) \o
        Numbers(1, <<"major", "minor", "revision">>) \o <<Number("build", 2)>>))>>,
   attributes |->
     {Each("item_count", Struct("items", IntelFviItemMembers,
        Plain({"component", "version_string"}) \union {Value("major", AllOnes, None),
        Value("minor", AllOnes, None), Value("revision", AllOnes, None),
        Value("build", AllOnes, None)}))}]

(* Intel: Mei                                                              *)
IntelMeErrorNames == {0, 1, 3, 4, 255}
IntelMeModeNames == 2..5 \union {0, 255}
IntelMeSkuNames == {2, 3, 5, 255}
IntelMeStateNames == 0..8 \union {255}
IntelMeError == {0, 1, 3, 4, 255}
IntelMeMode == 2..5 \union {0, 255}
IntelMeSku == {2, 3, 5, 255}
IntelMeState == 0..8 \union {255}
IntelMeiDeviceMembers ==
  Sized(1, {"is_present", "is_reported"}) @@ Sized(8, {"name"}) @@ Sized(24, {"hfsts"})
IntelMeiMembers ==
  Sized(4, {"state", "mode", "error_code", "sku"})
  @@ Sized(1, {"version", "is_init_complete", "is_manufacturing"})
  @@ Sized(8, {"device_count", "devices"})
IntelMeiSpec ==
  [type |-> 219, since |-> V(0, 0), minimum |-> 6, handlers |-> {"derive"},
   members |-> IntelMeiMembers,
   fields |->
     <<Number("version", 1), Counted(1, "", Array("devices", "device_count",
        IntelMeiDeviceMembers, <<Str("name"),
        Vector("hfsts", 6, <<Number("", 4)>>)>>))>>,
   attributes |->
     Plain({"version", "is_init_complete", "is_manufacturing"})
     \union {Enum("state", IntelMeStateNames, IntelMeState, 255, None),
           Enum("mode", IntelMeModeNames, IntelMeMode, 255, None),
           Enum("error_code", IntelMeErrorNames, IntelMeError, 255, None),
           Enum("sku", IntelMeSkuNames, IntelMeSku, 255, None), Each("device_count",
           Struct("devices", IntelMeiDeviceMembers, Plain({"name", "is_reported"})
           \union {Variant("is_reported", Plain({"is_present"})),
           Variant("is_reported", Plain({"hfsts"}))}))}]

(* Intel: Platform                                                         *)
IntelPlatformMembers ==
  Sized(8, {"gop_version", "microcode_version", "mrc_version", "sec_version",
     "ulpmc_version", "pmc_version", "punit_version", "soc_version", "board_version",
     "fab_version", "cpu_flavor", "bios_version", "pmic_version", "touch_version",
     "secure_boot", "boot_mode", "speedstep_mode", "turbo_mode", "max_cstate",
     "gfx_turbo", "idle_reserve", "rc6"})
IntelPlatformSpec ==
  [type |-> 148, since |-> V(0, 0), minimum |-> 26, handlers |-> {},
   members |-> IntelPlatformMembers,
   fields |->
     Strs(<<"gop_version", "microcode_version", "mrc_version", "sec_version",
        "ulpmc_version", "pmc_version", "punit_version", "soc_version", "board_version",
        "fab_version", "cpu_flavor", "bios_version", "pmic_version", "touch_version",
        "secure_boot", "boot_mode", "speedstep_mode", "turbo_mode", "max_cstate",
        "gfx_turbo", "idle_reserve", "rc6">>),
   attributes |->
     Plain({"gop_version", "microcode_version", "mrc_version", "sec_version",
        "ulpmc_version", "pmc_version", "punit_version", "soc_version", "board_version",
        "fab_version", "cpu_flavor", "bios_version", "pmic_version", "touch_version",
        "secure_boot", "boot_mode", "speedstep_mode", "turbo_mode", "max_cstate",
        "gfx_turbo", "idle_reserve", "rc6"})]

(* Intel: Svt                                                              *)
IntelSvtMembers ==
  Sized(8, {"milestone_count", "milestones"}) @@ Sized(1, {"version"})
  @@ Sized(2, {"parameter"})
IntelSvtMilestoneMembers == Sized(1, {"code"}) @@ Sized(8, {"name"})
IntelSvtAttrs ==
  Plain({"version", "parameter"})
  \union {Each("milestone_count", Struct("milestones", IntelSvtMilestoneMembers,
        Plain({"code", "name"})))}
IntelSvtAlignedSpec ==
  [type |-> 222, since |-> V(0, 0), minimum |-> 10, handlers |-> {},
   members |-> IntelSvtMembers,
   fields |->
     <<Number("version", 1), Skip(1), Number("parameter", 2), Counted(1, "",
        Array("milestones", "milestone_count", IntelSvtMilestoneMembers,
        <<Number("code", 1), Str("name")>>)), Skip(1)>>,
   attributes |->
     IntelSvtAttrs]
IntelSvtSpec ==
  [type |-> 222, since |-> V(0, 0), minimum |-> 8, handlers |-> {},
   members |-> IntelSvtMembers,
   fields |->
     <<Number("version", 1), Number("parameter", 2), Counted(1, "", Array("milestones",
        "milestone_count", IntelSvtMilestoneMembers, <<Number("code", 1),
        Str("name")>>))>>,
   attributes |->
     IntelSvtAttrs]

(* Intel: Vpro                                                             *)
IntelVproBiosCapsNames == 0..6
IntelVproCpuCapsNames == 0..5
IntelVproMchCapsNames == 0..3
IntelVproMeCapsNames == 0..3 \union {5, 6}
IntelVproTpmCapsNames == {0, 1}
IntelVproBiosCaps == Unit(4, 32, 0..9)
IntelVproCpuCaps == Unit(4, 32, 0..5)
IntelVproMchCaps == Unit(4, 32, 0..3)
IntelVproMeCaps == Unit(4, 32, 0..3 \union {5, 6})
IntelVproTpmCaps == Unit(4, 32, 16..31 \union {0, 1})
IntelVproMembers ==
  Sized(1, {"lpc_devfn", "lpc_bus", "gbe_devfn", "gbe_bus", "wlan_devfn", "wlan_bus",
     "tcg_major", "tcg_minor", "va_version", "has_wlan", "has_mch_capabilities",
     "mch_devfn", "mch_bus"})
  @@ Sized(4, {"cpu_capabilities", "me_capabilities", "tpm_capabilities",
     "bios_capabilities", "mch_capabilities"})
  @@ Sized(2, {"lpc_device_id", "gbe_device_id", "wlan_device_id", "mch_device_id"})
  @@ Sized(8, {"mebx_version", "me_version"}) @@ Sized(16, {"signature"})
IntelVproVersionMembers == Sized(2, {"major", "minor", "hotfix", "build"})
IntelVproVersionAttrs ==
  Plain({"major", "minor", "hotfix", "build"})
IntelVproFields ==
  <<Number("cpu_capabilities", 4)>>
  \o Numbers(2, <<"mebx_version", "mebx_version", "mebx_version", "mebx_version">>)
  \o Numbers(1, <<"lpc_devfn", "lpc_bus">>)
  \o <<Number("lpc_device_id", 2), Skip(4), Number("me_capabilities", 4)>>
  \o Numbers(2, <<"me_version", "me_version", "me_version", "me_version">>)
  \o <<Number("tpm_capabilities", 4)>> \o Numbers(1, <<"gbe_devfn", "gbe_bus">>)
  \o <<Number("gbe_device_id", 2), Skip(2)>>
  \o Numbers(1, <<"wlan_devfn", "wlan_bus">>)
  \o <<Number("wlan_device_id", 2), Skip(2), Number("bios_capabilities", 4),
        Binary("signature", 4), Skip(4)>>
IntelVproAttributes ==
  Plain({"lpc_devfn", "lpc_bus", "lpc_device_id", "tcg_major", "tcg_minor",
     "gbe_devfn", "gbe_bus", "va_version"})
  \union {Flags("cpu_capabilities", IntelVproCpuCapsNames, IntelVproCpuCaps),
        Variant("has_mch_capabilities", {Struct("mebx_version",
        IntelVproVersionMembers, IntelVproVersionAttrs)}),
        Variant("has_mch_capabilities", Plain({"mch_devfn"})),
        Variant("has_mch_capabilities", Plain({"mch_bus"})),
        Variant("has_mch_capabilities", Plain({"mch_device_id"})),
        Variant("has_mch_capabilities",
        {Flags("mch_capabilities", IntelVproMchCapsNames, IntelVproMchCaps)}),
        Flags("me_capabilities", IntelVproMeCapsNames, IntelVproMeCaps),
        Struct("me_version", IntelVproVersionMembers, IntelVproVersionAttrs),
        Flags("tpm_capabilities", IntelVproTpmCapsNames, IntelVproTpmCaps),
        Value("gbe_device_id", AllOnes, None),
        Variant("has_wlan", Plain({"wlan_devfn"})),
        Variant("has_wlan", Plain({"wlan_bus"})),
        Variant("has_wlan", Plain({"wlan_device_id"})),
        Flags("bios_capabilities", IntelVproBiosCapsNames, IntelVproBiosCaps)}
IntelVproSpec ==
  [type |-> 131, since |-> V(0, 0), minimum |-> 64, handlers |-> {"derive"},
   members |-> IntelVproMembers,
   fields |-> IntelVproFields, attributes |-> IntelVproAttributes]

(* Intel RSD: Cabled pcie                                                  *)
IntelRsdCabledPcieMembers ==
  Sized(8, {"port_count", "ports"}) @@ Sized(2, {"pci_slot_id"})
  @@ Sized(4, {"link_width"})
IntelRsdCabledPciePortMembers == Sized(4, {"index", "start_lane"})
IntelRsdCabledPcieSpec ==
  [type |-> 199, since |-> V(2, 0), minimum |-> 10, handlers |-> {},
   members |-> IntelRsdCabledPcieMembers,
   fields |->
     <<Number("pci_slot_id", 2), Number("link_width", 1), Counted(1, "", Array("ports",
        "port_count", IntelRsdCabledPciePortMembers,
        Numbers(1, <<"index", "start_lane">>)))>>,
   attributes |->
     Plain({"pci_slot_id", "link_width"})
     \union {Each("port_count", Struct("ports", IntelRsdCabledPciePortMembers,
           Plain({"index", "start_lane"})))}]

(* Intel RSD: Fpga                                                         *)
IntelRsdFpgaHpsIsaNames == 0..7
IntelRsdFpgaHssiConfigNames == {0, 1, 255}
IntelRsdFpgaMemoryTechNames == 0..3
IntelRsdFpgaStatusNames == {0, 1}
IntelRsdFpgaTypeNames == 0..2
IntelRsdFpgaHpsIsa == 0..7
IntelRsdFpgaHssiConfig == {0, 1, 255}
IntelRsdFpgaMemoryTech == 0..3
IntelRsdFpgaStatus == {0, 1}
IntelRsdFpgaType == 0..2
IntelRsdFpgaMembers ==
  Sized(2, {"index", "socket", "hps_core_count", "hssi_port_count", "hssi_port_speed",
     "reconfig_slots", "pci_slot_id", "memory_speed"})
  @@ Sized(4, {"type", "status", "hps_isa", "hssi_config", "tdp", "memory_tech",
     "memory_capacity"})
  @@ Sized(8, {"vendor", "family", "model", "bit_stream_version",
     "hssi_side_band_config"})
  @@ Sized(1, {"pci_bus_number", "pci_device_number", "pci_function_number"})
IntelRsdFpgaFields ==
  Numbers(1, <<"index", "type", "status", "socket">>)
  \o Strs(<<"vendor", "family", "model", "bit_stream_version">>)
  \o <<Number("hps_core_count", 1), Skip(1)>>
  \o Numbers(1, <<"hps_isa", "hssi_config", "hssi_port_count", "hssi_port_speed">>)
  \o <<Str("hssi_side_band_config"), Number("reconfig_slots", 1),
        Number("pci_slot_id", 2)>>
  \o Numbers(1, <<"pci_bus_number", "pci_device_number", "pci_function_number">>)
  \o <<Number("tdp", 4), Number("memory_tech", 1), Number("memory_capacity", 4),
        Number("memory_speed", 2)>>
IntelRsdFpgaAttributes ==
  Plain({"index", "vendor", "family", "model", "bit_stream_version",
     "hps_core_count", "reconfig_slots", "pci_slot_id", "pci_bus_number",
     "pci_device_number", "pci_function_number", "tdp", "memory_capacity",
     "memory_speed"})
  \union {Enum("type", IntelRsdFpgaTypeNames, IntelRsdFpgaType, None, None),
        Enum("status", IntelRsdFpgaStatusNames, IntelRsdFpgaStatus, None, None),
        Variant("type", Plain({"socket"})), Enum("hps_isa", IntelRsdFpgaHpsIsaNames,
        IntelRsdFpgaHpsIsa, None, None), Enum("hssi_config",
        IntelRsdFpgaHssiConfigNames, IntelRsdFpgaHssiConfig, None, None),
        Variant("hssi_config", Plain({"hssi_port_count"})),
        Variant("hssi_config", Plain({"hssi_port_speed"})),
        Variant("hssi_config", Plain({"hssi_side_band_config"})), Enum("memory_tech",
        IntelRsdFpgaMemoryTechNames, IntelRsdFpgaMemoryTech, None, None)}
IntelRsdFpgaSpec ==
  [type |-> 198, since |-> V(2, 0), minimum |-> 36, handlers |-> {},
   members |-> IntelRsdFpgaMembers,
   fields |-> IntelRsdFpgaFields, attributes |-> IntelRsdFpgaAttributes]

(* Intel RSD: Memory device                                                *)
IntelRsdMemoryMediaNames == {0, 1, 3}
IntelRsdMemoryTypeNames == 0..3
IntelRsdMemoryMedia == {0, 1, 3}
IntelRsdMemoryType == 0..3
IntelRsdMemoryDeviceMembers ==
  Sized(4, {"memory_type", "memory_media", "maximum_tdp"})
  @@ Sized(8, {"firmware_revision", "firmware_api_version"})
  @@ Sized(2, {"device_handle"}) @@ Sized(1, {"smbus_address"})
IntelRsdMemoryDeviceSpec ==
  [type |-> 197, since |-> V(2, 0), minimum |-> 15, handlers |-> {},
   members |-> IntelRsdMemoryDeviceMembers,
   fields |->
     <<Number("device_handle", 2)>> \o Numbers(1, <<"memory_type", "memory_media">>)
     \o Strs(<<"firmware_revision", "firmware_api_version">>)
     \o <<Number("maximum_tdp", 4), Number("smbus_address", 1)>>,
   attributes |->
     Plain({"device_handle", "firmware_revision", "firmware_api_version", "maximum_tdp",
        "smbus_address"})
     \union {Enum("memory_type", IntelRsdMemoryTypeNames, IntelRsdMemoryType, None,
           None), Enum("memory_media", IntelRsdMemoryMediaNames, IntelRsdMemoryMedia,
           None, None)}]

(* Intel RSD: Network card                                                 *)
IntelRsdNetworkCardMembers ==
  Sized(2, {"pci_slot_id", "vendor_id", "device_id", "sub_vendor_id", "sub_device_id",
     "port_index"})
  @@ Sized(4, {"maximum_speed", "current_speed"}) @@ Sized(1, {"pci_class"})
  @@ Sized(16, {"mac_address"}) @@ Sized(8, {"firmware_version"})
IntelRsdNetworkCardSpec ==
  [type |-> 190, since |-> V(2, 0), minimum |-> 58, handlers |-> {},
   members |-> IntelRsdNetworkCardMembers,
   fields |->
     <<Number("pci_class", 1)>>
     \o Numbers(2, <<"pci_slot_id", "vendor_id", "device_id", "sub_vendor_id",
           "sub_device_id">>)
     \o Numbers(4, <<"maximum_speed", "current_speed">>)
     \o <<Number("port_index", 2), Binary("mac_address", 32), Str("firmware_version")>>,
   attributes |->
     Plain({"pci_class", "pci_slot_id", "vendor_id", "device_id", "sub_vendor_id",
        "sub_device_id", "maximum_speed", "current_speed", "port_index", "mac_address",
        "firmware_version"})]

(* Intel RSD: Pcie                                                         *)
IntelRsdPcieMembers ==
  Sized(2, {"pci_slot_id", "vendor_id", "device_id", "sub_vendor_id", "sub_device_id"})
  @@ Sized(4, {"link_speed", "link_width"}) @@ Sized(1, {"pci_class"})
IntelRsdPcieSpec ==
  [type |-> 192, since |-> V(2, 0), minimum |-> 23, handlers |-> {},
   members |-> IntelRsdPcieMembers,
   fields |->
     <<Number("pci_class", 1)>>
     \o Numbers(2, <<"pci_slot_id", "vendor_id", "device_id", "sub_vendor_id",
           "sub_device_id">>)
     \o Numbers(4, <<"link_speed", "link_width">>),
   attributes |->
     Plain({"pci_class", "pci_slot_id", "vendor_id", "device_id", "sub_vendor_id",
        "sub_device_id", "link_speed", "link_width"})]

(* Intel RSD: Phys device mapping                                          *)
IntelRsdPhysDeviceTypeNames == 0..3
IntelRsdPhysDeviceType == 0..3
IntelRsdPhysDeviceMappingMembers ==
  Sized(8, {"device_count", "devices"}) @@ Sized(4, {"device_type"})
IntelRsdPhysDeviceMembers ==
  Sized(1, {"primary_number", "secondary_number", "is_raw"}) @@ Sized(2, {"handle"})
  @@ Sized(4, {"type"}) @@ Sized(16, {"data"})
IntelRsdPhysDeviceAttrs ==
  {Variant("type", Plain({"handle"})), Variant("type", Plain({"primary_number"})),
     Variant("type", Plain({"primary_number"})),
     Variant("type", Plain({"secondary_number"})), Variant("is_raw", Plain({"data"}))}
IntelRsdPhysDeviceMappingSpec ==
  [type |-> 200, since |-> V(2, 0), minimum |-> 6, handlers |-> {"derive"},
   members |-> IntelRsdPhysDeviceMappingMembers,
   fields |->
     <<Number("device_type", 1), Skip(1), ToTheEnd(4, Array("devices", "device_count",
        IntelRsdPhysDeviceMembers, <<Number("handle", 2), Binary("data", 2)>>))>>,
   attributes |->
     {Enum("device_type", IntelRsdPhysDeviceTypeNames, IntelRsdPhysDeviceType, None,
        None), Each("device_count",
        Struct("devices", IntelRsdPhysDeviceMembers, IntelRsdPhysDeviceAttrs))}]

(* Intel RSD: Processor cpuid                                              *)
IntelRsdCpuidSubtypeNames == {1, 2}
IntelRsdCpuidSubtype == {1, 2}
IntelRsdCpuidLeafMembers ==
  Sized(4, {"leaf", "subleaf", "eax", "ebx", "ecx", "edx"}) @@ Sized(1, {"has_subleaf"})
IntelRsdProcessorCpuidMembers ==
  Sized(8, {"socket_designation", "leaf_count", "leaves"}) @@ Sized(4, {"subtype"})
  @@ Sized(1, {"is_raw"}) @@ Sized(16, {"data"})
IntelRsdCpuidLeafAttrs ==
  Plain({"leaf", "eax", "ebx", "ecx", "edx"})
  \union {Variant("has_subleaf", Plain({"subleaf"}))}
IntelRsdProcessorCpuidSpec ==
  [type |-> 193, since |-> V(2, 0), minimum |-> 6, handlers |-> {"decode", "encode", "cleanup"},
   members |-> IntelRsdProcessorCpuidMembers,
   fields |->
     NoFields,
   attributes |->
     Plain({"socket_designation"})
     \union {Enum("subtype", IntelRsdCpuidSubtypeNames, IntelRsdCpuidSubtype, None,
           None), Each("leaf_count",
           Struct("leaves", IntelRsdCpuidLeafMembers, IntelRsdCpuidLeafAttrs)),
           Variant("is_raw", Plain({"data"}))}]

(* Intel RSD: Storage device                                               *)
IntelRsdStorageConnectorNames == 0..6
IntelRsdStorageDeviceTypeNames == 0..5
IntelRsdStorageProtoNames == 0..4
IntelRsdStorageConnector == 0..6
IntelRsdStorageDeviceType == 0..5
IntelRsdStorageProto == 0..4
IntelRsdStorageDeviceMembers ==
  Sized(4, {"index", "connector", "protocol", "type", "capacity"})
  @@ Sized(2, {"rpm", "vendor_id", "device_id", "sub_vendor_id", "sub_device_id"})
  @@ Sized(8, {"port", "model", "serial_number", "firmware_version"})
  @@ Sized(1, {"pci_class"})
IntelRsdStorageDeviceSpec ==
  [type |-> 194, since |-> V(2, 0), minimum |-> 27, handlers |-> {},
   members |-> IntelRsdStorageDeviceMembers,
   fields |->
     <<Str("port")>> \o Numbers(1, <<"index", "connector", "protocol", "type">>)
     \o <<Number("capacity", 4), Number("rpm", 2)>>
     \o Strs(<<"model", "serial_number">>) \o <<Number("pci_class", 1)>>
     \o Numbers(2, <<"vendor_id", "device_id", "sub_vendor_id", "sub_device_id">>)
     \o <<Str("firmware_version")>>,
   attributes |->
     Plain({"port", "index", "capacity", "model", "serial_number", "pci_class",
        "vendor_id", "device_id", "sub_vendor_id", "sub_device_id", "firmware_version"})
     \union {Enum("connector", IntelRsdStorageConnectorNames, IntelRsdStorageConnector,
           None, 0), Enum("protocol", IntelRsdStorageProtoNames, IntelRsdStorageProto,
           None, 0), Enum("type", IntelRsdStorageDeviceTypeNames,
           IntelRsdStorageDeviceType, None, 0), Value("rpm", 0, None)}]

(* Intel RSD: TPM                                                          *)
IntelRsdTpmStatusNames == {0, 1}
IntelRsdTpmStatus == {0, 1}
IntelRsdTpmMembers ==
  Sized(1, {"config_index"}) @@ Sized(8, {"version"}) @@ Sized(4, {"status"})
IntelRsdTpmSpec ==
  [type |-> 195, since |-> V(2, 0), minimum |-> 7, handlers |-> {},
   members |-> IntelRsdTpmMembers,
   fields |->
     <<Number("config_index", 1), Str("version"), Number("status", 1)>>,
   attributes |->
     Plain({"config_index", "version"})
     \union {Enum("status", IntelRsdTpmStatusNames, IntelRsdTpmStatus, None, None)}]

(* Intel RSD: Txt                                                          *)
IntelRsdTxtStatusNames == {0, 1}
IntelRsdTxtStatus == {0, 1}
IntelRsdTxtMembers == Sized(4, {"status"})
IntelRsdTxtSpec ==
  [type |-> 196, since |-> V(2, 0), minimum |-> 5, handlers |-> {},
   members |-> IntelRsdTxtMembers,
   fields |->
     <<Number("status", 1)>>,
   attributes |->
     {Enum("status", IntelRsdTxtStatusNames, IntelRsdTxtStatus, None, None)}]
=============================================================================
