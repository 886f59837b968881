--------------------------- MODULE MemoryEntities ---------------------------
(***************************************************************************)
(* The structures of processors, memory, ports and slots, as the           *)
(* specifications of the library declare them: the codes that have names,  *)
(* the enumerators, the bits and the sizes of members, and the fields and  *)
(* attributes of each type.                                                *)
(***************************************************************************)
EXTENDS CommonEntities

(* Cache                                                                   *)
CacheAssocNames == 0..14
CacheLocationNames == 0..3
CacheModeNames == 0..3
CacheSramTypeNames == 0..6
CacheTypeNames == 0..5
CacheAssoc == 0..14
CacheLocation == 0..3
CacheMode == 0..3
CacheType == 0..5
CacheSramType == Unit(2, 7, 0..6)
CacheMembers ==
  Sized(4, {"location", "mode", "speed", "error_correction", "type", "associativity"})
  @@ Sized(8, {"socket_designator", "maximum_size", "installed_size"})
  @@ Sized(2, {"level", "supported_sram", "current_sram"})
  @@ Sized(1, {"socketed", "enabled"})
CacheFields ==
  <<Str("socket_designator"), Bits("level", 3), Bits("socketed", 1), Bits("", 1),
     Bits("location", 2), Bits("enabled", 1), Bits("mode", 2), Pad(2)>>
  \o Numbers(2, <<"maximum_size", "installed_size", "supported_sram",
        "current_sram">>)
  \o <<GroupSince(V(2, 1))>>
  \o Numbers(1, <<"speed", "error_correction", "type", "associativity">>)
  \o <<GroupSince(V(3, 1)), Extended("maximum_size", 4, "maximum_size", AllOnes),
        Extended("installed_size", 4, "installed_size", AllOnes)>>
CacheAttributes ==
  Plain({"socket_designator", "level", "socketed", "enabled", "maximum_size",
     "installed_size"})
  \union {Enum("location", CacheLocationNames, CacheLocation, None, 3),
        Enum("mode", CacheModeNames, CacheMode, None, 3),
        Flags("supported_sram", CacheSramTypeNames, CacheSramType),
        Flags("current_sram", CacheSramTypeNames, CacheSramType)}
  \union Level(V(2, 1), Plain({"speed"}) \union {Enum("error_correction",
        ErrorCorrectTypeNames, ErrorCorrectType, 0, 2),
        Enum("type", CacheTypeNames, CacheType, 0, 2),
        Enum("associativity", CacheAssocNames, CacheAssoc, 0, 2)})
CacheSpec ==
  [type |-> 7, since |-> V(2, 0), minimum |-> 15, handlers |-> {},
   members |-> CacheMembers,
   fields |-> CacheFields, attributes |-> CacheAttributes]

(* Memory array                                                            *)
MemoryArrayLocationNames == 0..10 \union 160..164
MemoryArrayUseNames == 0..7
MemoryArrayLocation == 0..10 \union 160..164
MemoryArrayUse == 0..7
MemoryArrayMembers ==
  Sized(4, {"location", "use", "error_correction", "device_count"})
  @@ Sized(8, {"maximum_capacity", "error_info"}) @@ Sized(2, {"error_handle"})
MemoryArraySpec ==
  [type |-> 16, since |-> V(2, 1), minimum |-> 15, handlers |-> {},
   members |-> MemoryArrayMembers,
   fields |->
     Numbers(1, <<"location", "use", "error_correction">>)
     \o <<Unknown(Lowest, Number("maximum_capacity", 4))>>
     \o Numbers(2, <<"error_handle", "device_count">>)
     \o <<GroupSince(V(2, 7)),
           Extended("maximum_capacity", 8, "maximum_capacity", Lowest)>>,
   attributes |->
     Plain({"error_handle", "device_count"})
     \union {Enum("location", MemoryArrayLocationNames, MemoryArrayLocation, 0, 2),
           Enum("use", MemoryArrayUseNames, MemoryArrayUse, 0, 2),
           Enum("error_correction", ErrorCorrectTypeNames, ErrorCorrectType, 0, 2),
           Value("maximum_capacity", None, AllOnes)}]

(* Memory array addr                                                       *)
MemoryArrayAddrMembers ==
  Sized(8, {"start_address", "end_address", "range_size", "array"})
  @@ Sized(2, {"array_handle", "partition_width"})
MemoryArrayAddrSpec ==
  [type |-> 19, since |-> V(2, 1), minimum |-> 15, handlers |-> {"validate", "derive"},
   members |-> MemoryArrayAddrMembers,
   fields |->
     Numbers(4, <<"start_address", "end_address">>)
     \o <<Number("array_handle", 2), Number("partition_width", 1)>>
     \o <<GroupSince(V(2, 7)), Extended("start_address", 8, "start_address", AllOnes),
           Extended("end_address", 8, "start_address", AllOnes)>>,
   attributes |->
     Plain({"start_address", "end_address", "range_size", "array_handle",
        "partition_width"})]

(* Memory channel                                                          *)
MemoryChannelTypeNames == 0..4
MemoryChannelType == 0..4
MemoryChannelDeviceMembers ==
  Sized(1, {"load"}) @@ Sized(2, {"handle"}) @@ Sized(8, {"device"})
MemoryChannelMembers ==
  Sized(8, {"device_count", "devices"}) @@ Sized(4, {"type"})
  @@ Sized(2, {"maximum_load"})
MemoryChannelSpec ==
  [type |-> 37, since |-> V(2, 3), minimum |-> 10, handlers |-> {"link"},
   members |-> MemoryChannelMembers,
   fields |->
     Numbers(1, <<"type", "maximum_load">>)
     \o <<Counted(1, "", Array("devices", "device_count", MemoryChannelDeviceMembers,
           <<Number("load", 1), Number("handle", 2)>>))>>,
   attributes |->
     Plain({"maximum_load", "device_count"})
     \union {Enum("type", MemoryChannelTypeNames, MemoryChannelType, 0, 2),
           Each("device_count", Struct("devices", MemoryChannelDeviceMembers,
           Plain({"load", "handle"})))}]

(* Memory device                                                           *)
MemoryDeviceFormFactorNames == 0..19
MemoryDeviceTechNames == 0..8
MemoryDeviceTypeDetailsNames == 0..15
MemoryDeviceTypeNames == 0..20 \union 24..38
MemoryDeviceFormFactor == 0..19
MemoryDeviceTech == 0..8
MemoryDeviceType == 0..20 \union 24..38
MemoryDeviceTypeDetails == Unit(2, 16, 1..15)
MemoryDeviceArrayMembers ==
  Sized(2, {"array_handle", "error_info_handle", "total_width", "data_width",
     "device_set", "memory_type_details"})
  @@ Sized(8, {"array", "error_info", "size", "device_locator", "bank_locator",
     "maximum_speed", "vendor", "serial_number", "asset_tag", "part_number"})
  @@ Sized(4, {"form_factor", "memory_type"})
MemoryDeviceModuleMembers ==
  Sized(2, {"rank", "minimum_voltage", "maximum_voltage", "configured_voltage",
     "memory_mode_caps", "module_vendor_id", "module_product_id",
     "controller_vendor_id", "controller_product_id"})
  @@ Sized(1, {"is_disabled", "is_unmapped"})
  @@ Sized(8, {"configured_speed", "firmware_version", "non_volatile_size",
     "volatile_size", "cache_size", "logical_size"})
  @@ Sized(4, {"memory_technology"})
MemoryDeviceMembers ==
  MemoryDeviceArrayMembers @@ MemoryDeviceModuleMembers
  @@ Sized(2, {"pmic0_vendor_id", "pmic0_revision", "rcd_vendor_id", "rcd_revision"})
  @@ Sized(8, {"channel"})
MemoryDeviceFields ==
  Numbers(2, <<"array_handle", "error_info_handle">>)
  \o <<Unknown(AllOnes, Number("total_width", 2)),
        Unknown(AllOnes, Number("data_width", 2)),
        Unknown(AllOnes, Number("size", 2)), Number("form_factor", 1),
        Unknown(AllOnes, Number("device_set", 1))>>
  \o Strs(<<"device_locator", "bank_locator">>)
  \o <<Number("memory_type", 1), Number("memory_type_details", 2)>>
  \o <<GroupSince(V(2, 3)), Number("maximum_speed", 2)>> \o <<Group>>
  \o Strs(<<"vendor", "serial_number", "asset_tag", "part_number">>)
  \o <<GroupSince(V(2, 6)), Before(V(3, 10), Bits("rank", 4)),
        From(V(3, 10), Bits("rank", 5)), From(V(3, 10), Bits("is_disabled", 1)),
        From(V(3, 10), Bits("is_unmapped", 1)), Pad(1)>>
  \o <<GroupSince(V(2, 7)), Extended("size", 4, "size", 32767)>>
  \o <<Group, Number("configured_speed", 2)>> \o <<GroupSince(V(2, 8))>>
  \o Numbers(2, <<"minimum_voltage", "maximum_voltage", "configured_voltage">>)
  \o <<GroupSince(V(3, 2)), Number("memory_technology", 1),
        Number("memory_mode_caps", 2), Str("firmware_version")>>
  \o Numbers(2, <<"module_vendor_id", "module_product_id", "controller_vendor_id",
        "controller_product_id">>)
  \o Numbers(8, <<"non_volatile_size", "volatile_size", "cache_size",
        "logical_size">>)
  \o <<GroupSince(V(3, 3)), Extended("maximum_speed", 4, "maximum_speed", AllOnes),
        Extended("configured_speed", 4, "configured_speed", AllOnes)>>
  \o <<GroupSince(V(3, 7))>>
  \o Numbers(2, <<"pmic0_vendor_id", "pmic0_revision", "rcd_vendor_id",
        "rcd_revision">>)
MemoryDeviceBaseAttributes ==
  Plain({"array_handle", "error_info_handle", "device_locator", "bank_locator"})
  \union {Value("total_width", None, AllOnes), Value("data_width", None, AllOnes),
        Value("size", None, AllOnes), Enum("form_factor",
        MemoryDeviceFormFactorNames, MemoryDeviceFormFactor, 0, 2),
        Value("device_set", None, AllOnes),
        Enum("memory_type", MemoryDeviceTypeNames, MemoryDeviceType, 0, 2),
        Flags("memory_type_details", MemoryDeviceTypeDetailsNames,
        MemoryDeviceTypeDetails)}
MemoryDevice2Attributes ==
  Level(V(2, 3),
        Plain({"vendor", "serial_number", "asset_tag", "part_number"}) \union
        {Value("maximum_speed", None, 0)})
  \union Level(V(2, 6), {Value("rank", None, 0)})
  \union Level(V(3, 10), Plain({"is_disabled", "is_unmapped"}))
  \union Level(V(2, 7), {Value("configured_speed", None, 0)})
  \union Level(V(2, 8), {Value("minimum_voltage", None, 0),
        Value("maximum_voltage", None, 0), Value("configured_voltage", None, 0)})
MemoryDevice3Attributes ==
  Level(V(3, 2), Plain({"memory_mode_caps", "firmware_version"}) \union
        {Enum("memory_technology", MemoryDeviceTechNames, MemoryDeviceTech, 0, 2),
        Value("module_vendor_id", None, 0), Value("module_product_id", None, 0),
        Value("controller_vendor_id", None, 0),
        Value("controller_product_id", None, 0),
        Value("non_volatile_size", None, AllOnes),
        Value("volatile_size", None, AllOnes), Value("cache_size", None, AllOnes),
        Value("logical_size", None, AllOnes)})
  \union Level(V(3, 7), {Value("pmic0_vendor_id", None, 0),
        Value("pmic0_revision", None, 65280), Value("rcd_vendor_id", None, 0),
        Value("rcd_revision", None, 65280)})
MemoryDeviceAttributes ==
  MemoryDeviceBaseAttributes \union MemoryDevice2Attributes
  \union MemoryDevice3Attributes
MemoryDeviceSpec ==
  [type |-> 17, since |-> V(2, 1), minimum |-> 21, handlers |-> {},
   members |-> MemoryDeviceMembers,
   fields |-> MemoryDeviceFields, attributes |-> MemoryDeviceAttributes]

(* Memory device addr                                                      *)
MemoryDeviceAddrMembers ==
  Sized(8, {"start_address", "end_address", "range_size", "device", "array_address"})
  @@ Sized(2, {"device_handle", "array_address_handle", "partition_pos",
     "interleave_pos", "interleave_depth"})
MemoryDeviceAddrSpec ==
  [type |-> 20, since |-> V(2, 1), minimum |-> 19, handlers |-> {"validate", "derive"},
   members |-> MemoryDeviceAddrMembers,
   fields |->
     Numbers(4, <<"start_address", "end_address">>)
     \o Numbers(2, <<"device_handle", "array_address_handle">>)
     \o <<Unknown(AllOnes, Number("partition_pos", 1)),
           Unknown(AllOnes, Number("interleave_pos", 1)),
           Unknown(AllOnes, Number("interleave_depth", 1))>>
     \o <<GroupSince(V(2, 7)), Extended("start_address", 8, "start_address", AllOnes),
           Extended("end_address", 8, "start_address", AllOnes)>>,
   attributes |->
     Plain({"start_address", "end_address", "range_size", "device_handle",
        "array_address_handle"})
     \union {Value("partition_pos", None, AllOnes),
           Value("interleave_pos", None, AllOnes),
           Value("interleave_depth", None, AllOnes)}]

(* Memory error 32                                                         *)
MemoryError32Members ==
  Sized(4, {"type", "granularity", "operation", "vendor_syndrome", "array_address",
     "device_address", "resolution"})
MemoryError32Spec ==
  [type |-> 18, since |-> V(2, 1), minimum |-> 23, handlers |-> {},
   members |-> MemoryError32Members,
   fields |->
     Numbers(1, <<"type", "granularity", "operation">>)
     \o Numbers(4, <<"vendor_syndrome", "array_address", "device_address",
           "resolution">>),
   attributes |->
     Plain({"vendor_syndrome"})
     \union {Enum("type", MemoryErrorTypeNames, MemoryErrorType, 0, 2),
           Enum("granularity", MemoryErrorGranularityNames, MemoryErrorGranularity, 0,
           2), Enum("operation", MemoryErrorOperationNames, MemoryErrorOperation, 0, 2),
           Value("array_address", None, Lowest), Value("device_address", None, Lowest),
           Value("resolution", None, Lowest)}]

(* Memory error 64                                                         *)
MemoryError64Members ==
  Sized(4, {"type", "granularity", "operation", "vendor_syndrome", "resolution"})
  @@ Sized(8, {"array_address", "device_address"})
MemoryError64Spec ==
  [type |-> 33, since |-> V(2, 3), minimum |-> 31, handlers |-> {},
   members |-> MemoryError64Members,
   fields |->
     Numbers(1, <<"type", "granularity", "operation">>)
     \o <<Number("vendor_syndrome", 4)>>
     \o Numbers(8, <<"array_address", "device_address">>) \o <<Number("resolution", 4)>>,
   attributes |->
     Plain({"vendor_syndrome"})
     \union {Enum("type", MemoryErrorTypeNames, MemoryErrorType, 0, 2),
           Enum("granularity", MemoryErrorGranularityNames, MemoryErrorGranularity, 0,
           2), Enum("operation", MemoryErrorOperationNames, MemoryErrorOperation, 0, 2),
           Value("array_address", None, Lowest), Value("device_address", None, Lowest),
           Value("resolution", None, Lowest)}]

(* Memory module                                                           *)
MemoryModuleErrorNames == 0..2
MemoryModuleSizeStatusNames == 0..4
MemoryModuleTypeNames == 0..10
MemoryModuleSizeStatus == 0..4
MemoryModuleError == Unit(1, 8, 0..2)
MemoryModuleType == Unit(2, 16, 0..10)
MemoryModuleMembers ==
  Sized(8, {"controller", "socket"}) @@ Sized(2, {"current_speed", "current_type"})
  @@ Sized(16, {"installed_size", "enabled_size"}) @@ Sized(4, {"bank_connections"})
  @@ Sized(1, {"error_status"})
MemoryModuleSizeMembers == Sized(4, {"bank_count", "status"}) @@ Sized(8, {"value"})
MemoryModuleSpec ==
  [type |-> 6, since |-> V(2, 0), minimum |-> 12, handlers |-> {},
   members |-> MemoryModuleMembers,
   fields |->
     <<Str("socket"), Bits("bank_connections", 4), Bits("bank_connections", 4), Pad(1),
        Number("current_speed", 1), Number("current_type", 2)>>
     \o Numbers(1, <<"installed_size", "enabled_size", "error_status">>),
   attributes |->
     Plain({"socket"})
     \union {Value("bank_connections", 15, None), Value("bank_connections", 15, None),
           Value("current_speed", 0, None),
           Flags("current_type", MemoryModuleTypeNames, MemoryModuleType),
           Struct("installed_size", MemoryModuleSizeMembers, Plain({"bank_count"})
           \union {Value("value", 0, None), Enum("status", MemoryModuleSizeStatusNames,
           MemoryModuleSizeStatus, None, None)}), Struct("enabled_size",
           MemoryModuleSizeMembers, Plain({"bank_count"}) \union
           {Value("value", 0, None), Enum("status", MemoryModuleSizeStatusNames,
           MemoryModuleSizeStatus, None, None)}),
           Flags("error_status", MemoryModuleErrorNames, MemoryModuleError)}]

(* Memory controller                                                       *)
ErrorCorrectCapsNames == 0..5
ErrorDetectMethodNames == 0..8
MemoryInterleaveNames == 0..7
MemoryModuleSpeedNames == 0..4
MemoryModuleVoltageNames == 0..2
ErrorDetectMethod == 0..8
MemoryInterleave == 0..7
ErrorCorrectCaps == Unit(1, 8, 0..5)
MemoryModuleSpeed == Unit(2, 16, 0..4)
MemoryModuleVoltage == Unit(1, 8, 0..2)
MemoryControllerMembers ==
  Sized(8, {"maximum_module_size", "maximum_memory_size", "slot_count",
     "module_handles", "modules"})
  @@ Sized(4, {"error_detection", "supported_interleave", "current_interleave"})
  @@ Sized(1, {"error_correction", "required_voltages", "enabled_error_correction"})
  @@ Sized(2, {"supported_speeds", "supported_types"})
MemoryControllerSpec ==
  [type |-> 5, since |-> V(2, 0), minimum |-> 15, handlers |-> {"derive", "link"},
   members |-> MemoryControllerMembers,
   fields |->
     Numbers(1, <<"error_detection", "error_correction", "supported_interleave",
        "current_interleave", "maximum_module_size">>)
     \o Numbers(2, <<"supported_speeds", "supported_types">>)
     \o <<Number("required_voltages", 1), Counted(1, "",
           Array("module_handles", "slot_count", NoMembers, <<Number("", 2)>>))>>
     \o <<GroupSince(V(2, 1)), Number("enabled_error_correction", 1)>>,
   attributes |->
     Plain({"slot_count"})
     \union {Enum("error_detection", ErrorDetectMethodNames, ErrorDetectMethod, None,
           None), Flags("error_correction", ErrorCorrectCapsNames, ErrorCorrectCaps),
           Enum("supported_interleave", MemoryInterleaveNames, MemoryInterleave, None,
           None), Enum("current_interleave", MemoryInterleaveNames, MemoryInterleave,
           None, None), Value("maximum_module_size", None, AllOnes),
           Value("maximum_memory_size", None, AllOnes),
           Flags("supported_speeds", MemoryModuleSpeedNames, MemoryModuleSpeed),
           Flags("supported_types", MemoryModuleTypeNames, MemoryModuleType),
           Flags("required_voltages", MemoryModuleVoltageNames, MemoryModuleVoltage),
           Each("slot_count", Attr("module_handles"))}
     \union Level(V(2, 1), {Flags("enabled_error_correction", ErrorCorrectCapsNames,
           ErrorCorrectCaps)})]

(* Onboard device                                                          *)
OnboardDeviceTypeNames == 0..18
OnboardDeviceType == 0..18
OnboardDeviceInstanceMembers ==
  Sized(4, {"type"}) @@ Sized(1, {"is_enabled"}) @@ Sized(8, {"description"})
OnboardDeviceMembers == Sized(8, {"instance_count", "instances"})
OnboardDeviceSpec ==
  [type |-> 10, since |-> V(2, 0), minimum |-> 6, handlers |-> {},
   members |-> OnboardDeviceMembers,
   fields |->
     <<ToTheEnd(2, Array("instances", "instance_count", OnboardDeviceInstanceMembers,
        <<Bits("type", 7), Bits("is_enabled", 1), Pad(1), Str("description")>>))>>,
   attributes |->
     Plain({"instance_count"})
     \union {Each("instance_count", Struct("instances", OnboardDeviceInstanceMembers,
           Plain({"is_enabled", "description"}) \union
           {Enum("type", OnboardDeviceTypeNames, OnboardDeviceType, 0, 2)}))}]

(* Onboard device ex                                                       *)
OnboardDeviceExMembers ==
  Sized(8, {"designator"}) @@ Sized(4, {"type"}) @@ Sized(1, {"is_enabled"})
  @@ Sized(2, {"instance"}) @@ Sized(6, {"address"})
OnboardDeviceExSpec ==
  [type |-> 41, since |-> V(2, 6), minimum |-> 11, handlers |-> {},
   members |-> OnboardDeviceExMembers,
   fields |->
     <<Str("designator"), Bits("type", 7), Bits("is_enabled", 1), Pad(1),
        Number("instance", 1), Number("address", 4)>>,
   attributes |->
     Plain({"designator", "is_enabled", "instance"})
     \union {Enum("type", OnboardDeviceTypeNames, OnboardDeviceType, 0, 2),
           Struct("address", PciAddrMembers, PciAddrAttrs)}]

(* Port connector                                                          *)
ConnectorTypeNamesFrom0 == 0..27
ConnectorTypeNames == ConnectorTypeNamesFrom0 \union 28..35 \union 160..164 \union {255}
PortTypeNamesFrom0 == 0..27
PortTypeNames == PortTypeNamesFrom0 \union 28..35 \union {160, 161, 255}
ConnectorType == 0..35 \union 160..164 \union {255}
PortType == 0..35 \union {160, 161, 255}
PortConnectorMembers ==
  Sized(4, {"internal_connector", "external_connector", "port_type"})
  @@ Sized(8, {"internal_designator", "external_designator"})
PortConnectorSpec ==
  [type |-> 8, since |-> V(2, 0), minimum |-> 9, handlers |-> {},
   members |-> PortConnectorMembers,
   fields |->
     <<Str("internal_designator"), Number("internal_connector", 1),
        Str("external_designator")>>
     \o Numbers(1, <<"external_connector", "port_type">>),
   attributes |->
     Plain({"internal_designator", "external_designator"})
     \union {Enum("internal_connector", ConnectorTypeNames, ConnectorType, None, None),
           Enum("external_connector", ConnectorTypeNames, ConnectorType, None, None),
           Enum("port_type", PortTypeNames, PortType, None, None)}]

(* Processor                                                               *)
ProcessorFamilyNamesFrom0 == 0..22 \union 24..29
ProcessorFamilyNamesFrom30 == 30..58
ProcessorFamilyNamesFrom59 == 59..87
ProcessorFamilyNamesFrom88 ==
  {88, 112, 128} \union 96..107 \union 120..122 \union 130..139
ProcessorFamilyNamesFrom140 == 140..150 \union 160..176
ProcessorFamilyNamesFrom177 == 177..205
ProcessorFamilyNamesFrom206 ==
  206..208 \union 210..219 \union 221..224 \union 228..238
ProcessorFamilyNamesFrom239 ==
  {239, 250, 251, 280, 281, 320, 350, 500} \union 254..261 \union 300..302
  \union 512..514 \union 600..606
ProcessorFamilyNamesFrom607 == 607..610 \union 620..625 \union 768..775
ProcessorFamilyNames ==
  ProcessorFamilyNamesFrom0 \union ProcessorFamilyNamesFrom30
  \union ProcessorFamilyNamesFrom59 \union ProcessorFamilyNamesFrom88
  \union ProcessorFamilyNamesFrom140 \union ProcessorFamilyNamesFrom177
  \union ProcessorFamilyNamesFrom206 \union ProcessorFamilyNamesFrom239
  \union ProcessorFamilyNamesFrom607
ProcessorFeaturesNames == 1..9
ProcessorStatusNames == 0..4 \union {7}
ProcessorTypeNames == 0..6
ProcessorUpgradeNamesFrom0 == 0..29
ProcessorUpgradeNamesFrom30 == 30..59
ProcessorUpgradeNames ==
  ProcessorUpgradeNamesFrom0 \union ProcessorUpgradeNamesFrom30
  \union 60..87 \union {255}
ProcessorVoltageNames == 0..2
ProcessorX86FeatureNames == 0..9 \union 11..19 \union 21..29 \union {31}
ProcessorFamilyLow ==
  0..22 \union 24..88 \union 96..107 \union 120..122 \union {112}
ProcessorFamilyHigh ==
  130..150 \union 160..208 \union 210..219 \union 221..224 \union 228..239
  \union {128, 250, 251, 254, 255}
ProcessorFamilyWord ==
  256..261 \union 300..302 \union 512..514 \union 600..610 \union 620..625
  \union 768..775 \union {280, 281, 320, 350, 500}
ProcessorFamily == ProcessorFamilyLow \union ProcessorFamilyHigh \union ProcessorFamilyWord
ProcessorStatus == 0..4 \union {7}
ProcessorType == 0..6
ProcessorUpgrade == 0..87 \union {255}
ProcessorFeatures == Unit(2, 16, 1..9)
ProcessorVoltages == Unit(1, 8, 0..2)
ProcessorArmIdMembers ==
  Sized(1, {"implementer", "variant", "architecture", "revision"})
  @@ Sized(2, {"part_number"})
ProcessorChipMembers ==
  Sized(8, {"socket_designation", "vendor", "arm_id", "soc_id", "version"})
  @@ Sized(4, {"type", "family", "id_format", "status", "upgrade"})
  @@ Sized(2, {"external_clock", "maximum_speed", "current_speed"})
  @@ Sized(1, {"voltage", "supported_voltages", "is_populated"}) @@ Sized(16, {"id"})
  @@ Sized(12, {"x86_id"})
ProcessorMembers ==
  ProcessorChipMembers
  @@ Sized(8, {"l1_cache", "l2_cache", "l3_cache", "serial_number", "asset_tag",
     "part_number", "socket_type"})
  @@ Sized(2, {"l1_cache_handle", "l2_cache_handle", "l3_cache_handle", "features",
     "core_count", "core_enabled", "thread_count", "thread_enabled"})
ProcessorSocIdMembers ==
  Sized(1, {"jep106_bank", "jep106_id"}) @@ Sized(2, {"soc_id"})
  @@ Sized(4, {"soc_revision"})
ProcessorX86IdMembers ==
  Sized(1, {"type", "stepping"}) @@ Sized(2, {"family", "model"})
  @@ Sized(4, {"features"})
ProcessorArmIdAttrs ==
  Plain({"implementer", "variant", "architecture", "part_number", "revision"})
ProcessorSocIdAttrs ==
  Plain({"jep106_bank", "jep106_id", "soc_id", "soc_revision"})
ProcessorX86IdAttrs ==
  Plain({"type", "family", "model", "stepping"})
ProcessorFields ==
  <<Str("socket_designation")>> \o Numbers(1, <<"type", "family">>)
  \o <<Str("vendor"), Binary("id", 8), Str("version"), Number("", 1)>>
  \o Numbers(2, <<"external_clock", "maximum_speed", "current_speed">>)
  \o <<Bits("status", 3), Bits("", 3), Bits("is_populated", 1), Pad(1),
        Number("upgrade", 1)>>
  \o <<GroupSince(V(2, 1)), Preset("l1_cache_handle"), Preset("l2_cache_handle"),
        Preset("l3_cache_handle")>>
  \o Numbers(2, <<"l1_cache_handle", "l2_cache_handle", "l3_cache_handle">>)
  \o <<GroupSince(V(2, 3))>> \o Strs(<<"serial_number", "asset_tag", "part_number">>)
  \o <<GroupSince(V(2, 5))>>
  \o Numbers(1, <<"core_count", "core_enabled", "thread_count">>)
  \o <<Number("features", 2)>>
  \o <<GroupSince(V(2, 6)), Extended("family", 2, "family", 254)>>
  \o <<GroupSince(V(3, 0)), Extended("core_count", 2, "core_count", AllOnes),
        Extended("core_enabled", 2, "core_enabled", AllOnes),
        Extended("thread_count", 2, "thread_count", AllOnes)>>
  \o <<GroupSince(V(3, 6)), Number("thread_enabled", 2)>>
  \o <<GroupSince(V(3, 8)), Str("socket_type")>>
ProcessorBaseAttributes ==
  Plain({"socket_designation", "vendor", "id", "version", "is_populated"})
  \union {Enum("type", ProcessorTypeNames, ProcessorType, 0, 2),
        Enum("family", ProcessorFamilyNames, ProcessorFamily, 0, 2),
        Variant("id_format",
        {Struct("x86_id", ProcessorX86IdMembers, ProcessorX86IdAttrs),
        Struct("arm_id", ProcessorArmIdMembers, ProcessorArmIdAttrs),
        Struct("soc_id", ProcessorSocIdMembers, ProcessorSocIdAttrs)}),
        Variant("id_format", {Flags("x86_id", ProcessorX86FeatureNames, NoBits)}),
        Value("voltage", 0, None),
        Flags("supported_voltages", ProcessorVoltageNames, ProcessorVoltages),
        Value("external_clock", None, 0), Value("maximum_speed", None, 0),
        Value("current_speed", None, 0),
        Enum("status", ProcessorStatusNames, ProcessorStatus, None, 0),
        Enum("upgrade", ProcessorUpgradeNames, ProcessorUpgrade, 0, 2)}
ProcessorLaterAttributes ==
  Level(V(2, 1),
        Plain({"l1_cache_handle", "l2_cache_handle", "l3_cache_handle"}))
  \union Level(V(2, 3), Plain({"serial_number", "asset_tag", "part_number"}))
  \union Level(V(2, 5),
        {Flags("features", ProcessorFeaturesNames, ProcessorFeatures),
        Value("core_count", None, 0), Value("core_enabled", None, 0),
        Value("thread_count", None, 0)})
  \union Level(V(3, 6), {Value("thread_enabled", None, 0)})
  \union Level(V(3, 8), Plain({"socket_type"}))
ProcessorAttributes == ProcessorBaseAttributes \union ProcessorLaterAttributes
ProcessorSpec ==
  [type |-> 4, since |-> V(2, 0), minimum |-> 26, handlers |-> {"derive"},
   members |-> ProcessorMembers,
   fields |-> ProcessorFields, attributes |-> ProcessorAttributes]

(* Processor ex                                                            *)
ProcessorArchNames == 0..10
ProcessorArch == 0..10
ProcessorExMembers ==
  Sized(2, {"processor_handle"}) @@ Sized(8, {"processor"})
  @@ Sized(4, {"architecture"}) @@ Sized(16, {"data"})
ProcessorExSpec ==
  [type |-> 44, since |-> V(3, 3), minimum |-> 6, handlers |-> {},
   members |-> ProcessorExMembers,
   fields |->
     <<Number("processor_handle", 2)>> \o <<Group>>
     \o Numbers(1, <<"data", "architecture">>) \o <<Binary("data", Declared)>>,
   attributes |->
     Plain({"processor_handle", "data"})
     \union {Enum("architecture", ProcessorArchNames, ProcessorArch, None, None)}]

(* Slot                                                                    *)
SlotFeatureExNames == 0..7
SlotFeatureNames == 0..7
SlotHeightNames == 0..4
SlotLengthNames == 0..6
SlotTypeNamesFrom0 == 0..29
SlotTypeNamesFrom30 == 30..40 \union {48} \union 160..176
SlotTypeNames ==
  SlotTypeNamesFrom0 \union SlotTypeNamesFrom30 \union 177..182 \union 184..198
SlotUsageNames == 0..5
SlotWidthNames == 0..14
SlotHeight == 0..4
SlotLength == 0..6
SlotType == 0..40 \union 160..182 \union 184..198 \union {48}
SlotUsage == 0..5
SlotWidth == 0..14
SlotFeatures == Unit(1, 8, 0..7)
SlotFeaturesEx == Unit(1, 8, 0..7)
SlotMembers ==
  Sized(4, {"type", "bus_width", "usage", "length", "base_bus_width", "physical_width",
     "height"})
  @@ Sized(8, {"designator", "peer_group_count", "peer_groups"})
  @@ Sized(1, {"features", "features_ex", "information"})
  @@ Sized(2, {"ident", "pitch"}) @@ Sized(6, {"base_address"})
SlotPeerGroupMembers == Sized(6, {"address"}) @@ Sized(4, {"bus_width"})
SlotFields ==
  <<Str("designator")>> \o Numbers(1, <<"type", "bus_width", "usage", "length">>)
  \o <<Number("ident", 2), Number("features", 1)>>
  \o <<GroupSince(V(2, 1)), Number("features_ex", 1)>>
  \o <<GroupSince(V(2, 6)), Number("base_address", 4)>>
  \o <<GroupSince(V(3, 2)), Number("base_bus_width", 1), Counted(1, "",
        Array("peer_groups", "peer_group_count", SlotPeerGroupMembers,
        <<Number("address", 4), Number("bus_width", 1)>>))>>
  \o <<GroupSince(V(3, 4))>> \o Numbers(1, <<"information", "physical_width">>)
  \o <<Number("pitch", 2)>> \o <<GroupSince(V(3, 5)), Number("height", 1)>>
SlotAttributes ==
  Plain({"designator", "ident"})
  \union {Enum("type", SlotTypeNames, SlotType, 0, 2),
        Enum("bus_width", SlotWidthNames, SlotWidth, 0, 2),
        Enum("usage", SlotUsageNames, SlotUsage, 0, 2),
        Enum("length", SlotLengthNames, SlotLength, 0, 2),
        Flags("features", SlotFeatureNames, SlotFeatures),
        Flags("features_ex", SlotFeatureExNames, SlotFeaturesEx),
        Struct("base_address", PciAddrMembers, PciAddrAttrs),
        Each("peer_group_count", Struct("peer_groups", SlotPeerGroupMembers,
        {Struct("address", PciAddrMembers, PciAddrAttrs),
        Enum("bus_width", SlotWidthNames, SlotWidth, 0, 2)})),
        Value("information", 0, None),
        Enum("physical_width", SlotWidthNames, SlotWidth, 0, 2),
        Value("pitch", 0, None), Enum("height", SlotHeightNames, SlotHeight, 0, 2)}
SlotSpec ==
  [type |-> 9, since |-> V(2, 0), minimum |-> 12, handlers |-> {},
   members |-> SlotMembers,
   fields |-> SlotFields, attributes |-> SlotAttributes]
=============================================================================
