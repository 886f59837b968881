------------------------- MODULE ManagementEntities -------------------------
(***************************************************************************)
(* The structures of management, power and sensors, as the specifications  *)
(* of the library declare them: the codes that have names, the             *)
(* enumerators, the bits and the sizes of members, and the fields and      *)
(* attributes of each type.                                                *)
(***************************************************************************)
EXTENDS CommonEntities

(* Battery                                                                 *)
BatteryChemistryNames == 0..8
BatteryChemistry == 0..8
BatteryMembers ==
  Sized(8, {"location", "vendor", "manufacture_date_string", "serial_number", "name",
     "sbds_version", "sbds_chemistry"})
  @@ Sized(4, {"manufacture_date", "chemistry", "capacity", "sbds_manufacture_date",
     "oem_defined"})
  @@ Sized(2, {"design_capacity", "voltage", "maximum_error", "sbds_serial_number"})
  @@ Sized(1, {"design_capacity_multiplier"})
BatterySpec ==
  [type |-> 22, since |-> V(2, 1), minimum |-> 16, handlers |-> {"derive"},
   members |-> BatteryMembers,
   fields |->
     Strs(<<"location", "vendor", "manufacture_date_string", "serial_number", "name">>)
     \o <<Number("chemistry", 1)>> \o Numbers(2, <<"design_capacity", "voltage">>)
     \o <<Str("sbds_version"), Unknown(AllOnes, Number("maximum_error", 1))>>
     \o <<GroupSince(V(2, 2))>>
     \o Numbers(2, <<"sbds_serial_number", "sbds_manufacture_date">>)
     \o <<Str("sbds_chemistry"), Preset("design_capacity_multiplier"),
           Number("design_capacity_multiplier", 1), Number("oem_defined", 4)>>,
   attributes |->
     Plain({"location", "vendor", "serial_number", "name", "sbds_version"})
     \union {Value("manufacture_date", 0, None),
           Enum("chemistry", BatteryChemistryNames, BatteryChemistry, 0, 2),
           Value("capacity", None, 0), Value("voltage", None, 0),
           Value("maximum_error", None, AllOnes)}
     \union Level(V(2, 2),
           Plain({"sbds_serial_number", "sbds_chemistry", "oem_defined"}))]

(* Cooling device                                                          *)
CoolingDeviceTypeNames == 0..9 \union {16, 17}
CoolingDeviceType == 0..9 \union {16, 17}
CoolingDeviceMembers ==
  Sized(2, {"probe_handle", "group", "nominal_speed"})
  @@ Sized(4, {"type", "status", "oem_defined"}) @@ Sized(8, {"probe", "description"})
CoolingDeviceSpec ==
  [type |-> 27, since |-> V(2, 2), minimum |-> 12, handlers |-> {},
   members |-> CoolingDeviceMembers,
   fields |->
     <<Number("probe_handle", 2), Bits("type", 5), Bits("status", 3), Pad(1),
        Number("group", 1), Number("oem_defined", 4), Preset("nominal_speed")>>
     \o <<Group, Number("nominal_speed", 2)>>
     \o <<GroupSince(V(2, 7)), Str("description")>>,
   attributes |->
     Plain({"probe_handle", "group", "oem_defined"})
     \union {Enum("type", CoolingDeviceTypeNames, CoolingDeviceType, 0, 2),
           Enum("status", StatusNames, Status, 0, 2),
           Value("nominal_speed", None, Lowest)}
     \union Level(V(2, 7), Plain({"description"}))]

(* Current probe                                                           *)
CurrentProbeSpec ==
  [type |-> 29, since |-> V(2, 2), minimum |-> 20, handlers |-> {},
   members |-> ProbeMembers,
   fields |->
     ProbeFields,
   attributes |->
     Plain({"description", "oem_defined"})
     \union {Enum("location", ProbeLocationNames, NoValues, 0, 2),
           Enum("status", StatusNames, NoValues, 0, 2),
           Value("maximum_value", None, Lowest), Value("minimum_value", None, Lowest),
           Value("resolution", None, Lowest), Value("tolerance", None, Lowest),
           Value("accuracy", None, Lowest), Value("nominal_value", None, Lowest)}]

(* Hardware security                                                       *)
HardwareSecurityStatusNames == 0..3
HardwareSecurityStatus == 0..3
HardwareSecurityMembers ==
  Sized(4, {"front_panel_reset", "admin_password", "keyboard_password",
     "poweron_password"})
HardwareSecuritySpec ==
  [type |-> 24, since |-> V(2, 2), minimum |-> 5, handlers |-> {},
   members |-> HardwareSecurityMembers,
   fields |->
     <<Bits("front_panel_reset", 2), Bits("admin_password", 2),
        Bits("keyboard_password", 2), Bits("poweron_password", 2), Pad(1)>>,
   attributes |->
     {Enum("front_panel_reset", HardwareSecurityStatusNames, HardwareSecurityStatus,
        None, 3), Enum("admin_password", HardwareSecurityStatusNames,
        HardwareSecurityStatus, None, 3), Enum("keyboard_password",
        HardwareSecurityStatusNames, HardwareSecurityStatus, None, 3),
        Enum("poweron_password", HardwareSecurityStatusNames, HardwareSecurityStatus,
        None, 3)}]

(* IPMI device                                                             *)
IpmiAddrTypeNames == 0..2
IpmiIfaceTypeNames == 0..4
IpmiIntrPolarityNames == 0..2
IpmiIntrTriggerModeNames == 0..2
IpmiAddrType == 0..2
IpmiIfaceType == 0..4
IpmiIntrPolarity == 0..2
IpmiIntrTriggerMode == 0..2
IpmiDeviceMembers ==
  Sized(4, {"interface_type", "specification_version", "base_address_type",
     "interrupt_trigger_mode", "interrupt_polarity"})
  @@ Sized(2, {"i2c_target_address", "register_spacing", "interrupt_number"})
  @@ Sized(1, {"nv_storage_address", "base_address_lsb"}) @@ Sized(8, {"base_address"})
IpmiDeviceSpec ==
  [type |-> 38, since |-> V(2, 3), minimum |-> 16, handlers |-> {},
   members |-> IpmiDeviceMembers,
   fields |->
     Numbers(1, <<"interface_type", "specification_version", "i2c_target_address",
        "nv_storage_address">>)
     \o <<Number("", 8)>> \o <<Group, Number("", 1), Number("interrupt_number", 1)>>,
   attributes |->
     Plain({"specification_version", "i2c_target_address"})
     \union {Enum("interface_type", IpmiIfaceTypeNames, IpmiIfaceType, None, None),
           Value("nv_storage_address", AllOnes, None),
           Variant("base_address_type", Plain({"base_address"})),
           Variant("base_address_type", Plain({"base_address_lsb"})),
           Enum("base_address_type", IpmiAddrTypeNames, IpmiAddrType, None, None),
           Enum("interrupt_trigger_mode", IpmiIntrTriggerModeNames, IpmiIntrTriggerMode,
           0, None), Enum("interrupt_polarity", IpmiIntrPolarityNames, IpmiIntrPolarity,
           0, None), Value("interrupt_number", 0, None), Variant("base_address_type",
           {Value("register_spacing", 0, None), Value("register_spacing", 0, None)})}]

(* Mgmt controller                                                         *)
MgmtIfaceTypeNames == 2..15 \union {64, 240}
MgmtNhiCharNames == {0}
MgmtNhiDeviceTypeNames == 2..5 \union 128..255
MgmtProtoNames == 2..4 \union {240}
MgmtRedfishIpAssignmentNames == 0..4
MgmtRedfishIpFormatNames == 0..2
MgmtIfaceType == 2..15 \union {64, 240}
MgmtNhiDeviceType == 2..5 \union {128, 255}
MgmtProto == 2..4 \union {240}
MgmtRedfishIpAssignment == 0..4
MgmtRedfishIpFormat == 0..2
MgmtControllerMembers ==
  Sized(8, {"proto_records_count", "proto_records"}) @@ Sized(4, {"interface_type"})
  @@ Sized(16, {"interface_data"}) @@ Sized(1, {"has_nhi"}) @@ Sized(152, {"nhi"})
MgmtNhiMembers ==
  Sized(4, {"device_type", "format"}) @@ Sized(16, {"descriptor", "usb"})
  @@ Sized(40, {"usb_v2", "pci_v2"}) @@ Sized(8, {"pci"}) @@ Sized(24, {"oem"})
MgmtNhiOemMembers == Sized(4, {"vendor_iana"}) @@ Sized(16, {"vendor_data"})
MgmtNhiPciMembers ==
  Sized(2, {"vendor_id", "device_id", "subsystem_vendor_id", "subsystem_id"})
MgmtNhiPciV2Members ==
  Sized(2, {"vendor_id", "device_id", "subsystem_vendor_id", "subsystem_id",
     "segment_group", "characteristics", "credential_bootstrapping_handle"})
  @@ Sized(1, {"bus_number", "device_number", "function_number"})
  @@ Sized(16, {"mac_address"})
MgmtNhiUsbMembers ==
  Sized(2, {"vendor_id", "product_id"}) @@ Sized(8, {"serial_number"})
MgmtNhiUsbV2Members ==
  Sized(2, {"vendor_id", "product_id", "characteristics",
     "credential_bootstrapping_handle"})
  @@ Sized(8, {"serial_number"}) @@ Sized(16, {"mac_address"})
MgmtProtoRecordMembers ==
  Sized(4, {"type"}) @@ Sized(16, {"data"}) @@ Sized(1, {"has_redfish"})
  @@ Sized(112, {"redfish"})
MgmtRedfishOverIpMembers ==
  Sized(16, {"service_uuid", "host_ip_address", "host_ip_mask", "service_ip_address",
     "service_ip_mask"})
  @@ Sized(4, {"host_ip_assignment", "host_ip_format", "service_ip_discovery",
     "service_ip_format", "service_vlan_id"})
  @@ Sized(2, {"service_ip_port"}) @@ Sized(8, {"service_hostname"})
MgmtNhiOemAttrs ==
  Plain({"vendor_iana", "vendor_data"})
MgmtNhiPciAttrs ==
  Plain({"vendor_id", "device_id", "subsystem_vendor_id", "subsystem_id"})
MgmtNhiPciV2Attrs ==
  Plain({"vendor_id", "device_id", "subsystem_vendor_id", "subsystem_id", "mac_address",
     "segment_group", "bus_number", "device_number", "function_number",
     "credential_bootstrapping_handle"})
  \union {Flags("characteristics", MgmtNhiCharNames, NoBits)}
MgmtNhiUsbAttrs ==
  Plain({"vendor_id", "product_id", "serial_number"})
MgmtNhiUsbV2Attrs ==
  Plain({"vendor_id", "product_id", "serial_number", "mac_address",
     "credential_bootstrapping_handle"})
  \union {Flags("characteristics", MgmtNhiCharNames, NoBits)}
MgmtNhiAttrs ==
  {Enum("device_type", MgmtNhiDeviceTypeNames, MgmtNhiDeviceType, None, None),
     Variant("format", Plain({"descriptor"}) \union
     {Struct("usb", MgmtNhiUsbMembers, MgmtNhiUsbAttrs),
     Struct("pci", MgmtNhiPciMembers, MgmtNhiPciAttrs),
     Struct("usb_v2", MgmtNhiUsbV2Members, MgmtNhiUsbV2Attrs),
     Struct("pci_v2", MgmtNhiPciV2Members, MgmtNhiPciV2Attrs),
     Struct("oem", MgmtNhiOemMembers, MgmtNhiOemAttrs)})}
MgmtRedfishOverIpAttrs ==
  Plain({"service_uuid", "service_ip_port", "service_vlan_id", "service_hostname"})
  \union {Enum("host_ip_assignment", MgmtRedfishIpAssignmentNames,
        MgmtRedfishIpAssignment, None, None), Enum("host_ip_format",
        MgmtRedfishIpFormatNames, MgmtRedfishIpFormat, None, None),
        Variant("host_ip_format", Plain({"host_ip_address"})),
        Variant("host_ip_format", Plain({"host_ip_mask"})), Enum("service_ip_discovery",
        MgmtRedfishIpAssignmentNames, MgmtRedfishIpAssignment, None, None),
        Enum("service_ip_format", MgmtRedfishIpFormatNames, MgmtRedfishIpFormat, None,
        None), Variant("service_ip_format", Plain({"service_ip_address"})),
        Variant("service_ip_format", Plain({"service_ip_mask"}))}
MgmtProtoRecordAttrs ==
  {Enum("type", MgmtProtoNames, MgmtProto, None, None), Variant("has_redfish",
     Plain({"data"}) \union
     {Struct("redfish", MgmtRedfishOverIpMembers, MgmtRedfishOverIpAttrs)})}
MgmtControllerSpec ==
  [type |-> 42, since |-> V(2, 7), minimum |-> 6, handlers |-> {"decode", "encode", "cleanup"},
   members |-> MgmtControllerMembers,
   fields |->
     NoFields,
   attributes |->
     {Enum("interface_type", MgmtIfaceTypeNames, MgmtIfaceType, None, None),
        Variant("has_nhi", Plain({"interface_data"}) \union
        {Struct("nhi", MgmtNhiMembers, MgmtNhiAttrs)})}
     \union Level(V(3, 2), {Each("proto_records_count",
           Struct("proto_records", MgmtProtoRecordMembers, MgmtProtoRecordAttrs))})]

(* Mgmt device                                                             *)
MgmtDeviceAddrTypeNames == 0..5
MgmtDeviceTypeNames == 0..13
MgmtDeviceAddrType == 0..5
MgmtDeviceType == 0..13
MgmtDeviceMembers ==
  Sized(4, {"type", "address", "address_type"}) @@ Sized(8, {"description"})
MgmtDeviceSpec ==
  [type |-> 34, since |-> V(2, 3), minimum |-> 11, handlers |-> {},
   members |-> MgmtDeviceMembers,
   fields |->
     <<Str("description"), Number("type", 1), Number("address", 4),
        Number("address_type", 1)>>,
   attributes |->
     Plain({"description", "address"})
     \union {Enum("type", MgmtDeviceTypeNames, MgmtDeviceType, 0, 2),
           Enum("address_type", MgmtDeviceAddrTypeNames, MgmtDeviceAddrType, 0, 2)}]

(* Mgmt device component                                                   *)
MgmtDeviceComponentMembers ==
  Sized(8, {"description", "device", "component", "threshold"})
  @@ Sized(2, {"device_handle", "component_handle", "threshold_handle"})
MgmtDeviceComponentSpec ==
  [type |-> 35, since |-> V(2, 3), minimum |-> 11, handlers |-> {"link"},
   members |-> MgmtDeviceComponentMembers,
   fields |->
     <<Str("description")>>
     \o Numbers(2, <<"device_handle", "component_handle", "threshold_handle">>),
   attributes |->
     Plain({"description", "device_handle", "component_handle", "threshold_handle"})]

(* Mgmt device threshold                                                   *)
MgmtDeviceThresholdMembers ==
  Sized(2, {"lower_non_critical", "upper_non_critical", "lower_critical",
     "upper_critical", "lower_non_recoverable", "upper_non_recoverable"})
  @@ Sized(4, {"component_type"}) @@ Sized(1, {"is_ambiguous"})
MgmtDeviceThresholdSpec ==
  [type |-> 36, since |-> V(2, 3), minimum |-> 16, handlers |-> {},
   members |-> MgmtDeviceThresholdMembers,
   fields |->
     <<Preset("component_type")>>
     \o Numbers(2, <<"lower_non_critical", "upper_non_critical", "lower_critical",
           "upper_critical", "lower_non_recoverable", "upper_non_recoverable">>),
   attributes |->
     {Variant("component_type", {Value("lower_non_critical", None, Lowest),
        Value("lower_non_critical", None, Lowest),
        Value("lower_non_critical", None, Lowest),
        Value("lower_non_critical", None, Lowest),
        Value("lower_non_critical", None, Lowest)}), Variant("component_type",
        {Value("upper_non_critical", None, Lowest),
        Value("upper_non_critical", None, Lowest),
        Value("upper_non_critical", None, Lowest),
        Value("upper_non_critical", None, Lowest),
        Value("upper_non_critical", None, Lowest)}), Variant("component_type",
        {Value("lower_critical", None, Lowest), Value("lower_critical", None, Lowest),
        Value("lower_critical", None, Lowest), Value("lower_critical", None, Lowest),
        Value("lower_critical", None, Lowest)}), Variant("component_type",
        {Value("upper_critical", None, Lowest), Value("upper_critical", None, Lowest),
        Value("upper_critical", None, Lowest), Value("upper_critical", None, Lowest),
        Value("upper_critical", None, Lowest)}), Variant("component_type",
        {Value("lower_non_recoverable", None, Lowest),
        Value("lower_non_recoverable", None, Lowest),
        Value("lower_non_recoverable", None, Lowest),
        Value("lower_non_recoverable", None, Lowest),
        Value("lower_non_recoverable", None, Lowest)}), Variant("component_type",
        {Value("upper_non_recoverable", None, Lowest),
        Value("upper_non_recoverable", None, Lowest),
        Value("upper_non_recoverable", None, Lowest),
        Value("upper_non_recoverable", None, Lowest),
        Value("upper_non_recoverable", None, Lowest)})}]

(* OOB remote access                                                       *)
OobConnectionNames == {0, 1}
OobConnections == Unit(1, 8, {0, 1})
OobRemoteAccessMembers == Sized(8, {"vendor"}) @@ Sized(1, {"connections"})
OobRemoteAccessSpec ==
  [type |-> 30, since |-> V(2, 2), minimum |-> 6, handlers |-> {},
   members |-> OobRemoteAccessMembers,
   fields |->
     <<Str("vendor"), Number("connections", 1)>>,
   attributes |->
     Plain({"vendor"}) \union {Flags("connections", OobConnectionNames, OobConnections)}]

(* Power controls                                                          *)
PowerControlsMembers ==
  Sized(2, {"poweron_month", "poweron_day", "poweron_hour", "poweron_minute",
     "poweron_second"})
PowerControlsSpec ==
  [type |-> 25, since |-> V(2, 2), minimum |-> 9, handlers |-> {},
   members |-> PowerControlsMembers,
   fields |->
     <<Unknown(AllOnes, Bcd("poweron_month", 1)),
        Unknown(AllOnes, Bcd("poweron_day", 1)),
        Unknown(AllOnes, Bcd("poweron_hour", 1)),
        Unknown(AllOnes, Bcd("poweron_minute", 1)),
        Unknown(AllOnes, Bcd("poweron_second", 1))>>,
   attributes |->
     {Value("poweron_month", None, AllOnes), Value("poweron_day", None, AllOnes),
        Value("poweron_hour", None, AllOnes), Value("poweron_minute", None, AllOnes),
        Value("poweron_second", None, AllOnes)}]

(* Power supply                                                            *)
PowerSupplyTypeNames == 0..8
RangeSwitchingTypeNames == 0..6
PowerSupplyType == 0..8
RangeSwitchingType == 0..6
PowerSupplyMembers ==
  Sized(8, {"location", "name", "vendor", "serial_number", "asset_tag", "part_number",
     "revision", "voltage_probe", "cooling_device", "current_probe"})
  @@ Sized(2, {"group", "maximum_capacity", "voltage_probe_handle",
     "cooling_device_handle", "current_probe_handle"})
  @@ Sized(1, {"hot_swappable", "present", "unplugged"})
  @@ Sized(4, {"range_switching", "status", "type"})
PowerSupplySpec ==
  [type |-> 39, since |-> V(2, 3), minimum |-> 16, handlers |-> {},
   members |-> PowerSupplyMembers,
   fields |->
     <<Number("group", 1)>>
     \o Strs(<<"location", "name", "vendor", "serial_number", "asset_tag",
           "part_number", "revision">>)
     \o <<Number("maximum_capacity", 2), Offset(14), Bits("hot_swappable", 1),
           Bits("present", 1), Bits("unplugged", 1), Bits("range_switching", 4),
           Bits("status", 3), Bits("type", 4), Pad(2), Offset(16)>>
     \o <<Group>>
     \o Numbers(2, <<"voltage_probe_handle", "cooling_device_handle",
           "current_probe_handle">>),
   attributes |->
     Plain({"group", "location", "name", "vendor", "serial_number", "asset_tag",
        "part_number", "revision", "hot_swappable", "present", "unplugged",
        "voltage_probe_handle", "cooling_device_handle", "current_probe_handle"})
     \union {Value("maximum_capacity", None, Lowest), Enum("range_switching",
           RangeSwitchingTypeNames, RangeSwitchingType, None, None),
           Enum("status", StatusNames, Status, None, None),
           Enum("type", PowerSupplyTypeNames, PowerSupplyType, None, None)}]

(* System boot                                                             *)
BootStatusNames == 0..255
BootStatus == 0..8
SystemBootMembers ==
  Sized(4, {"status"}) @@ Sized(16, {"status_data"}) @@ Sized(1, {"has_status_data"})
SystemBootSpec ==
  [type |-> 32, since |-> V(0, 0), minimum |-> 11, handlers |-> {"derive"},
   members |-> SystemBootMembers,
   fields |->
     <<Skip(6), Number("status", 1), Binary("status_data", Rest)>>,
   attributes |->
     {Enum("status", BootStatusNames, BootStatus, None, None),
        Variant("has_status_data", Plain({"status_data"}))}]

(* System event log                                                        *)
EventLogDataFormatNames == 0..255
EventLogTypeNames == 1..14 \union 16..255
SystemLogAccessMethodNames == 0..4 \union 128..255
SystemLogHeaderFormatNames == 128..255 \union {0, 1}
SystemLogStatusNames == {0, 1}
EventLogDataFormat == 0..6
EventLogType == 1..14 \union 16..23 \union {255}
SystemLogAccessMethod == 0..4 \union {128, 255}
SystemLogHeaderFormat == {0, 1, 128, 255}
SystemLogStatus == Unit(1, 8, {0, 1})
SystemEventLogMembers ==
  Sized(4, {"access_method", "access_address", "access_ports", "change_token",
     "header_format"})
  @@ Sized(2, {"area_length", "header_offset", "data_offset", "access_gpnv_handle"})
  @@ Sized(8, {"descriptor_count", "descriptors"}) @@ Sized(1, {"status"})
SystemLogIoPortsMembers == Sized(2, {"index_port", "data_port"})
SystemLogTypeDescriptorMembers == Sized(4, {"type", "data_format"})
SystemLogIoPortsAttrs ==
  Plain({"index_port", "data_port"})
SystemLogTypeDescriptorAttrs ==
  {Enum("type", EventLogTypeNames, EventLogType, None, None), Enum("data_format",
     EventLogDataFormatNames, EventLogDataFormat, None, None)}
SystemEventLogSpec ==
  [type |-> 15, since |-> V(2, 0), minimum |-> 20, handlers |-> {"derive"},
   members |-> SystemEventLogMembers,
   fields |->
     Numbers(2, <<"area_length", "header_offset", "data_offset">>)
     \o Numbers(1, <<"access_method", "status">>)
     \o Numbers(4, <<"change_token", "access_address">>)
     \o <<GroupSince(V(2, 1)), Number("header_format", 1), Strided(1, 2, "", Counted(1,
           "", Array("descriptors", "descriptor_count", SystemLogTypeDescriptorMembers,
           Numbers(1, <<"type", "data_format">>))))>>,
   attributes |->
     Plain({"area_length", "header_offset", "data_offset", "change_token"})
     \union {Enum("access_method", SystemLogAccessMethodNames, SystemLogAccessMethod,
           None, None), Variant("access_method",
           Plain({"access_address", "access_gpnv_handle"}) \union
           {Struct("access_ports", SystemLogIoPortsMembers, SystemLogIoPortsAttrs),
           Struct("access_ports", SystemLogIoPortsMembers, SystemLogIoPortsAttrs),
           Struct("access_ports", SystemLogIoPortsMembers, SystemLogIoPortsAttrs)}),
           Flags("status", SystemLogStatusNames, SystemLogStatus)}
     \union Level(V(2, 1), {Enum("header_format", SystemLogHeaderFormatNames,
           SystemLogHeaderFormat, None, None), Each("descriptor_count",
           Struct("descriptors", SystemLogTypeDescriptorMembers,
           SystemLogTypeDescriptorAttrs))})]

(* System reset                                                            *)
BootOptionNames == 0..3
BootOption == 0..3
SystemResetMembers ==
  Sized(2, {"reset_count", "reset_limit", "timer_interval", "timeout"})
  @@ Sized(1, {"is_enabled", "has_watchdog"})
  @@ Sized(4, {"boot_on_watchdog", "boot_on_limit"})
SystemResetSpec ==
  [type |-> 23, since |-> V(2, 2), minimum |-> 13, handlers |-> {},
   members |-> SystemResetMembers,
   fields |->
     <<Bits("is_enabled", 1), Bits("boot_on_watchdog", 2), Bits("boot_on_limit", 2),
        Bits("has_watchdog", 1), Pad(1)>>
     \o Numbers(2, <<"reset_count", "reset_limit", "timer_interval", "timeout">>),
   attributes |->
     Plain({"is_enabled", "has_watchdog"})
     \union {Enum("boot_on_watchdog", BootOptionNames, BootOption, None, None),
           Enum("boot_on_limit", BootOptionNames, BootOption, None, None),
           Value("reset_count", None, AllOnes), Value("reset_limit", None, AllOnes),
           Value("timer_interval", None, AllOnes), Value("timeout", None, AllOnes)}]

(* Temperature probe                                                       *)
TemperatureProbeSpec ==
  [type |-> 28, since |-> V(2, 2), minimum |-> 20, handlers |-> {},
   members |-> ProbeMembers,
   fields |->
     ProbeFields,
   attributes |->
     Plain({"description", "oem_defined"})
     \union {Enum("location", ProbeLocationNames, NoValues, 0, 2),
           Enum("status", StatusNames, NoValues, 0, 2),
           Value("maximum_value", None, Lowest), Value("minimum_value", None, Lowest),
           Value("resolution", None, Lowest), Value("tolerance", None, Lowest),
           Value("accuracy", None, Lowest), Value("nominal_value", None, Lowest)}]

(* TPM device                                                              *)
TpmDeviceCharsNames == 2..5
TpmDeviceChars == Unit(8, 64, 0..63)
TpmDeviceMembers ==
  Sized(8, {"vendor", "firmware_version", "firmware_version_2", "description",
     "characteristics"})
  @@ Sized(4, {"specification_version", "firmware_version_format", "firmware_revision",
     "oem_defined"})
  @@ Sized(16, {"vendor_raw"})
TpmFirmwareVersionMembers ==
  Sized(2, {"major", "minor"}) @@ Sized(4, {"vendor_specific"})
TpmDeviceSpec ==
  [type |-> 43, since |-> V(3, 1), minimum |-> 31, handlers |-> {"derive"},
   members |-> TpmDeviceMembers,
   fields |->
     <<Binary("vendor_raw", 4), Number("specification_version", 2),
        Number("firmware_version", 8), Str("description"), Number("characteristics", 8),
        Number("oem_defined", 4)>>,
   attributes |->
     Plain({"vendor", "specification_version", "description", "oem_defined"})
     \union {Variant("firmware_version_format",
           Plain({"firmware_revision", "firmware_version"}) \union
           {Struct("firmware_version_2", TpmFirmwareVersionMembers,
           Plain({"major", "minor", "vendor_specific"}))}),
           Flags("characteristics", TpmDeviceCharsNames, TpmDeviceChars)}]

(* Voltage probe                                                           *)
VoltageProbeSpec ==
  [type |-> 26, since |-> V(2, 2), minimum |-> 20, handlers |-> {},
   members |-> ProbeMembers,
   fields |->
     ProbeFields,
   attributes |->
     Plain({"description", "oem_defined"})
     \union {Enum("location", ProbeLocationNames, NoValues, 0, 2),
           Enum("status", StatusNames, NoValues, 0, 2),
           Value("maximum_value", None, Lowest), Value("minimum_value", None, Lowest),
           Value("resolution", None, Lowest), Value("tolerance", None, Lowest),
           Value("accuracy", None, Lowest), Value("nominal_value", None, Lowest)}]
=============================================================================
