------------------------------ MODULE Entities ------------------------------
(***************************************************************************)
(* Every specification of a structure the library and its modules declare, *)
(* by the name of its symbol, and what the tables have to agree on for the *)
(* engine which walks them to be right about the structures: a field is    *)
(* laid out by one table, its value is described by another, its name is   *)
(* looked up in a third, and the member they share is declared apart from  *)
(* all of them.  Nothing but these assumptions compares the four.          *)
(***************************************************************************)
EXTENDS SystemEntities, MemoryEntities, ManagementEntities,
        HpeEntities, DellEntities, IntelEntities, VendorEntities

EntitySpecs ==
  [acer_devices |-> AcerDevicesSpec, acer_hotkeys |-> AcerHotkeysSpec,
   acer_hotkeys_basic |-> AcerHotkeysBasicSpec, additional_info |-> AdditionalInfoSpec,
   ami_firewire_guid |-> AmiFirewireGuidSpec,
   apple_firmware_volume |-> AppleFirmwareVolumeSpec,
   apple_memory_spd_data |-> AppleMemorySpdDataSpec,
   apple_platform_feature |-> ApplePlatformFeatureSpec,
   apple_processor_bus_speed |-> AppleProcessorBusSpeedSpec,
   apple_processor_type |-> AppleProcessorTypeSpec,
   apple_smc_version |-> AppleSmcVersionSpec, baseboard |-> BaseboardSpec,
   battery |-> BatterySpec, bis_entry_point |-> BisEntryPointSpec, cache |-> CacheSpec,
   chassis |-> ChassisSpec, cisco_pci_adapter |-> CiscoPciAdapterSpec,
   cisco_slot_buses |-> CiscoSlotBusesSpec, cooling_device |-> CoolingDeviceSpec,
   current_probe |-> CurrentProbeSpec, dell_bios_flags |-> DellBiosFlagsSpec,
   dell_calling_iface |-> DellCallingIfaceSpec, dell_device_bay |-> DellDeviceBaySpec,
   dell_device_names |-> DellDeviceNamesSpec, dell_hotkeys |-> DellHotkeysSpec,
   dell_indexed_io |-> DellIndexedIoSpec, dell_infrared_port |-> DellInfraredPortSpec,
   dell_memory_ids |-> DellMemoryIdsSpec, dell_parallel_port |-> DellParallelPortSpec,
   dell_protected_area_1 |-> DellProtectedArea1Spec,
   dell_protected_area_2 |-> DellProtectedArea2Spec,
   dell_revisions |-> DellRevisionsSpec, dell_serial_port |-> DellSerialPortSpec,
   dell_system_id |-> DellSystemIdSpec, dell_token_refs_1 |-> DellTokenRefs1Spec,
   dell_token_refs_2 |-> DellTokenRefs2Spec, dell_video_rom |-> DellVideoRomSpec,
   firmware |-> FirmwareSpec, firmware_inventory |-> FirmwareInventorySpec,
   firmware_language |-> FirmwareLanguageSpec, group_assoc |-> GroupAssocSpec,
   hardware_security |-> HardwareSecuritySpec, hpe_backplane |-> HpeBackplaneSpec,
   hpe_cru |-> HpeCruSpec, hpe_device_correlation |-> HpeDeviceCorrelationSpec,
   hpe_dimm_attrs |-> HpeDimmAttrsSpec, hpe_dimm_config |-> HpeDimmConfigSpec,
   hpe_dimm_location |-> HpeDimmLocationSpec, hpe_dimm_vendor |-> HpeDimmVendorSpec,
   hpe_drive |-> HpeDriveSpec, hpe_inventory |-> HpeInventorySpec,
   hpe_iscsi_nic |-> HpeIscsiNicSpec, hpe_mhs_riser |-> HpeMhsRiserSpec,
   hpe_microcode |-> HpeMicrocodeSpec, hpe_nic_mac |-> HpeNicMacSpec,
   hpe_physical_attrs |-> HpePhysicalAttrsSpec,
   hpe_physical_attrs_legacy |-> HpePhysicalAttrsLegacySpec,
   hpe_power_supply |-> HpePowerSupplySpec, hpe_processor |-> HpeProcessorSpec,
   hpe_proliant_info |-> HpeProliantInfoSpec, hpe_pxe_nic |-> HpePxeNicSpec,
   hpe_rack_locator |-> HpeRackLocatorSpec,
   hpe_reserved_memory |-> HpeReservedMemorySpec, hpe_riser |-> HpeRiserSpec,
   hpe_rom_info |-> HpeRomInfoSpec, hpe_super_io |-> HpeSuperIoSpec,
   hpe_system_id |-> HpeSystemIdSpec, hpe_tcontrol |-> HpeTcontrolSpec,
   hpe_trusted_module |-> HpeTrustedModuleSpec, hpe_usb_device |-> HpeUsbDeviceSpec,
   hpe_usb_port |-> HpeUsbPortSpec, hpe_version |-> HpeVersionSpec,
   intel_amt |-> IntelAmtSpec, intel_asf |-> IntelAsfSpec, intel_fvi |-> IntelFviSpec,
   intel_mei |-> IntelMeiSpec, intel_platform |-> IntelPlatformSpec,
   intel_rsd_cabled_pcie |-> IntelRsdCabledPcieSpec,
   intel_rsd_fpga |-> IntelRsdFpgaSpec,
   intel_rsd_memory_device |-> IntelRsdMemoryDeviceSpec,
   intel_rsd_network_card |-> IntelRsdNetworkCardSpec,
   intel_rsd_pcie |-> IntelRsdPcieSpec,
   intel_rsd_phys_device_mapping |-> IntelRsdPhysDeviceMappingSpec,
   intel_rsd_processor_cpuid |-> IntelRsdProcessorCpuidSpec,
   intel_rsd_storage_device |-> IntelRsdStorageDeviceSpec,
   intel_rsd_tpm |-> IntelRsdTpmSpec, intel_rsd_txt |-> IntelRsdTxtSpec,
   intel_svt |-> IntelSvtSpec, intel_svt_aligned |-> IntelSvtAlignedSpec,
   intel_vpro |-> IntelVproSpec, ipmi_device |-> IpmiDeviceSpec,
   lenovo_bay_io |-> LenovoBayIoSpec, lenovo_date |-> LenovoDateSpec,
   lenovo_device_presence |-> LenovoDevicePresenceSpec, lenovo_ecp |-> LenovoEcpSpec,
   lenovo_mobile_oem |-> LenovoMobileOemSpec, lenovo_mtm |-> LenovoMtmSpec,
   lenovo_oem |-> LenovoOemSpec, lenovo_tpm_info |-> LenovoTpmInfoSpec,
   lenovo_tvt |-> LenovoTvtSpec, memory_array |-> MemoryArraySpec,
   memory_array_addr |-> MemoryArrayAddrSpec, memory_channel |-> MemoryChannelSpec,
   memory_controller |-> MemoryControllerSpec, memory_device |-> MemoryDeviceSpec,
   memory_device_addr |-> MemoryDeviceAddrSpec, memory_error_32 |-> MemoryError32Spec,
   memory_error_64 |-> MemoryError64Spec, memory_module |-> MemoryModuleSpec,
   mgmt_controller |-> MgmtControllerSpec, mgmt_device |-> MgmtDeviceSpec,
   mgmt_device_component |-> MgmtDeviceComponentSpec,
   mgmt_device_threshold |-> MgmtDeviceThresholdSpec, oem_strings |-> OemStringsSpec,
   onboard_device |-> OnboardDeviceSpec, onboard_device_ex |-> OnboardDeviceExSpec,
   oob_remote_access |-> OobRemoteAccessSpec, pointing_device |-> PointingDeviceSpec,
   port_connector |-> PortConnectorSpec, power_controls |-> PowerControlsSpec,
   power_supply |-> PowerSupplySpec, processor |-> ProcessorSpec,
   processor_ex |-> ProcessorExSpec, slot |-> SlotSpec,
   string_property |-> StringPropertySpec,
   sun_memory_array_ex |-> SunMemoryArrayExSpec,
   sun_memory_device_ex |-> SunMemoryDeviceExSpec,
   sun_pcie_root_complex |-> SunPcieRootComplexSpec, sun_port_ex |-> SunPortExSpec,
   sun_processor_ex |-> SunProcessorExSpec, system |-> SystemSpec,
   system_boot |-> SystemBootSpec, system_config_opts |-> SystemConfigOptsSpec,
   system_event_log |-> SystemEventLogSpec, system_reset |-> SystemResetSpec,
   temperature_probe |-> TemperatureProbeSpec, tpm_device |-> TpmDeviceSpec,
   voltage_probe |-> VoltageProbeSpec]

-----------------------------------------------------------------------------
(* What the tables declare, with the nested lists taken in.                *)

FieldsOf(s) == Range(s.fields)
Nested(attrs)  == attrs \union UNION {a.of : a \in attrs}
AttributesOf(s) == Nested(Nested(s.attributes))

(* Members a field names: the one it is read into, and the ones an array   *)
(* keeps its numbers in.  A part of a nested structure is not told apart.  *)
Named(f) == {f.member, f.present, f.when, f.count_member, f.counter, f.stride_member} \ {""}

Known(members, m) == members = NoMembers \/ m \in DOMAIN members

(* Every value of an enumeration has a name, except the one which stands   *)
(* for not being there, and the one which stands for unknown has one too.  *)
(* A set of bits names bits it has.                                        *)
NamesTheValue(a) ==
  /\ a.kind = "enum" => /\ a.values \subseteq a.names \union {a.unspec}
                        /\ a.unknown \in a.names \union {None}
  /\ a.kind = "flags" /\ a.unit # NoBits =>
       /\ a.names \subseteq 0 .. a.unit.bits - 1
       /\ a.unit.named \subseteq 0 .. a.unit.bits - 1
       /\ a.unit.bits <= 8 * a.unit.bytes
  /\ a.unspec # None => a.unspec # a.unknown

ASSUME CodesAreNamed ==
  \A e \in DOMAIN EntitySpecs : \A a \in AttributesOf(EntitySpecs[e]) : NamesTheValue(a)

(* The tables of a type speak of members its structure has, the nested     *)
(* ones included; a member is as wide as the widest number read into it.   *)
Fits(f, members) ==
  f.kind = "integer" /\ f.member \in DOMAIN members /\ members[f.member] \in {1, 2, 4, 8}
    => f.length <= members[f.member]

ASSUME MembersExist ==
  \A e \in DOMAIN EntitySpecs : LET s == EntitySpecs[e] IN
    /\ \A f \in FieldsOf(s) : Fits(f, s.members)
                              /\ \A m \in Named(f) : Known(s.members, m)
    /\ \A a \in s.attributes : a.kind # "variant" => Known(s.members, a.member)
    /\ \A a \in AttributesOf(s) : a.kind = "struct" =>
         \A b \in a.of : Known(a.members, b.member)

(* A number read as unknown is shown as unknown, an array is counted by    *)
(* the member it is shown by, and no attribute is older than its type.     *)
(* The engine keeps one array and eight governing fields at a time.        *)
ASSUME TablesAgree ==
  \A e \in DOMAIN EntitySpecs : LET s == EntitySpecs[e] IN
    /\ \A f \in FieldsOf(s) : \A a \in s.attributes : a.member = f.member =>
         /\ f.unknown # None => a.unknown = AllOnes
         /\ f.kind = "array" => a.counter = f.counter
    /\ \A a \in s.attributes : a.level # NoVersion => a.level >= s.since
    /\ Cardinality({i \in DOMAIN s.fields : s.fields[i].kind = "array"}) <= 1
    /\ Cardinality({f.when : f \in {g \in FieldsOf(s) : g.extended}}) <= 8

(* A specification is built in at the number of its type, or brought by    *)
(* one module, which has the same number for it.                           *)
Extensions == INSTANCE ExtensionModules

Standard  == {Extensions!StandardName(t) : t \in Extensions!StandardTypes}
Bringing(name) == {m \in Range(Extensions!BuiltinModules) : name \in DOMAIN m.types}

ASSUME SpecsAreBrought ==
  \A e \in DOMAIN EntitySpecs :
    IF e \in Standard
    THEN /\ Extensions!StandardName(EntitySpecs[e].type) = e
         /\ Bringing(e) = {}
    ELSE \E m \in Bringing(e) : /\ Bringing(e) = {m}
                                /\ e \in Range(m.entities)
                                /\ m.types[e] = EntitySpecs[e].type

(* What a module names, and what is built in, has a specification; two of   *)
(* those built in have no fields and are not among them.                   *)
ASSUME BroughtAreSpecs ==
  /\ \A m \in Range(Extensions!BuiltinModules) : DOMAIN m.types \subseteq DOMAIN EntitySpecs
  /\ Standard \ {"inactive", "end_of_table"} \subseteq DOMAIN EntitySpecs

=============================================================================
