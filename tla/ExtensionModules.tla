-------------------------- MODULE ExtensionModules ---------------------------
(***************************************************************************)
(* The extension modules the library comes with (libopendmi/src/module):   *)
(* the specifications each brings, the numbers of their types, the         *)
(* platforms it is enabled for, and the structures of others it relocates. *)
(* Specifications have the names they have in Entities.  Nothing in the    *)
(* build compares the modules, though two of them may ask for one number.  *)
(***************************************************************************)
EXTENDS Integers, SequencesExt, TLC

-----------------------------------------------------------------------------
(* Platforms, and the conditions modules put on them.                      *)

NoVendor  == "other"
AnyVendor == "any"

AnyPlatform ==
  [firmware |-> AnyVendor, system |-> AnyVendor, baseboard |-> AnyVendor,
   processor |-> AnyVendor, family |-> AnyVendor]

FirmwareOf(vendor)   == [AnyPlatform EXCEPT !.firmware = vendor]
SystemOf(vendor)     == [AnyPlatform EXCEPT !.system = vendor]
ProcessorsOf(vendor) == [AnyPlatform EXCEPT !.processor = vendor]
ServersOf(vendor)    == [FirmwareOf(vendor) EXCEPT !.family = "server"]

Meets(platform, condition) ==
  \A part \in DOMAIN condition : condition[part] \in {AnyVendor, platform[part]}

SuitsModule(platform, module) == \E c \in module.conditions : Meets(platform, c)

(* Generations of servers of HP and HPE; zero is an unknown one.           *)
Gen(n)     == 10 * n
GenPlus(n) == Gen(n) + 5

(* What the name of a product tells: whether it is of a line of servers,   *)
(* the number of its generation, zero if it names none, and "Plus".        *)
Workstation == [server |-> FALSE, number |-> 0, plus |-> FALSE]

HpeGeneration(firmware, product) ==
  IF product.number # 0
  THEN IF product.plus THEN GenPlus(product.number) ELSE Gen(product.number)
  ELSE IF firmware = "hpe" THEN GenPlus(10) ELSE Gen(6)

(* Only the firmware of HP and HPE tells a family and a generation.        *)
IsServer(firmware, product) == firmware \in {"hp", "hpe"} /\ product.server

Vendors(firmware, system, baseboard, processor) ==
  [firmware |-> firmware, system |-> system, baseboard |-> baseboard, processor |-> processor]

Detected(vendors, product) ==
  IF IsServer(vendors.firmware, product)
  THEN [family |-> "server", generation |-> HpeGeneration(vendors.firmware, product)] @@ vendors
  ELSE [family |-> "", generation |-> 0] @@ vendors

-----------------------------------------------------------------------------
(* The specifications built in, by the number of their type.               *)

InvalidType == -1

StandardTypes == (0 .. 46) \union {126, 127}
StandardNames ==
  <<"firmware", "system", "baseboard", "chassis", "processor", "memory_controller",
    "memory_module", "cache", "port_connector", "slot", "onboard_device", "oem_strings",
    "system_config_opts", "firmware_language", "group_assoc", "system_event_log",
    "memory_array", "memory_device", "memory_error_32", "memory_array_addr",
    "memory_device_addr", "pointing_device", "battery", "system_reset",
    "hardware_security", "power_controls", "voltage_probe", "cooling_device",
    "temperature_probe", "current_probe", "oob_remote_access", "bis_entry_point",
    "system_boot", "memory_error_64", "mgmt_device", "mgmt_device_component",
    "mgmt_device_threshold", "memory_channel", "ipmi_device", "power_supply",
    "additional_info", "onboard_device_ex", "mgmt_controller", "tpm_device",
    "processor_ex", "firmware_inventory", "string_property">>
StandardName(type) ==
  CASE type = 126 -> "inactive" [] type = 127 -> "end_of_table"
    [] OTHER      -> StandardNames[type + 1]

-----------------------------------------------------------------------------
(* The modules.  Specifications told by a signature are in signed, and the *)
(* ones bound to generations have a range of them; zero is no bound.       *)

NoModule ==
  [code |-> "", types |-> << >>, entities |-> << >>, signed |-> {}, generations |-> << >>,
   yield |-> FALSE, conditions |-> {}, relocations |-> << >>]

AcerTypes == [acer_hotkeys |-> 170, acer_hotkeys_basic |-> 170, acer_devices |-> 171]
AcerModule ==
  [NoModule EXCEPT
    !.code = "acer", !.types = AcerTypes,
    !.entities = <<"acer_hotkeys", "acer_hotkeys_basic", "acer_devices">>,
    !.signed = {"acer_hotkeys_basic"},
    !.conditions = {FirmwareOf("acer"), SystemOf("acer")}]

AmiTypes == [ami_firewire_guid |-> 139]
AmiModule ==
  [NoModule EXCEPT
    !.code = "ami", !.types = AmiTypes, !.entities = <<"ami_firewire_guid">>,
    !.signed = {"ami_firewire_guid"}, !.conditions = {FirmwareOf("ami")}]

AppleTypes ==
  [apple_firmware_volume |-> 128, apple_memory_spd_data |-> 130,
   apple_processor_type |-> 131, apple_processor_bus_speed |-> 132,
   apple_platform_feature |-> 133, apple_smc_version |-> 134]
AppleModule ==
  [NoModule EXCEPT
    !.code = "apple", !.types = AppleTypes,
    !.entities = <<"apple_firmware_volume", "apple_memory_spd_data", "apple_processor_type",
                   "apple_processor_bus_speed", "apple_platform_feature",
                   "apple_smc_version">>,
    !.conditions = {FirmwareOf("apple")}]

CiscoTypes == [cisco_slot_buses |-> 201, cisco_pci_adapter |-> 202]
CiscoModule ==
  [NoModule EXCEPT
    !.code = "cisco", !.types = CiscoTypes,
    !.entities = <<"cisco_slot_buses", "cisco_pci_adapter">>,
    !.conditions = {FirmwareOf("cisco")}]

DellTypes ==
  [dell_bios_flags |-> 177, dell_hotkeys |-> 178, dell_revisions |-> 208,
   dell_parallel_port |-> 209, dell_serial_port |-> 210, dell_infrared_port |-> 211,
   dell_indexed_io |-> 212, dell_protected_area_1 |-> 213, dell_protected_area_2 |-> 214,
   dell_video_rom |-> 216, dell_calling_iface |-> 218, dell_device_bay |-> 219,
   dell_token_refs_1 |-> 220, dell_token_refs_2 |-> 221, dell_memory_ids |-> 223,
   dell_device_names |-> 225, dell_system_id |-> 255]
DellModule ==
  [NoModule EXCEPT
    !.code = "dell", !.types = DellTypes,
    !.entities = <<"dell_bios_flags", "dell_hotkeys", "dell_revisions", "dell_parallel_port",
                   "dell_serial_port", "dell_infrared_port", "dell_indexed_io",
                   "dell_protected_area_1", "dell_protected_area_2", "dell_video_rom",
                   "dell_calling_iface", "dell_device_bay", "dell_token_refs_1",
                   "dell_token_refs_2", "dell_memory_ids", "dell_device_names",
                   "dell_system_id">>,
    !.signed = {"dell_infrared_port", "dell_token_refs_2", "dell_memory_ids"},
    !.conditions = {FirmwareOf("dell"), SystemOf("dell"), FirmwareOf("unisys")},
    !.relocations = <<[of |-> "intel_mei", type |-> 203], [of |-> "intel_mei", type |-> 219],
                      [of |-> "intel_mei", type |-> 235], [of |-> "intel_fvi", type |-> 205],
                      [of |-> "intel_fvi", type |-> 221], [of |-> "intel_fvi", type |-> 237],
                      [of |-> "intel_svt", type |-> 206],
                      [of |-> "intel_svt_aligned", type |-> 206]>>]

HpeTypes ==
  [hpe_rom_info |-> 193, hpe_super_io |-> 194, hpe_system_id |-> 195, hpe_processor |-> 197,
   hpe_microcode |-> 199, hpe_dimm_location |-> 202, hpe_device_correlation |-> 203,
   hpe_rack_locator |-> 204, hpe_pxe_nic |-> 209, hpe_tcontrol |-> 211, hpe_cru |-> 212,
   hpe_version |-> 216, hpe_proliant_info |-> 219, hpe_iscsi_nic |-> 221,
   hpe_trusted_module |-> 224, hpe_physical_attrs_legacy |-> 226,
   hpe_physical_attrs |-> 226, hpe_reserved_memory |-> 229, hpe_power_supply |-> 230,
   hpe_dimm_attrs |-> 232, hpe_nic_mac |-> 233, hpe_backplane |-> 236,
   hpe_dimm_vendor |-> 237, hpe_usb_port |-> 238, hpe_usb_device |-> 239,
   hpe_inventory |-> 240, hpe_drive |-> 242, hpe_dimm_config |-> 244, hpe_riser |-> 245,
   hpe_mhs_riser |-> 245]

From(n)  == [minimum |-> n, maximum |-> 0]
Until(n) == [minimum |-> 0, maximum |-> n]
HpeGenerations ==
  [hpe_device_correlation |-> From(Gen(9)), hpe_cru |-> Until(Gen(8)),
   hpe_version |-> From(Gen(8)), hpe_iscsi_nic |-> Until(Gen(7)),
   hpe_physical_attrs_legacy |-> Until(Gen(7)), hpe_physical_attrs |-> From(Gen(8)),
   hpe_dimm_attrs |-> From(Gen(9)), hpe_backplane |-> Until(GenPlus(10)),
   hpe_dimm_vendor |-> From(Gen(9)), hpe_usb_port |-> From(Gen(9)),
   hpe_usb_device |-> From(Gen(9)), hpe_drive |-> From(Gen(10))]
HpeModule ==
  [NoModule EXCEPT
    !.code = "hpe", !.types = HpeTypes,
    !.entities = <<"hpe_rom_info", "hpe_super_io", "hpe_system_id", "hpe_processor",
                   "hpe_microcode", "hpe_dimm_location", "hpe_device_correlation",
                   "hpe_rack_locator", "hpe_pxe_nic", "hpe_tcontrol", "hpe_cru",
                   "hpe_version", "hpe_proliant_info", "hpe_iscsi_nic",
                   "hpe_trusted_module", "hpe_physical_attrs_legacy", "hpe_physical_attrs",
                   "hpe_reserved_memory", "hpe_power_supply", "hpe_dimm_attrs",
                   "hpe_nic_mac", "hpe_backplane", "hpe_dimm_vendor", "hpe_usb_port",
                   "hpe_usb_device", "hpe_inventory", "hpe_drive", "hpe_dimm_config",
                   "hpe_riser", "hpe_mhs_riser">>,
    !.signed = {"hpe_riser", "hpe_mhs_riser"},
    !.generations = HpeGenerations,
    !.conditions = {ServersOf("hp"), ServersOf("hpe")},
    !.relocations = <<[of |-> "intel_mei", type |-> InvalidType],
                      [of |-> "intel_fvi", type |-> InvalidType],
                      [of |-> "intel_svt", type |-> InvalidType],
                      [of |-> "intel_svt_aligned", type |-> InvalidType]>>]

IntelTypes ==
  [intel_asf |-> 129, intel_amt |-> 130, intel_vpro |-> 131, intel_platform |-> 148,
   intel_mei |-> 219, intel_fvi |-> 221, intel_svt |-> 222, intel_svt_aligned |-> 222]
IntelModule ==
  [NoModule EXCEPT
    !.code = "intel", !.types = IntelTypes,
    !.entities = <<"intel_asf", "intel_amt", "intel_vpro", "intel_platform", "intel_mei",
                   "intel_fvi", "intel_svt", "intel_svt_aligned">>,
    !.signed = DOMAIN IntelTypes \ {"intel_fvi"},
    !.yield = TRUE,
    !.conditions = {ProcessorsOf("intel")}]

IntelRsdTypes ==
  [intel_rsd_network_card |-> 190, intel_rsd_pcie |-> 192, intel_rsd_processor_cpuid |-> 193,
   intel_rsd_storage_device |-> 194, intel_rsd_tpm |-> 195, intel_rsd_txt |-> 196,
   intel_rsd_memory_device |-> 197, intel_rsd_fpga |-> 198, intel_rsd_cabled_pcie |-> 199,
   intel_rsd_phys_device_mapping |-> 200]
IntelRsdModule ==
  [NoModule EXCEPT
    !.code = "intel-rsd", !.types = IntelRsdTypes,
    !.entities = <<"intel_rsd_cabled_pcie", "intel_rsd_fpga", "intel_rsd_memory_device",
                   "intel_rsd_network_card", "intel_rsd_pcie",
                   "intel_rsd_phys_device_mapping", "intel_rsd_processor_cpuid",
                   "intel_rsd_storage_device", "intel_rsd_tpm", "intel_rsd_txt">>]

LenovoTypes ==
  [lenovo_tvt |-> 131, lenovo_date |-> 134, lenovo_tpm_info |-> 134,
   lenovo_device_presence |-> 135, lenovo_bay_io |-> 135, lenovo_mobile_oem |-> 135,
   lenovo_ecp |-> 140, lenovo_oem |-> 140, lenovo_mtm |-> 200]
LenovoModule ==
  [NoModule EXCEPT
    !.code = "lenovo", !.types = LenovoTypes,
    !.entities = <<"lenovo_tvt", "lenovo_date", "lenovo_tpm_info", "lenovo_mtm",
                   "lenovo_device_presence", "lenovo_bay_io", "lenovo_mobile_oem",
                   "lenovo_ecp", "lenovo_oem">>,
    !.signed = DOMAIN LenovoTypes,
    !.conditions = {FirmwareOf("ibm"), FirmwareOf("lenovo"),
                    SystemOf("ibm"), SystemOf("lenovo")}]

SunTypes ==
  [sun_processor_ex |-> 132, sun_port_ex |-> 136, sun_pcie_root_complex |-> 138,
   sun_memory_array_ex |-> 144, sun_memory_device_ex |-> 145]
SunModule ==
  [NoModule EXCEPT
    !.code = "sun", !.types = SunTypes,
    !.entities = <<"sun_processor_ex", "sun_memory_array_ex", "sun_memory_device_ex",
                   "sun_port_ex", "sun_pcie_root_complex">>]

BuiltinModules ==
  <<AcerModule, AmiModule, AppleModule, CiscoModule, DellModule, HpeModule, IntelModule,
    IntelRsdModule, LenovoModule, SunModule>>

-----------------------------------------------------------------------------
(* The modules in the records TypeMap has of them, for platforms that are  *)
(* given by their names.                                                   *)

AppliesTo(module, name, platform) ==
  name \in DOMAIN module.generations =>
    LET range == module.generations[name]
    IN /\ platform.generation # 0
       /\ platform.generation >= range.minimum
       /\ range.maximum # 0 => platform.generation <= range.maximum

SpecSeen(module, name, seen) ==
  [type |-> module.types[name], platforms |-> {p \in DOMAIN seen : AppliesTo(module, name, seen[p])},
   signed |-> name \in module.signed, name |-> name]

StandardSeen(type, seen) ==
  [type |-> type, platforms |-> DOMAIN seen, signed |-> FALSE, name |-> StandardName(type)]

ModuleSeen(module, seen) ==
  [entities    |-> [k \in DOMAIN module.entities |-> SpecSeen(module, module.entities[k], seen)],
   relocations |-> [k \in DOMAIN module.relocations |->
                     LET r == module.relocations[k]
                     IN [type |-> r.type, spec |-> SpecSeen(IntelModule, r.of, seen)]],
   code        |-> module.code,
   platforms   |-> {p \in DOMAIN seen : SuitsModule(seen[p], module)},
   yield       |-> module.yield]

-----------------------------------------------------------------------------
(* What the modules have to agree on.                                      *)

(* Of a platform nothing but its generation decides what fits.  The first  *)
(* of these has none, like no platform at all.                             *)
Server(n, plus) == [server |-> TRUE, number |-> n, plus |-> plus]
Lines ==
  <<Workstation, Server(7, FALSE), Server(8, FALSE), Server(9, FALSE), Server(10, FALSE),
    Server(10, TRUE), Server(11, FALSE)>>
Seen == [k \in DOMAIN Lines |-> Detected(Vendors("hp", "hp", "hp", "intel"), Lines[k])]

NoSpecSeen == [name |-> "", type |-> InvalidType, signed |-> FALSE, platforms |-> {}]
BuiltInSeen ==
  [t \in 0 .. 255 |-> IF t \in StandardTypes THEN StandardSeen(t, Seen) ELSE NoSpecSeen]
ModulesSeen == [i \in DOMAIN BuiltinModules |-> ModuleSeen(BuiltinModules[i], Seen)]

Whole == INSTANCE TypeMap WITH
  Types <- 0 .. 255, NoType <- InvalidType, NoSpec <- NoSpecSeen, BuiltIn <- BuiltInSeen,
  Signatures <- 3
Fit(modules, platform) == Whole!MapOf(modules, platform).ok

(* A module is never refused on its own: its specifications for one number *)
(* are told apart by signatures or by generations.                         *)
ASSUME ModulesFitAlone ==
  \A m \in Range(ModulesSeen) : \A p \in DOMAIN Seen : Fit(<<m>>, p)

(* Two modules that fit while another is enabled for the platform fit      *)
(* without it as well, whether the platform is kept or not: closing maps   *)
(* the modules again, and takes it for granted that they fit               *)
(* (context.c:228-233).                                                    *)
ASSUME ClosingFits ==
  \A i, j \in DOMAIN ModulesSeen : i < j =>
    LET two == <<ModulesSeen[i], ModulesSeen[j]>>
    IN \A p \in DOMAIN Seen : ~Fit(two, p) \/ ~Fit(two, 1) =>
         \A third \in Range(ModulesSeen) : ~Fit(Append(two, third), p)

=============================================================================
