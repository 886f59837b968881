--------------------------- MODULE SystemEntities ---------------------------
(***************************************************************************)
(* The structures of the system, its firmware and its enclosure, as the    *)
(* specifications of the library declare them: the codes that have names,  *)
(* the enumerators, the bits and the sizes of members, and the fields and  *)
(* attributes of each type.                                                *)
(***************************************************************************)
EXTENDS CommonEntities

(* Additional info                                                         *)
AdditionalInfoEntryMembers ==
  Sized(2, {"referenced_handle"}) @@ Sized(4, {"referenced_offset"})
  @@ Sized(8, {"string"}) @@ Sized(16, {"value"})
AdditionalInfoMembers == Sized(8, {"entry_count", "entries"})
AdditionalInfoSpec ==
  [type |-> 40, since |-> V(2, 6), minimum |-> 11, handlers |-> {"decode", "encode", "cleanup"},
   members |-> AdditionalInfoMembers,
   fields |->
     NoFields,
   attributes |->
     {Each("entry_count", Struct("entries", AdditionalInfoEntryMembers,
        Plain({"referenced_handle", "referenced_offset", "string", "value"})))}]

(* Baseboard                                                               *)
BaseboardFeatureNames == 0..4
BaseboardTypeNames == 0..13
BaseboardType == 0..13
BaseboardFeatures == Unit(1, 8, 0..4)
BaseboardMembers ==
  Sized(8, {"vendor", "product", "version", "serial_number", "asset_tag", "location",
     "chassis", "object_count", "object_handles", "objects"})
  @@ Sized(1, {"features"}) @@ Sized(2, {"chassis_handle"}) @@ Sized(4, {"type"})
BaseboardSpec ==
  [type |-> 2, since |-> V(2, 0), minimum |-> 8, handlers |-> {},
   members |-> BaseboardMembers,
   fields |->
     Strs(<<"vendor", "product", "version", "serial_number">>)
     \o <<Group, Str("asset_tag")>> \o <<Group, Number("features", 1)>>
     \o <<Group, Str("location"), Preset("chassis_handle"), Number("chassis_handle", 2),
           Number("type", 1)>>
     \o <<Group, Counted(1, "",
           Array("object_handles", "object_count", NoMembers, <<Number("", 2)>>))>>,
   attributes |->
     Plain({"vendor", "product", "version", "serial_number", "asset_tag", "location"})
     \union {Flags("features", BaseboardFeatureNames, BaseboardFeatures),
           Value("chassis_handle", AllOnes, None),
           Enum("type", BaseboardTypeNames, BaseboardType, 0, 1),
           Each("object_count", Attr("object_handles"))}]

(* BIS entry point                                                         *)
BisEntryPointMembers ==
  Sized(1, {"checksum", "is_valid"}) @@ Sized(4, {"entry_point_16", "entry_point_32"})
BisRealModeAddrMembers == Sized(2, {"segment", "offset"})
BisRealModeAddrAttrs ==
  Plain({"segment", "offset"})
BisEntryPointSpec ==
  [type |-> 31, since |-> V(2, 3), minimum |-> 20, handlers |-> {"derive"},
   members |-> BisEntryPointMembers,
   fields |->
     <<Number("checksum", 1), Skip(3)>>
     \o Numbers(2, <<"entry_point_16", "entry_point_16">>)
     \o <<Number("entry_point_32", 4), Skip(4)>> \o <<Group, Skip(8)>>,
   attributes |->
     Plain({"checksum", "entry_point_32", "is_valid"})
     \union {Struct("entry_point_16", BisRealModeAddrMembers, BisRealModeAddrAttrs)}]

(* Chassis                                                                 *)
ChassisSecurityStatusNames == 0..5
ChassisTypeNames == 0..36
RackTypeNames == {0, 1}
ChassisSecurityStatus == 0..5
ChassisType == 0..36
RackType == {0, 1}
ChassisElementMembers ==
  Sized(4, {"type", "board_type"}) @@ Sized(8, {"minimum_count", "maximum_count"})
ChassisMembers ==
  Sized(8, {"vendor", "version", "serial_number", "asset_tag", "element_count",
     "element_size", "elements", "sku_number"})
  @@ Sized(4, {"type", "bootup_state", "power_supply_state", "thermal_state",
     "security_status", "oem_defined", "rack_type"})
  @@ Sized(2, {"height", "power_cord_count", "rack_height"})
  @@ Sized(1, {"is_lock_present"})
ChassisFields ==
  <<Str("vendor"), Bits("type", 7), Bits("is_lock_present", 1), Pad(1)>>
  \o Strs(<<"version", "serial_number", "asset_tag">>) \o <<GroupSince(V(2, 1))>>
  \o Numbers(1, <<"bootup_state", "power_supply_state", "thermal_state",
        "security_status">>)
  \o <<GroupSince(V(2, 3)), Number("oem_defined", 4)>> \o <<Group>>
  \o Numbers(1, <<"height", "power_cord_count">>)
  \o <<Group, Strided(1, 3, "element_size", Counted(1, "", Array("elements",
        "element_count", ChassisElementMembers, <<Number("", 1),
        Unknown(AllOnes, Number("minimum_count", 1)),
        Number("maximum_count", 1)>>)))>>
  \o <<GroupSince(V(2, 7)), Str("sku_number")>> \o <<GroupSince(V(3, 9))>>
  \o Numbers(1, <<"rack_type", "rack_height">>)
ChassisAttributes ==
  Plain({"vendor", "is_lock_present", "version", "serial_number", "asset_tag"})
  \union {Enum("type", ChassisTypeNames, ChassisType, 0, 2)}
  \union Level(V(2, 1), {Enum("bootup_state", StatusNames, Status, 0, 2),
        Enum("power_supply_state", StatusNames, Status, 0, 2),
        Enum("thermal_state", StatusNames, Status, 0, 2), Enum("security_status",
        ChassisSecurityStatusNames, ChassisSecurityStatus, 0, 2)})
  \union Level(V(2, 3), Plain({"oem_defined", "element_count", "element_size"})
        \union {Value("height", 0, None), Value("power_cord_count", 0, None),
        Each("element_count", Struct("elements", ChassisElementMembers,
        {Value("type", AllOnes, None),
        Enum("board_type", BaseboardTypeNames, BaseboardType, 0, 1),
        Value("minimum_count", None, AllOnes),
        Value("maximum_count", None, AllOnes)}))})
  \union Level(V(2, 7), Plain({"sku_number"}))
  \union Level(V(3, 9), Plain({"rack_height"}) \union
        {Enum("rack_type", RackTypeNames, RackType, 0, None)})
ChassisSpec ==
  [type |-> 3, since |-> V(2, 0), minimum |-> 9, handlers |-> {},
   members |-> ChassisMembers,
   fields |-> ChassisFields, attributes |-> ChassisAttributes]

(* Firmware                                                                *)
FirmwareFeatureExNames == 0..14
FirmwareFeatureNames == 2..31
FirmwareFeatures == Unit(8, 32, 2..31)
FirmwareFeaturesEx == Unit(2, 15, 0..14)
FirmwareMembers ==
  Sized(8, {"vendor", "version", "rom_size", "features"})
  @@ Sized(4, {"release_date", "platform_version", "controller_version"})
  @@ Sized(2, {"bios_segment", "features_ex"})
FirmwareSpec ==
  [type |-> 0, since |-> V(2, 0), minimum |-> 18, handlers |-> {},
   members |-> FirmwareMembers,
   fields |->
     Strs(<<"vendor", "version">>)
     \o <<Number("bios_segment", 2), Str("release_date"), Number("rom_size", 1),
           Number("features", 8)>>
     \o <<GroupSince(V(2, 1)), Number("features_ex", 1)>>
     \o <<GroupSince(V(2, 3)), Number("features_ex", 1)>> \o <<GroupSince(V(2, 4))>>
     \o Numbers(2, <<"platform_version", "controller_version">>)
     \o <<GroupSince(V(3, 1)), Extended("rom_size", 2, "rom_size", AllOnes)>>,
   attributes |->
     Plain({"vendor", "version", "bios_segment", "rom_size"})
     \union {Value("release_date", 0, None),
           Flags("features", FirmwareFeatureNames, FirmwareFeatures)}
     \union Level(V(2, 1),
           {Flags("features_ex", FirmwareFeatureExNames, FirmwareFeaturesEx)})
     \union Level(V(2, 4), {Value("platform_version", 0, None),
           Value("controller_version", 0, None)})]

(* Firmware inventory                                                      *)
FirmwareIdentFormatNames == 0..255
FirmwareInventoryCharsNames == {0, 1}
FirmwareInventoryStateNames == 0..8
FirmwareVersionFormatNames == 0..255
FirmwareIdentFormat == {0, 1}
FirmwareInventoryState == 0..8
FirmwareVersionFormat == 0..3
FirmwareInventoryChars == Unit(2, 16, {0, 1})
FirmwareInventoryComponentMembers == Sized(2, {"handle"}) @@ Sized(8, {"entity"})
FirmwareInventoryMembers ==
  Sized(8, {"name", "version", "ident", "release_date", "vendor", "lowest_version",
     "image_size", "component_count", "components"})
  @@ Sized(4, {"version_format", "ident_format", "state"})
  @@ Sized(24, {"parsed_version", "parsed_lowest_version"})
  @@ Sized(20, {"parsed_ident"}) @@ Sized(2, {"characteristics"})
FirmwareVersionNumberMembers == Sized(4, {"major", "minor"})
FirmwareVersionNumberAttrs ==
  Plain({"major", "minor"})
FirmwareInventorySpec ==
  [type |-> 45, since |-> V(3, 5), minimum |-> 23, handlers |-> {"derive"},
   members |-> FirmwareInventoryMembers,
   fields |->
     Strs(<<"name", "version">>)
     \o <<Number("version_format", 1), Str("ident"), Number("ident_format", 1)>>
     \o Strs(<<"release_date", "vendor", "lowest_version">>)
     \o <<Number("image_size", 8), Number("characteristics", 2), Number("state", 1)>>
     \o <<Group, Counted(1, "", Array("components", "component_count",
           FirmwareInventoryComponentMembers, <<Number("handle", 2)>>))>>,
   attributes |->
     Plain({"name", "release_date", "vendor", "component_count"})
     \union {Variant("parsed_version", Plain({"parsed_version", "version"}) \union
           {Struct("parsed_version", FirmwareVersionNumberMembers,
           FirmwareVersionNumberAttrs)}), Enum("version_format",
           FirmwareVersionFormatNames, FirmwareVersionFormat, None, None),
           Variant("parsed_ident", Plain({"parsed_ident", "ident"})),
           Enum("ident_format", FirmwareIdentFormatNames, FirmwareIdentFormat, None,
           None), Variant("parsed_lowest_version",
           Plain({"parsed_lowest_version", "lowest_version"}) \union
           {Struct("parsed_lowest_version", FirmwareVersionNumberMembers,
           FirmwareVersionNumberAttrs)}), Value("image_size", None, AllOnes),
           Flags("characteristics", FirmwareInventoryCharsNames,
           FirmwareInventoryChars), Enum("state", FirmwareInventoryStateNames,
           FirmwareInventoryState, 0, 2), Each("component_count", Struct("components",
           FirmwareInventoryComponentMembers, Plain({"handle"})))}]

(* Firmware language                                                       *)
FirmwareLanguageFlagNames == {0}
FirmwareLanguageFlags == Unit(1, 8, {0})
FirmwareLanguageMembers ==
  Sized(8, {"language_count", "languages", "current_language"}) @@ Sized(1, {"flags"})
FirmwareLanguageSpec ==
  [type |-> 13, since |-> V(2, 0), minimum |-> 22, handlers |-> {"derive", "cleanup"},
   members |-> FirmwareLanguageMembers,
   fields |->
     Numbers(1, <<"language_count", "flags">>) \o <<Skip(15), Str("current_language")>>,
   attributes |->
     Plain({"current_language"})
     \union {Each("language_count", Attr("languages")),
           Flags("flags", FirmwareLanguageFlagNames, FirmwareLanguageFlags)}]

(* Group assoc                                                             *)
GroupAssocItemMembers ==
  Sized(4, {"type"}) @@ Sized(2, {"handle"}) @@ Sized(8, {"entity"})
GroupAssocMembers == Sized(8, {"group_name", "item_count", "items"})
GroupAssocSpec ==
  [type |-> 14, since |-> V(2, 0), minimum |-> 5, handlers |-> {"link"},
   members |-> GroupAssocMembers,
   fields |->
     <<Str("group_name"), ToTheEnd(3, Array("items", "item_count",
        GroupAssocItemMembers, <<Number("type", 1), Number("handle", 2)>>))>>,
   attributes |->
     Plain({"group_name"})
     \union {Each("item_count",
           Struct("items", GroupAssocItemMembers, Plain({"type", "handle"})))}]

(* OEM strings                                                             *)
OemStringsMembers == Sized(8, {"string_count", "strings"})
OemStringsSpec ==
  [type |-> 11, since |-> V(2, 0), minimum |-> 5, handlers |-> {"derive", "cleanup"},
   members |-> OemStringsMembers,
   fields |->
     <<Number("string_count", 1)>>,
   attributes |->
     Plain({"string_count"}) \union {Each("string_count", Attr("strings"))}]

(* Pointing device                                                         *)
PointingDeviceIfaceNames == 0..8 \union 160..164
PointingDeviceTypeNames == 0..9
PointingDeviceIface == 0..8 \union 160..164
PointingDeviceType == 0..9
PointingDeviceMembers == Sized(4, {"type", "interface"}) @@ Sized(2, {"button_count"})
PointingDeviceSpec ==
  [type |-> 21, since |-> V(2, 1), minimum |-> 7, handlers |-> {},
   members |-> PointingDeviceMembers,
   fields |->
     Numbers(1, <<"type", "interface", "button_count">>),
   attributes |->
     Plain({"button_count"})
     \union {Enum("type", PointingDeviceTypeNames, PointingDeviceType, 0, 2),
           Enum("interface", PointingDeviceIfaceNames, PointingDeviceIface, 0, 2)}]

(* String property                                                         *)
StringPropertyMembers ==
  Sized(8, {"value", "parent"}) @@ Sized(4, {"ident"}) @@ Sized(2, {"parent_handle"})
StringPropertySpec ==
  [type |-> 46, since |-> V(3, 5), minimum |-> 9, handlers |-> {"link"},
   members |-> StringPropertyMembers,
   fields |->
     <<Number("ident", 2), Str("value"), Number("parent_handle", 2)>>,
   attributes |->
     Plain({"value", "parent_handle"})
     \union {Enum("ident", PropertyNames, Property, None, None)}]

(* System                                                                  *)
SystemWakeupTypeNames == 0..8
SystemWakeupType == 0..8
SystemMembers ==
  Sized(8, {"vendor", "product", "version", "serial_number", "sku_number", "family"})
  @@ Sized(16, {"uuid"}) @@ Sized(4, {"wakeup_type"})
SystemSpec ==
  [type |-> 1, since |-> V(2, 0), minimum |-> 8, handlers |-> {},
   members |-> SystemMembers,
   fields |->
     Strs(<<"vendor", "product", "version", "serial_number">>)
     \o <<GroupSince(V(2, 1)), Uuid("uuid"), Number("wakeup_type", 1)>>
     \o <<GroupSince(V(2, 4))>> \o Strs(<<"sku_number", "family">>),
   attributes |->
     Plain({"vendor", "product", "version", "serial_number"})
     \union Level(V(2, 1), Plain({"uuid"}) \union
           {Enum("wakeup_type", SystemWakeupTypeNames, SystemWakeupType, None, 2)})
     \union Level(V(2, 4), Plain({"sku_number", "family"}))]

(* System config                                                           *)
SystemConfigOptsMembers == Sized(8, {"option_count", "options"})
SystemConfigOptsSpec ==
  [type |-> 12, since |-> V(2, 0), minimum |-> 5, handlers |-> {"derive", "cleanup"},
   members |-> SystemConfigOptsMembers,
   fields |->
     <<Number("option_count", 1)>>,
   attributes |->
     {Each("option_count", Attr("options"))}]
=============================================================================
