------------------------------ MODULE TypeRules ------------------------------
(***************************************************************************)
(* The rules that the specifications of the types bring                    *)
(* (libopendmi/src/entity/*-rules.c).  Some judge what has been decoded,   *)
(* others the bytes of the structure, and some the structures it refers    *)
(* to.  That a reference to a structure of another type also raises an     *)
(* error in the context (dmi_registry_lookup) is not told here.            *)
(***************************************************************************)
EXTENDS Lint

CONSTANTS
  ShortMax,      \* USHRT_MAX
  SizeMax,       \* DMI_SIZE_MAX
  NoProbe,       \* DMI_PROBE_VALUE_UNKNOWN, as it is read with its sign
  Version26, Version31, Version310

(* What has been decoded of a structure of a type, and the structure of a  *)
(* type that a handle refers to (0 if there is none).                      *)
InfoOf(t, e, type) == IF e # 0 /\ Role(t, e) = type THEN t.entities[e].info ELSE Null
LookUpOf(t, handle, type) ==
  IF LookUp(t, handle) # 0 /\ Role(t, LookUp(t, handle)) = type THEN LookUp(t, handle) ELSE 0
Decoded(t, type) == {e \in DOMAIN t.entities : InfoOf(t, e, type) # Null}

(* dmi_reader_get_bytes_at: bytes that are not all within the body are not *)
(* read.                                                                   *)
Carries(t, e, at, count) == at + count <= Len(t.entities[e].body)
Raw(t, e, at)            == ByteAt(t.entities[e].body, at)
RawIs(t, e, at, bytes) ==
  Carries(t, e, at, Len(bytes)) /\ Slice(t.entities[e].body, at, Len(bytes)) = bytes

(* An offset that is counted from the one of a structure that has none     *)
(* (SIZE_MAX) wraps around.                                                *)
AtByte(t, e, attribute, at) ==
  Issue(e, attribute, Null,
        IF t.entities[e].foreign THEN at - 1 ELSE t.entities[e].offset + at)

Named(t, e, attribute) == OfAttribute(t, e, attribute, Null)
IsBcdByte(byte)        == byte % 16 <= 9 /\ byte \div 16 <= 9
IsText(text)           == text # Null /\ text # << >>

(* Of two numbers that are both known, the first is above the second.      *)
Exceeds(value, limit, unknown) ==
  value \notin unknown /\ limit \notin unknown /\ value > limit

-----------------------------------------------------------------------------
(* Memory: devices, arrays, ranges of addresses, channels and controllers. *)

ReservedFlags(t) == IF t.version >= Version310 THEN {7} ELSE 4 .. 7

(* An error is told by the structure the handle has been linked to.        *)
IsHealthy(t, info) ==
  LET error == info.error_info
  IN  \/ info.error_info_handle = NoHandle
      \/ \E type \in {"memory_error_32", "memory_error_64"} :
           InfoOf(t, error, type) # Null /\ t.entities[error].info.type = "ok"

Part(size) == IF size = SizeMax THEN 0 ELSE size

MemoryDevice(t, e, r) ==
  LET info  == InfoOf(t, e, "memory_device")
      flags == 27
      size  == 12
      HasFlag(b) == Carries(t, e, flags, 1) /\ Bit(Raw(t, e, flags), b) = 1
  IN  CASE r = "memory-device.width" ->
             When(info # Null /\ Exceeds(info.data_width, info.total_width, {ShortMax}),
                  Named(t, e, "total-width"))
        [] r = "memory-device.speed" ->
             When(info # Null /\ Exceeds(info.configured_speed, info.maximum_speed, {0}),
                  Named(t, e, "configured-speed"))
        [] r = "memory-device.voltage" ->
             When(/\ info # Null
                  /\ \/ Exceeds(info.minimum_voltage, info.configured_voltage, {0})
                     \/ Exceeds(info.configured_voltage, info.maximum_voltage, {0}),
                  Named(t, e, "configured-voltage"))
        [] r = "memory-device.sizes" ->
             When(/\ info # Null /\ info.size \notin {0, SizeMax}
                  /\ Part(info.volatile_size) + Part(info.non_volatile_size) > info.size,
                  Named(t, e, "size"))
        [] r = "memory-device.extended-size" ->
             When(RawIs(t, e, size, <<255, 127>>) /\ ~Carries(t, e, 0, 32),
                  AtByte(t, e, "size", size))
        [] r = "memory-device.attributes" ->
             When(\E b \in ReservedFlags(t) : HasFlag(b), AtByte(t, e, Null, flags))
        [] r = "memory-device.disabled" ->
             When(info # Null /\ t.version >= Version310 /\ HasFlag(5) /\ IsHealthy(t, info),
                  Named(t, e, "error-info-handle"))

(* dmi_memory_array_devices                                                *)
DevicesOf(t, e) ==
  {d \in Decoded(t, "memory_device") : t.entities[d].info.array_handle = t.entities[e].handle}
InstalledSize(t, e) == MapThenSumSet(LAMBDA d : Part(t.entities[d].info.size), DevicesOf(t, e))

MemoryArray(t, e, r) ==
  LET info     == InfoOf(t, e, "memory_array")
      capacity == 7
  IN  CASE r = "memory-array.device-count" ->
             When(info # Null /\ info.device_count # Cardinality(DevicesOf(t, e)),
                  Named(t, e, "device-count"))
        [] r = "memory-array.capacity" ->
             When(/\ info # Null /\ info.maximum_capacity \notin {0, SizeMax}
                  /\ InstalledSize(t, e) > info.maximum_capacity, Named(t, e, "maximum-capacity"))
        [] r = "memory-array.extended-capacity" ->
             When(RawIs(t, e, capacity, <<0, 0, 0, 128>>) /\ ~Carries(t, e, 0, 23),
                  AtByte(t, e, "maximum-capacity", capacity))

IsRange(info)   == info # Null /\ info.start_address <= info.end_address
Overlap(i, j)   == i.start_address <= j.end_address /\ j.start_address <= i.end_address
IsWithin(i, j)  == i.start_address >= j.start_address /\ i.end_address <= j.end_address
IsBackward(info) == info # Null /\ ~IsRange(info)

(* A pair is reported by the structure of the larger handle, for each of   *)
(* the others.                                                             *)
Peers(t, e, type) ==
  {o \in Decoded(t, type) : t.entities[o].handle < t.entities[e].handle}

MemoryArrayAddr(t, e, r) ==
  LET info == InfoOf(t, e, "memory_array_addr")
      Overlapping == {o \in Peers(t, e, "memory_array_addr") :
                        /\ IsRange(t.entities[o].info)
                        /\ Overlap(info, t.entities[o].info)}
  IN  CASE r = "memory-array-address.range"   -> When(IsBackward(info), Named(t, e, "start-address"))
        [] r = "memory-array-address.overlap" ->
             IF ~IsRange(info) THEN {} ELSE {OfAttribute(t, e, "start-address", o) : o \in Overlapping}

MemoryDeviceAddr(t, e, r) ==
  LET info  == InfoOf(t, e, "memory_device_addr")
      range == InfoOf(t, LookUpOf(t, info.array_address_handle, "memory_array_addr"),
                      "memory_array_addr")
  IN  CASE r = "memory-device-address.range"  -> When(IsBackward(info), Named(t, e, "start-address"))
        [] r = "memory-device-address.bounds" ->
             When(IsRange(info) /\ IsRange(range) /\ ~IsWithin(info, range),
                  Named(t, e, "start-address"))

SumOf(numbers) == FoldSeq(LAMBDA x, y : x + y, 0, numbers)

MemoryChannelLoad(t, e) ==
  LET info == InfoOf(t, e, "memory_channel")
      load == SumOf([i \in DOMAIN info.devices |-> info.devices[i].load])
  IN  When(/\ info # Null /\ info.devices # Null
           /\ info.maximum_load # 0 /\ load > info.maximum_load, Named(t, e, "load"))

MemoryControllerSizes(t, e) ==
  LET info == InfoOf(t, e, "memory_controller")
      Module(i) == InfoOf(t, LookUpOf(t, info.module_handles[i], "memory_module"), "memory_module")
      IsTooLarge(size) == size.status = "present" /\ size.value > info.maximum_module_size
  IN  IF info = Null THEN {}
      ELSE IF info.module_handles = Null THEN {}
      ELSE {OfAttribute(t, e, "module-handles", <<i, part>>) :
              <<i, part>> \in {p \in (DOMAIN info.module_handles) \X {"installed_size", "enabled_size"} :
                                 Module(p[1]) # Null /\ IsTooLarge(Module(p[1])[p[2]])}}

-----------------------------------------------------------------------------
(* Processors and caches.                                                  *)

(* A word, the lowest of its bytes first, has one of the bits that a       *)
(* signature leaves reserved.                                              *)
SignatureHoles(t, e, at) == Raw(t, e, at + 1) \div 64 # 0 \/ Raw(t, e, at + 3) \div 16 # 0

CacheLevels == [l1_cache_handle |-> 1, l2_cache_handle |-> 2, l3_cache_handle |-> 3]
CacheCodes ==
  [l1_cache_handle |-> "l1-cache-handle", l2_cache_handle |-> "l2-cache-handle",
   l3_cache_handle |-> "l3-cache-handle"]

Processor(t, e, r) ==
  LET info == InfoOf(t, e, "processor")
      family == 6
      id     == 8
      Cache(member) == InfoOf(t, LookUpOf(t, info[member], "cache"), "cache")
      Misplaced == {m \in DOMAIN CacheLevels : Cache(m) # Null /\ Cache(m).level # CacheLevels[m]}
  IN  CASE r = "processor.cores" ->
             IF info = Null THEN {}
             ELSE When(Exceeds(info.core_enabled, info.core_count, {0}), Named(t, e, "core-enabled"))
                  \union When(Exceeds(info.thread_enabled, info.thread_count, {0}),
                              Named(t, e, "thread-enabled"))
                  \union When(Exceeds(info.core_count, info.thread_count, {0}),
                              Named(t, e, "thread-count"))
        [] r = "processor.speed" ->
             When(info # Null /\ Exceeds(info.current_speed, info.maximum_speed, {0}),
                  Named(t, e, "current-speed"))
        [] r = "processor.cache" ->
             IF info = Null THEN {} ELSE {Named(t, e, CacheCodes[m]) : m \in Misplaced}
        [] r = "processor.family" ->
             When(RawIs(t, e, family, <<254>>) /\ t.entities[e].level < Version26,
                  AtByte(t, e, "family", family))
        [] r = "processor.id" ->
             When(/\ info # Null /\ info.id_format = "x86" /\ Carries(t, e, id, 8)
                  /\ SignatureHoles(t, e, id) /\ ~SignatureHoles(t, e, id + 4),
                  AtByte(t, e, "id", id))

CacheRules(t, e, r) ==
  LET info == InfoOf(t, e, "cache")
  IN  CASE r = "cache.size" ->
             When(info # Null /\ Exceeds(info.installed_size, info.maximum_size, {0, SizeMax}),
                  Named(t, e, "installed-size"))
        [] r = "cache.sram" ->
             When(/\ info # Null /\ info.supported_sram # {}
                  /\ ~(info.current_sram \subseteq info.supported_sram),
                  Named(t, e, "current-sram"))

-----------------------------------------------------------------------------
(* Firmware, slots and onboard devices.                                    *)

Firmware(t, e, r) ==
  LET date == 8
      size == 9
      strings == t.entities[e].strings
  IN  CASE r = "firmware.rom-size" ->
             When(RawIs(t, e, size, <<255>>) /\ t.entities[e].level < Version31,
                  AtByte(t, e, "rom-size", size))
        [] r = "firmware.release-date" ->
             {Issue(e, "release-date", Null, StringOffset(t, e, n)) :
                n \in {m \in DOMAIN strings :
                         RawIs(t, e, date, <<m>>) /\ Len(Trimmed(strings[m].raw)) # 10}}

(* Versions of one format are compared by their numbers.                   *)
FirmwareVersion(t, e) ==
  LET info    == InfoOf(t, e, "firmware_inventory")
      version == info.parsed_version
      lowest  == info.parsed_lowest_version
      IsOlder ==
        IF version.format = "semantic"
        THEN \/ version.major < lowest.major
             \/ version.major = lowest.major /\ version.minor < lowest.minor
        ELSE version.value < lowest.value
  IN  When(info # Null /\ version.format = lowest.format /\ version.format # "free" /\ IsOlder,
           Named(t, e, "lowest-version"))

(* Widths in bits are numbered before the ones in lanes, and neither tells *)
(* of the other.                                                           *)
FirstWidth == 3
FirstLanes == 8

SlotWidth(t, e) ==
  LET info     == InfoOf(t, e, "system_slots")
      physical == info.physical_width
      bus      == info.bus_width
  IN  When(/\ info # Null /\ physical >= FirstWidth /\ bus >= FirstWidth
           /\ (physical >= FirstLanes) = (bus >= FirstLanes) /\ physical < bus,
           Named(t, e, "physical-width"))

OnboardInstance(t, e) ==
  LET info == InfoOf(t, e, "onboard_device_ex")
      IsTaken(peer) == peer.type = info.type /\ peer.instance = info.instance
  IN  IF info = Null THEN {}
      ELSE {OfAttribute(t, e, "instance", o) :
              o \in {p \in Peers(t, e, "onboard_device_ex") : IsTaken(t.entities[p].info)}}

(* Indices of cables start at one of the lanes 0, 4, 8 and 12.             *)
CabledPcie(t, e, r) ==
  LET info  == InfoOf(t, e, "intel_rsd_cabled_pcie")
      count == 7
      Misaligned == {i \in DOMAIN info.ports : info.ports[i].start_lane \notin {0, 4, 8, 12}}
  IN  CASE r = "intel-rsd-cabled-pcie.start-lane" ->
             IF info = Null THEN {}
             ELSE {AtByte(t, e, "start-lane", count + 2 * i) : i \in Misaligned}
        [] r = "intel-rsd-cabled-pcie.cable-count" ->
             When(Carries(t, e, count, 1) /\ Raw(t, e, count) > 4, AtByte(t, e, "ports", count))

-----------------------------------------------------------------------------
(* Power, probes and what is measured by them.                             *)

Battery(t, e) ==
  LET info == InfoOf(t, e, "portable_battery")
  IN  IF info = Null THEN {}
      ELSE When(IsText(info.serial_number) /\ info.sbds_serial_number # 0,
                Named(t, e, "sbds-serial-number"))
           \union When(IsText(info.sbds_chemistry) /\ info.chemistry # "unknown",
                       Named(t, e, "sbds-chemistry"))

(* What is referred to is of another type than it should be.               *)
IsMistaken(t, handle, type) == LookUp(t, handle) # 0 /\ Role(t, LookUp(t, handle)) # type

CoolingDeviceProbe(t, e) ==
  LET info == InfoOf(t, e, "cooling_device")
  IN  When(info # Null /\ IsMistaken(t, info.probe_handle, "temperature_probe"),
           Named(t, e, "probe-handle"))

PowerSupplyProbes(t, e) ==
  LET info   == InfoOf(t, e, "power_supply")
      probes == {<<info.voltage_probe_handle, "voltage_probe", "voltage-probe-handle">>,
                 <<info.cooling_device_handle, "cooling_device", "cooling-device-handle">>,
                 <<info.current_probe_handle, "current_probe", "current-probe-handle">>}
  IN  IF info = Null THEN {}
      ELSE {Named(t, e, p[3]) : p \in {q \in probes : IsMistaken(t, q[1], q[2])}}

ProbeRange(t, e) ==
  LET info == t.entities[e].info
      IsAbove(value, limit) == Exceeds(value, limit, {NoProbe})
  IN  IF info = Null THEN {}
      ELSE IF IsAbove(info.minimum_value, info.maximum_value) THEN {Named(t, e, "minimum-value")}
      ELSE When(\/ IsAbove(info.minimum_value, info.nominal_value)
                \/ IsAbove(info.nominal_value, info.maximum_value), Named(t, e, "nominal-value"))

(* dmi_mgmt_device_threshold_is_template: the thresholds are the ordinals  *)
(* of the fields that hold them.                                           *)
Thresholds(info) ==
  <<info.lower_non_critical, info.upper_non_critical, info.lower_critical, info.upper_critical,
    info.lower_non_recoverable, info.upper_non_recoverable>>
IsTemplate(info) == \A i \in 2 .. 6 : Thresholds(info)[i] = Thresholds(info)[i - 1] + 1

MgmtDeviceThreshold(t, e, r) ==
  LET info  == InfoOf(t, e, "mgmt_device_threshold")
      pairs == {<<"lower-non-recoverable", info.lower_non_recoverable, info.lower_critical>>,
                <<"lower-critical", info.lower_critical, info.lower_non_critical>>,
                <<"upper-non-critical", info.upper_non_critical, info.upper_critical>>,
                <<"upper-critical", info.upper_critical, info.upper_non_recoverable>>}
  IN  CASE r = "mgmt-device-threshold.order" ->
             IF info = Null THEN {}
             ELSE IF IsTemplate(info) THEN {}
             ELSE {Named(t, e, p[1]) : p \in {q \in pairs : Exceeds(q[2], q[3], {NoProbe})}}
        [] r = "mgmt-device-threshold.template" ->
             When(info # Null /\ IsTemplate(info), OfEntity(t, e))

(* Fields of the next scheduled power-on: one that is not set is skipped,  *)
(* and one that is not carried ends the check.                             *)
PowerOnFields ==
  <<"poweron-month", "poweron-day", "poweron-hour", "poweron-minute", "poweron-second">>

PowerControlsBcd(t, e) ==
  LET at == 3
      IsWrong(i) == /\ Carries(t, e, at + i, 1)
                    /\ Raw(t, e, at + i) # 255 /\ ~IsBcdByte(Raw(t, e, at + i))
  IN  {AtByte(t, e, PowerOnFields[i], at + i) : i \in {j \in DOMAIN PowerOnFields : IsWrong(j)}}

-----------------------------------------------------------------------------
(* Management controllers, the event log, groups and other devices.        *)

IpmiRevision(t, e) ==
  LET revision == 5
  IN  When(Carries(t, e, revision, 1) /\ ~IsBcdByte(Raw(t, e, revision)),
           AtByte(t, e, "specification-version", revision))

(* Records follow the data of the interface, each with its type and length.*)
(* The first that does not fit the structure ends the check.               *)
MgmtController(t, e) ==
  LET at    == 5
      count == at + 1 + Raw(t, e, at)
      body  == t.entities[e].body
      starts[i \in 0 .. Raw(t, e, count)] ==
        IF i = 0 THEN count + 1
        ELSE IF starts[i - 1] + 2 > Len(body) THEN Len(body) + 1
        ELSE starts[i - 1] + 2 + Raw(t, e, starts[i - 1] + 1)
      Unfit == {i \in 1 .. Raw(t, e, count) : starts[i] > Len(body)}
  IN  IF ~Carries(t, e, at, 1) THEN {}
      ELSE IF ~Carries(t, e, count, 1) THEN {AtByte(t, e, "interface-data", at)}
      ELSE When(Unfit # {}, OfAttribute(t, e, "protocol-records", Min(Unfit)))

SystemEventLog(t, e, r) ==
  LET info == InfoOf(t, e, "system_event_log")
      descriptors == 22
      IsBeyond(offset) == info.area_length # 0 /\ offset >= info.area_length
  IN  CASE r = "system-event-log.area" ->
             IF info = Null THEN {}
             ELSE When(IsBeyond(info.header_offset), Named(t, e, "header-offset"))
                  \union When(IsBeyond(info.data_offset), Named(t, e, "data-offset"))
        [] r = "system-event-log.descriptors" ->
             When(/\ info # Null /\ info.descriptor_count # 0
                  /\ Carries(t, e, descriptors, 1) /\ Raw(t, e, descriptors) # 2,
                  AtByte(t, e, "descriptors", descriptors))

SystemResetLimit(t, e) ==
  LET info == InfoOf(t, e, "system_reset")
  IN  When(info # Null /\ Exceeds(info.reset_count, info.reset_limit, {ShortMax}),
           Named(t, e, "reset-count"))

TpmDevice(t, e, r) ==
  LET info   == InfoOf(t, e, "tpm_device")
      vendor == 4
  IN  CASE r = "tpm-device.version" ->
             When(info # Null /\ info.major \notin {1, 2}, Named(t, e, "specification-version"))
        [] r = "tpm-device.vendor" ->
             When(/\ Carries(t, e, vendor, 4)
                  /\ Raw(t, e, vendor) = 0 /\ Raw(t, e, vendor + 3) # 0,
                  AtByte(t, e, "vendor", vendor))

(* dmi_group_assoc_member_spec: the first enabled module that has a group  *)
(* of the name tells the type of its members.  A member of another type    *)
(* than the item declares is left to the links.                            *)
GroupMember(t, e) ==
  LET info  == InfoOf(t, e, "group_assoc")
      named == {g \in DOMAIN t.groups : t.groups[g].name = info.group_name}
      type  == t.groups[Min(named)].type
      IsForeign(item) ==
        LET member == LookUp(t, item.handle)
        IN  /\ member # 0
            /\ t.entities[member].type_id = item.type /\ Role(t, member) # type
  IN  IF info = Null THEN {}
      ELSE IF info.group_name = Null \/ named = {} THEN {}
      ELSE {OfAttribute(t, e, "items", i) : i \in {j \in DOMAIN info.items : IsForeign(info.items[j])}}

-----------------------------------------------------------------------------
(* The rules a specification brings, in the order they are checked.        *)

Reads    == Rule("entity", Warning, Error)
Hints    == Rule("entity", Note, Warning)
Suspects == Rule("entity", Note, Error)
Refuses  == Rule("entity", Error, Error)

Brings(codes, rule) == [i \in DOMAIN codes |-> [code |-> codes[i], rule |-> rule]]

OwnRules ==
  [portable_battery      |-> Brings(<<"portable-battery.sbds">>, Hints),
   cache                 |-> Brings(<<"cache.size", "cache.sram">>, Reads),
   cooling_device        |-> Brings(<<"cooling-device.probe">>, Reads),
   current_probe         |-> Brings(<<"current-probe.range">>, Reads),
   temperature_probe     |-> Brings(<<"temperature-probe.range">>, Reads),
   voltage_probe         |-> Brings(<<"voltage-probe.range">>, Reads),
   firmware_inventory    |-> Brings(<<"firmware-inventory.version">>, Reads),
   firmware              |-> Brings(<<"firmware.rom-size">>, Reads)
                             \o Brings(<<"firmware.release-date">>, Hints),
   group_assoc           |-> Brings(<<"group-assoc.member">>, Hints),
   ipmi_device           |-> Brings(<<"ipmi-device.revision">>, Reads),
   memory_array          |->
     Brings(<<"memory-array.extended-capacity", "memory-array.device-count",
              "memory-array.capacity">>, Reads),
   memory_array_addr     |-> Brings(<<"memory-array-address.range">>, Refuses)
                             \o Brings(<<"memory-array-address.overlap">>, Reads),
   memory_channel        |-> Brings(<<"memory-channel.load">>, Reads),
   memory_controller     |-> Brings(<<"memory-controller.module-size">>, Reads),
   memory_device_addr    |-> Brings(<<"memory-device-address.range">>, Refuses)
                             \o Brings(<<"memory-device-address.bounds">>, Reads),
   memory_device         |->
     Brings(<<"memory-device.extended-size", "memory-device.width">>, Reads)
     \o Brings(<<"memory-device.speed">>, Hints)
     \o Brings(<<"memory-device.voltage", "memory-device.sizes">>, Reads)
     \o Brings(<<"memory-device.attributes">>, Suspects)
     \o Brings(<<"memory-device.disabled">>, Reads),
   mgmt_controller       |-> Brings(<<"mgmt-controller.records">>, Reads),
   mgmt_device_threshold |-> Brings(<<"mgmt-device-threshold.order">>, Reads)
                             \o Brings(<<"mgmt-device-threshold.template">>, Suspects),
   onboard_device_ex     |-> Brings(<<"onboard-device-ex.instance">>, Reads),
   power_controls        |-> Brings(<<"power-controls.bcd">>, Reads),
   power_supply          |-> Brings(<<"power-supply.probes">>, Reads),
   processor             |->
     Brings(<<"processor.family">>, Reads) \o Brings(<<"processor.id">>, Suspects)
     \o Brings(<<"processor.cores">>, Reads) \o Brings(<<"processor.speed">>, Hints)
     \o Brings(<<"processor.cache">>, Reads),
   system_slots          |-> Brings(<<"slot.width">>, Reads),
   system_event_log      |->
     Brings(<<"system-event-log.area", "system-event-log.descriptors">>, Reads),
   system_reset          |-> Brings(<<"system-reset.limit">>, Reads),
   tpm_device            |-> Brings(<<"tpm-device.vendor">>, Suspects)
                             \o Brings(<<"tpm-device.version">>, Reads),
   intel_rsd_cabled_pcie |->
     Brings(<<"intel-rsd-cabled-pcie.start-lane", "intel-rsd-cabled-pcie.cable-count">>, Reads)]

OwnFindings(t, e, r) ==
  LET type == Role(t, e)
  IN  CASE type = "portable_battery"      -> Battery(t, e)
        [] type = "cache"                 -> CacheRules(t, e, r)
        [] type = "cooling_device"        -> CoolingDeviceProbe(t, e)
        [] type \in {"current_probe", "temperature_probe", "voltage_probe"} -> ProbeRange(t, e)
        [] type = "firmware_inventory"    -> FirmwareVersion(t, e)
        [] type = "firmware"              -> Firmware(t, e, r)
        [] type = "group_assoc"           -> GroupMember(t, e)
        [] type = "ipmi_device"           -> IpmiRevision(t, e)
        [] type = "memory_array"          -> MemoryArray(t, e, r)
        [] type = "memory_array_addr"     -> MemoryArrayAddr(t, e, r)
        [] type = "memory_channel"        -> MemoryChannelLoad(t, e)
        [] type = "memory_controller"     -> MemoryControllerSizes(t, e)
        [] type = "memory_device_addr"    -> MemoryDeviceAddr(t, e, r)
        [] type = "memory_device"         -> MemoryDevice(t, e, r)
        [] type = "mgmt_controller"       -> MgmtController(t, e)
        [] type = "mgmt_device_threshold" -> MgmtDeviceThreshold(t, e, r)
        [] type = "onboard_device_ex"     -> OnboardInstance(t, e)
        [] type = "power_controls"        -> PowerControlsBcd(t, e)
        [] type = "power_supply"          -> PowerSupplyProbes(t, e)
        [] type = "processor"             -> Processor(t, e, r)
        [] type = "system_slots"          -> SlotWidth(t, e)
        [] type = "system_event_log"      -> SystemEventLog(t, e, r)
        [] type = "system_reset"          -> SystemResetLimit(t, e)
        [] type = "tpm_device"            -> TpmDevice(t, e, r)
        [] type = "intel_rsd_cabled_pcie" -> CabledPcie(t, e, r)
=============================================================================
