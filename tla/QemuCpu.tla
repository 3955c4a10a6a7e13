------------------------------- MODULE QemuCpu -------------------------------
(* The processor of a virtual machine (config_qemu_cpu.go).                 *)
EXTENDS Optional, Integers

CONSTANTS Flags,      \* the CPU flags, of the twelve of CpuFlags
          Spelling,   \* Spelling[t]: the listed type whose key t becomes without
                      \* "-", "_" and capitals, for some t that are not listed
          MaxCores, MaxSockets, MaxLimit, MaxUnits,  \* 128, 4, 128 and 262144
          MaxUint     \* the largest number of a CPU in an affinity

\* CpuType.cpuBase.
BaseTypes ==
    {"athlon", "phenom", "486", "core2duo", "coreduo", "pentium", "pentium2",
     "pentium3", "kvm32", "kvm64", "max", "qemu32", "qemu64", "host", "EPYC",
     "EPYC-IBPB", "EPYC-Milan", "EPYC-Rome", "Opteron_G1", "Opteron_G2",
     "Opteron_G3", "Opteron_G4", "Opteron_G5", "Broadwell", "Broadwell-IBRS",
     "Broadwell-noTSX", "Broadwell-noTSX-IBRS", "Cascadelake-Server",
     "Cascadelake-Server-noTSX", "Conroe", "Haswell", "Haswell-IBRS",
     "Haswell-noTSX", "Haswell-noTSX-IBRS", "Icelake-Client",
     "Icelake-Client-noTSX", "Icelake-Server", "Icelake-Server-noTSX",
     "IvyBridge", "IvyBridge-IBRS", "KnightsMill", "Nahalem", "Nahalem-IRBS",
     "Penrym", "SandyBridge", "SandyBridge-IBRS", "Skylake-Client",
     "Skylake-Client-IBRS", "Skylake-Client-noTSX-IBRS", "Skylake-Server",
     "Skylake-Server-IBRS", "Skylake-Server-noTSX-IBRS", "Westmere",
     "Westmere-IBRS"}

\* CpuType.cpuV8: what version 8 adds.
V8Types ==
    {"Cascadelake-Server-V2", "Cascadelake-Server-V4", "Cascadelake-Server-V5",
     "Cooperlake", "Cooperlake-V2", "EPYC-Rome-v2", "EPYC-v3",
     "Icelake-Server-v3", "Icelake-Server-v4", "Icelake-Server-v5",
     "Icelake-Server-v6", "SapphireRapids", "Skylake-Client-v4",
     "Skylake-Server-v4", "Skylake-Server-v5", "x86-64-v2", "x86-64-v2-AES",
     "x86-64-v3", "x86-64-v4"}

\* CpuType.Error: the types its message offers.
Listed(major) == BaseTypes \cup IF major >= 8 THEN V8Types ELSE {}

\* The keys are the listed names in lower case without "-" and "_", except two:
\* "ivyBridgeibrs" is not in lower case, so that nothing finds it, and "IRBS" in
\* a name has the key "ibrs".
Unfound == {"IvyBridge-IBRS", "Nahalem-IRBS"}

\* CpuType.mapToApi: "" for a type the table does not have.
Canonical(t, major) ==
    LET name == IF t \in DOMAIN Spelling THEN Spelling[t] ELSE t IN
    IF t \notin Unfound /\ name \in Listed(major) THEN name ELSE ""

\* CpuType.Validate.
TypeValid(t, major) == t = "" \/ Canonical(t, major) # ""

\* What the integer types of the fields hold: cores, sockets and the limit are
\* a uint8, virtual cores a uint16.  The uint32 of the units holds whatever a
\* guest may have.
Uint8 == 256
Uint16 == 65536

ASSUME QemuCpuAssumption ==
    /\ {MaxCores, MaxSockets, MaxLimit, MaxUnits, MaxUint} \subseteq Nat
    /\ MaxLimit < Uint8
    /\ BaseTypes \cup V8Types \cup {""} \subseteq Strings
    /\ \A t \in DOMAIN Spelling : /\ t \notin BaseTypes \cup V8Types \cup {""}
                                 /\ Spelling[t] \in BaseTypes \cup V8Types

TriBools == {-1, 0, 1}
NoFlags == [f \in Flags |-> Nil]

\* The struct, and the parameters of a guest: an affinity is a set of ranges, a
\* flag is on, off or not there, and a limit is a number of tenths of a core.
CpuObjects ==
    [affinity : {Nil} \cup SUBSET (0..MaxUint), cores : {Nil} \cup 0..(Uint8 - 1),
     limit : {Nil} \cup 0..(Uint8 - 1), numa : {Nil, 0, 1},
     sockets : {Nil} \cup 0..(Uint8 - 1),
     type : {Nil} \cup Strings, flags : {Nil} \cup [Flags -> {Nil} \cup Int],
     units : {Nil} \cup Nat, vcores : {Nil} \cup 0..(Uint16 - 1)]

CpuValues == [type : Strings, flags : [Flags -> {Nil, -1, 1}]]

CpuParams ==
    [affinity : {Nil} \cup SUBSET {r \in (0..MaxUint) \X (0..MaxUint) : r[1] <= r[2]},
     cores : {Nil} \cup (Nat \ {0}), cpulimit : {Nil} \cup 0..(10 * MaxLimit),
     numa : {Nil, 0, 1}, sockets : {Nil} \cup (Nat \ {0}), cpu : {Nil} \cup CpuValues,
     cpuunits : {Nil} \cup 0..MaxUnits, vcpus : {Nil} \cup Nat]

NoCpu == [affinity |-> Nil, cores |-> Nil, cpulimit |-> Nil, numa |-> Nil,
          sockets |-> Nil, cpu |-> Nil, cpuunits |-> Nil, vcpus |-> Nil]

\* CpuFlags.mapToApi: each flag as asked or as it was; TriBoolNone is not
\* written but counts as set.
FlagsToApi(want, cur) ==
    LET all == [f \in Flags |-> Or(want[f], cur[f])] IN
    [isSet |-> \E f \in Flags : all[f] # Nil,
     flags |-> [f \in Flags |-> IF all[f] = 0 THEN Nil ELSE all[f]]]

\* The maximal runs of a set of CPU numbers.
Ranges(S) ==
    {r \in S \X S : /\ r[1] <= r[2] /\ r[1]..r[2] \subseteq S
                    /\ r[1] - 1 \notin S /\ r[2] + 1 \notin S}

\* QemuCPU.mapToApiAffinity sorts the list, drops what it repeats and writes
\* the ranges; mapToSdkAffinity writes them out again.
AffinityToApi(S) == Ranges(S)
AffinityToSdk(R) == UNION {r[1]..r[2] : r \in R}

\* The value of "cpu" in QemuCPU.mapToApi.  It holds both the type and the
\* flags, so that the one that is not asked for is sent again as it was read.
CpuParam(want, cur, major) ==
    LET sent == FlagsToApi(Or(want.flags, NoFlags),
                           IF cur = Nil THEN NoFlags ELSE Or(cur.flags, NoFlags))
        flagsSet == sent.isSet /\ (cur = Nil => sent.flags # NoFlags)
        asked == Or(want.type, IF cur = Nil THEN Nil ELSE cur.type)
        type == IF asked = Nil THEN "" ELSE Canonical(asked, major) IN
    IF (want.flags = Nil /\ want.type = Nil) \/ (~flagsSet /\ type = "") THEN Nil
    ELSE [type |-> type, flags |-> IF flagsSet THEN sent.flags ELSE NoFlags]

\* A number of cores as the server writes a limit.
Tenths(n) == IF n = Nil THEN Nil ELSE 10 * n

\* QemuCPU.mapToApi.
CpuToApi(want, cur, major) ==
    LET had(f) == cur # Nil /\ cur[f] # Nil IN
    Request([affinity |-> IF want.affinity = Nil \/ (want.affinity = {} /\ ~had("affinity"))
                          THEN Nil ELSE AffinityToApi(want.affinity),
             cores |-> want.cores,
             cpulimit |-> NonZero(Tenths(want.limit)),
             numa |-> want.numa,
             sockets |-> want.sockets,
             cpu |-> CpuParam(want, cur, major),
             cpuunits |-> NonZero(want.units),
             vcpus |-> NonZero(want.vcores)],
            {p \in {"cpulimit", "cpuunits", "vcpus"} :
                \/ p = "cpulimit" /\ want.limit = 0 /\ had("limit")
                \/ p = "cpuunits" /\ want.units = 0 /\ cur # Nil
                \/ p = "vcpus" /\ want.vcores = 0 /\ had("vcores")})

\* A number that does not fit the type of its field loses its upper bits.
Narrow(n, size) == IF n = Nil THEN Nil ELSE n % size

\* parse.Uint: a limit loses its fraction.
LimitToSdk(tenths) == IF tenths = Nil THEN Nil ELSE tenths \div 10

\* QemuCPU.mapToSDK.
CpuToSdk(params) ==
    [affinity |-> IF params.affinity = Nil THEN Nil ELSE AffinityToSdk(params.affinity),
     cores |-> Narrow(params.cores, Uint8), limit |-> LimitToSdk(params.cpulimit),
     numa |-> params.numa, sockets |-> Narrow(params.sockets, Uint8),
     units |-> params.cpuunits, vcores |-> Narrow(params.vcpus, Uint16),
     type |-> IF params.cpu = Nil THEN Nil ELSE params.cpu.type,
     flags |-> IF params.cpu = Nil \/ params.cpu.flags = NoFlags THEN Nil
               ELSE params.cpu.flags]

\* CpuVirtualCores.Validate: at most cores * sockets, asked or else current, and
\* none when one of them is not known.
VcoresValid(want, cur) ==
    LET used(f) == Or(want[f], IF cur = Nil THEN 0 ELSE Or(cur[f], 0)) IN
    want.vcores <= used("cores") * used("sockets")

\* QemuCPU.Validate; "cores is required" on creation.
CpuValid(want, cur, major) ==
    /\ IF want.cores # Nil THEN want.cores \in 1..MaxCores ELSE cur # Nil
    /\ want.flags # Nil => \A f \in Flags : want.flags[f] \in TriBools \cup {Nil}
    /\ want.limit # Nil => want.limit <= MaxLimit
    /\ want.sockets # Nil => want.sockets \in 1..MaxSockets
    /\ want.type # Nil => TypeValid(want.type, major)
    /\ want.units # Nil => want.units <= MaxUnits
    /\ want.vcores # Nil => VcoresValid(want, cur)
=============================================================================
