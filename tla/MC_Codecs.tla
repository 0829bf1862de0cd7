----------------------------- MODULE MC_Codecs -----------------------------
(* Messages for Codecs: every kind, with the lengths at its limits.        *)
EXTENDS Codecs

\* A fixed block: given bytes at given offsets, and the same byte elsewhere.
Fixed(kind, at) ==
    [i \in 1 .. FixedLen[kind] |-> IF i - 1 \in DOMAIN at THEN at[i - 1] ELSE 112]
Text(tag, n) == [i \in 1 .. n |-> 10 * tag + i]
Put(at, byte) == [o \in {at} |-> byte]

\* Two bytes of a length that is less than 256.
Put16(at, n) == [o \in {at, at + 1} |-> IF o = at THEN n ELSE 0]
And(f, g) == [o \in DOMAIN f \cup DOMAIN g |-> IF o \in DOMAIN g THEN g[o] ELSE f[o]]

Lens(kind, lens) ==
    LET offsets == StringLenAt[kind] IN
    [o \in Range(offsets) |->
        lens[CHOOSE i \in DOMAIN offsets : offsets[i] = o]]
Strings(kind, lens) ==
    Block(Fixed(kind, Lens(kind, lens)), [i \in DOMAIN lens |-> Text(i, lens[i])])
Msg(kind, fixed, tails, items, rest) ==
    [kind |-> kind, body |-> Body(fixed, tails, items, rest)]
LensOf(kind, N) == [DOMAIN StringLenAt[kind] -> N]

StringMessages(N) ==
    {LET b == Strings(k, lens) IN Msg(k, b.fixed, b.tails, <<>>, <<>>) :
        <<k, lens>> \in UNION {{k} \X LensOf(k, N) :
            k \in DOMAIN StringLenAt \ {"GetFirmwareParametersResponse", "ComponentParameterEntry"}}}

Entries(N) == {Strings("ComponentParameterEntry", lens) :
                lens \in LensOf("ComponentParameterEntry", N)}
Descriptors(N) == {Block(Fixed("Descriptor", Put16(2, n)), <<Text(3, n)>>) : n \in N}

Parameters(N, counts, entries) ==
    LET k == "GetFirmwareParametersResponse" IN
    {Msg(k, Fixed(k, And(Lens(k, lens), Put16(8, Len(t)))),
         [i \in DOMAIN lens |-> Text(i + 3, lens[i])], t, <<>>) :
        lens \in LensOf(k, N), t \in UNION {[1 .. c -> entries] : c \in counts}}
Identifiers(counts, descriptors) ==
    LET k == "QueryDeviceIdentifiersResponse" IN
    {Msg(k, Fixed(k, Put(8, Len(t))), <<>>, t, <<>>) :
        t \in UNION {[1 .. c -> descriptors] : c \in counts}}

\* The flag, and whether the value is there.
Options(kind, flags, given) ==
    {Msg(kind, Fixed(kind, Put(6, f)), <<IF given THEN Text(6, 4) ELSE <<>>>>, <<>>, <<>>) :
        f \in flags}
Payloads(kinds, at, N) ==
    {Msg(k, Fixed(k, at), <<>>, <<>>, Text(7, n)) : k \in kinds, n \in N}

\* A success that is the last part, under the header of a response to
\* GetPackageData with instance ID 6, and under that of an asynchronous
\* request of another type and command, which has the same ID.
LastPart    == And(Put(3, 0), Put(8, 1))
PackageData == And(LastPart, [o \in 0 .. 2 |-> <<6, 5, 17>>[o + 1]])
Foreign     == And(LastPart, [o \in 0 .. 2 |-> <<198, 66, 2>>[o + 1]])

\* RequestUpdate and UpdateComponent say of an option what they carry.
Built ==
    StringMessages(0 .. 2) \cup Parameters(0 .. 2, 0 .. 1, Entries(0 .. 2))
    \cup Parameters({1}, {2}, Entries({0, 2})) \cup Identifiers(1 .. 3, Descriptors(0 .. 2))
    \cup Payloads(OpenEnded, PackageData, 0 .. 3)
    \cup Options("RequestUpdateResponse", {2}, TRUE)
    \cup Options("RequestUpdateResponse", {0, 1}, FALSE)
    \cup Options("UpdateComponentResponse", {2, 7}, TRUE)
    \cup Options("UpdateComponentResponse", {0, 5}, FALSE)

\* A peer whose strings, descriptors and lists may be longer by one or two.
FromPeers ==
    StringMessages(0 .. 4) \cup Parameters({0, 3}, 0 .. 1, Entries({0, 2, 3}))
    \cup Parameters({2}, {3, 4}, Entries({1})) \cup Identifiers(0 .. 4, Descriptors({1, 3}))
    \cup Payloads(OpenEnded, Foreign, {1, 4}) \cup Options("RequestUpdateResponse", {2}, FALSE)
    \cup Options("UpdateComponentResponse", {2}, FALSE)

\* update_component_rsp echoes the flags of the request and gives no size.
Echoed == Options("UpdateComponentResponse", 0 .. 7, FALSE)
NoPeers == {}

\* Up to more than the longest message built.
AnyLength == 0 .. 110
=============================================================================
