------------------------- MODULE MC_CmdInterface -------------------------
(* A table, requests and buffers for CmdInterface.                         *)
EXTENDS CmdInterface, PldmVersion

\* The examples of version.rs: 3.7.10a, 3.1 and 1.0a.
Ver32(text) == bcd_encode_to_ver32(try_from(text))
ASSUME DocumentedVersions ==
    /\ Ver32(<<Part(3, 0), Part(7, 0), Part(10, 97)>>)
         = [major |-> 243, minor |-> 247, update |-> 16, alpha |-> 97]
    /\ Ver32(<<Part(3, 0), Part(1, 0)>>)
         = [major |-> 243, minor |-> 241, update |-> 255, alpha |-> 0]
    /\ Ver32(<<Part(1, 0), Part(0, 97)>>)
         = [major |-> 241, minor |-> 240, update |-> 255, alpha |-> 97]

\* ProtocolCapability::new.
Cap(type, version, cmds) == [pldm_type |-> type, version |-> version, commands |-> cmds]

V100 == Ver32(<<Part(1, 0), Part(0, 0), Part(0, 0)>>)
V110 == Ver32(<<Part(1, 0), Part(1, 0), Part(0, 0)>>)
V130 == Ver32(<<Part(1, 0), Part(3, 0), Part(0, 0)>>)
V12  == Ver32(<<Part(1, 0), Part(2, 0)>>)

\* Two versions of the firmware update type, as the tests of ControlContext
\* have them, the older without a command of the newer; the four requests an
\* FD sends are listed, as in config.rs; and a type with no handler.
Table ==
    <<Cap("Base", V110, ControlCmds),
      Cap("FwUpdate", V130, {"RequestUpdate", "GetStatus", "TransferComplete", "UpdateComponent"}),
      Cap("FwUpdate", V12, {"RequestUpdate", "TransferComplete", "CancelUpdate"}),
      Cap("Oem", V100, {"vendor"})>>

Requested(type, cmd, arg) ==
    [hdr |-> NewHeader(3, Request), pldm_type |-> type, cmd_code |-> cmd, arg |-> arg]

Types == {"Base", "FwUpdate", "Oem", "Fru"}

Requests ==
    {Requested("Base", cmd, <<>>) : cmd \in {"GetTid", "GetPldmTypes", "unknown"}}
    \cup {Requested("Base", "SetTid", <<t>>) : t \in {0, 1, 2}}
    \cup {Requested("Base", "GetPldmCommands", <<type, v>>) :
            type \in Types, v \in {V110, V130, V12}}
    \cup {Requested("Base", "GetPldmVersion", <<type, flag, 0>>) :
            type \in Types, flag \in {"GetFirstPart", "GetNextPart"}}
    \cup {Requested("FwUpdate", cmd, <<>>) :
            cmd \in {"RequestUpdate", "GetStatus", "TransferComplete", "CancelUpdate",
                    "UpdateComponent"}}
    \cup {Requested("Oem", "vendor", <<>>), Requested("Fru", "vendor", <<>>)}

\* With a response, a header of another version, and notifications that are
\* answered from a new header, from that of the request, and with a failure.
AnyMessage ==
    Requests \cup
    {[Requested("Base", "GetTid", <<>>) EXCEPT !.hdr = NewHeader(3, Response)],
     [Requested("Base", "GetTid", <<>>) EXCEPT !.hdr.hdr_ver = 1]} \cup
    {[m EXCEPT !.hdr = NewHeader(4, AsyncRequestNotify)] :
        m \in {Requested("Base", "GetTid", <<>>), Requested("Fru", "vendor", <<>>),
               Requested("Base", "GetPldmVersion", <<"Base", "GetFirstPart", 0>>)}}
=============================================================================
