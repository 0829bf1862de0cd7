------------------------ MODULE ComponentEligibility ------------------------
(***************************************************************************)
(* Whether a component may be updated: the judgement of an offer, an entry *)
(* of PassComponentTable or UpdateComponent, against the firmware          *)
(* parameters of the device (fw_component.rs, get_fw_params.rs).           *)
(*                                                                         *)
(* A version is its string type and a number that orders its text the way  *)
(* the bytes of the text are ordered.  The classification, identifier and  *)
(* index that name a component are its key.                                *)
(***************************************************************************)
EXTENDS Integers, Sequences

CONSTANTS
    MaxComponentCount,   \* MAX_COMPONENT_COUNT, the size of comp_param_table
    ZeroKey,             \* classification, identifier and index 0
    Unspecified          \* VersionStringType::Unspecified

Version(type, text) == [type |-> type, text |-> text]

\* ComponentParameterEntry::default(): nothing but zeros.
DefaultEntry == [key |-> ZeroKey, stamp |-> 0, version |-> Version(Unspecified, 0)]

\* The entry of a component that runs what was offered.
EntryOf(offer) == [key |-> offer.key, stamp |-> offer.stamp, version |-> offer.version]

\* FirmwareParameters::new: the first MaxComponentCount entries of what the
\* platform passes, and default entries behind them, whatever comp_count says.
ParamTable(entries) ==
    [ i \in 1 .. MaxComponentCount |->
          IF i <= Len(entries) THEN entries[i] ELSE DefaultEntry ]

\* PartialOrd of PldmFirmwareString: strings of different types have no order.
Below(v, w) == v.type = w.type /\ v.text < w.text

\* The entries of a table that name the component, and the first of them.
Entries(key, table) == { i \in DOMAIN table : table[i].key = key }

FirstEntry(key, table) ==
    CHOOSE i \in Entries(key, table) : \A j \in Entries(key, table) : i <= j

\* The variants of ComponentResponseCode that are given.
CanBeUpdated          == 0
ComparisonStampEqual  == 1
ComparisonStampLower  == 2
NotSupported          == 6
VerStrIdentical       == 10
VerStrLower           == 11

\* Mutant: the version alone decides about entries with a lower stamp.
Judge_StampEqualOnly(offer, active) ==
    CASE offer.stamp = active.stamp             -> ComparisonStampEqual
      [] offer.version = active.version         -> VerStrIdentical
      [] Below(offer.version, active.version)   -> VerStrLower
      [] OTHER                                  -> CanBeUpdated

\* The comparison with the active firmware, in the order of the code.
Judge(offer, active) ==
    CASE offer.stamp = active.stamp             -> ComparisonStampEqual
      [] offer.stamp < active.stamp             -> ComparisonStampLower
      [] offer.stamp > active.stamp
         /\ offer.version = active.version      -> VerStrIdentical
      [] offer.stamp > active.stamp
         /\ Below(offer.version, active.version) -> VerStrLower
      [] OTHER                                  -> CanBeUpdated

evaluate_update_eligibility(offer, table) ==
    IF Entries(offer.key, table) = {} THEN NotSupported
    ELSE Judge(offer, table[FirstEntry(offer.key, table)])
=============================================================================
