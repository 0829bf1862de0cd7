--------------------------- MODULE MC_FdUaSystem ---------------------------
(* Values for the constants of FdUaSystem that a .cfg cannot write.        *)
EXTENDS FdUaSystem

CONSTANTS old, new

Offered  == {old, new}
Sizes    == old :> 1 @@ new :> 2
Ranges   == {<<0, 1>>, <<1, 1>>}

\* Two firmwares for one component, which runs a still older one at first.
\* Their version strings are of different types: only the stamps order them.
Firmwares ==
    old :> [key |-> 1, stamp |-> 1, version |-> Eligibility!Version("ASCII", 1)] @@
    new :> [key |-> 1, stamp |-> 2, version |-> Eligibility!Version("UTF-8", 2)]

FactoryTable == << [key |-> 1, stamp |-> 0, version |-> Eligibility!Version("ASCII", 0)] >>
=============================================================================
