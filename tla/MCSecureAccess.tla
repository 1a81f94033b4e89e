--------------------------- MODULE MCSecureAccess ---------------------------
(***************************************************************************)
(* Instances of SecureAccess for TLC.                                      *)
(***************************************************************************)
EXTENDS SecureAccess

CONSTANTS m1, m2

Two == {m1, m2}

AllSpecs == {s \in SpecType : Validate(s)}
AllSupplies == SupplyType
=============================================================================
