------------------------- MODULE MCAddressResolution --------------------------
(* AddressResolution as it is: its constants are numbers and strings.      *)
EXTENDS AddressResolution
=============================================================================
