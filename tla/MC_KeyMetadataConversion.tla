----------------------- MODULE MC_KeyMetadataConversion -----------------------
(* The TLC instance of KeyMetadataConversion: binary certificates of up   *)
(* to two bytes, chains of up to three certificates, and up to two        *)
(* hardware- and two software-enforced parameters.                        *)
EXTENDS KeyMetadataConversion

CONSTANTS p1, p2, v1, v2

(* convert_from_wire on the two wire parameters.                          *)
MC_FromWire == [p \in {p1, p2} |-> IF p = p1 THEN v1 ELSE v2]
=============================================================================
