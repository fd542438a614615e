-------------------------- MODULE MCClientRouting --------------------------
(* Two certificates that overlap in one domain.                            *)
EXTENDS ClientRouting
CONSTANTS a, b, d1, d2
MCCertDomains == [s \in {a, b} |-> IF s = a THEN {d1, d2} ELSE {d2}]
=============================================================================
