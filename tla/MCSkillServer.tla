--------------------------- MODULE MCSkillServer ---------------------------
(***************************************************************************)
(* Two goroutines and one node type, registered or not.  Tenant t1 sends   *)
(* a config that decodes, t2 one that does not, and a call without version *)
(* brings either.                                                          *)
(***************************************************************************)
EXTENDS SkillServer

CONSTANTS t1, t2, v1, v2, invalid, g1, g2

MCDecodeOf ==
    [v \in Values |-> IF v = invalid THEN DecodeError ELSE IF v = v1 THEN g1 ELSE g2]

MCSends ==
    [k \in Keys |-> IF k = <<t2, 1>> THEN {invalid} ELSE IF k = <<t1, 2>> THEN {v2} ELSE {v1}]

CallerSymmetry == Permutations(Callers)
=============================================================================
