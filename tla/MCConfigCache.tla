--------------------------- MODULE MCConfigCache ---------------------------
(***************************************************************************)
(* A small instance of ConfigCache: three tenants on two places.  One      *)
(* is saved twice and behaves; the others are sent two documents under one *)
(* version, against the platform's promise, one of which does not decode.  *)
(***************************************************************************)
EXTENDS ConfigCache, TLC

CONSTANTS t1, t2, t3, v1, v2, invalid, g1, g2

MCDecodeOf == (v1 :> g1) @@ (v2 :> g2) @@ (invalid :> DecodeError)

MCSends ==
    [k \in Keys |->
        CASE k = <<t1, 1>> -> {v1}
          [] k = <<t1, 2>> -> {v2}
          [] k = <<t2, 1>> -> {v1, v2}
          [] k = <<t3, 1>> -> {v2, invalid}
          [] OTHER -> {}]
=============================================================================
