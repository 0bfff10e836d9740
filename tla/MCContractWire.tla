--------------------------- MODULE MCContractWire ---------------------------
(***************************************************************************)
(* An instance of ContractWire for TLC: every integer and integral double  *)
(* below, at and above the last exact one, and a value of each other kind. *)
(***************************************************************************)
EXTENDS ContractWire

MCValue ==
    [kind : {"int"}, n : 0..(2 * Exact - 1)]
    \cup {v \in [kind : {"float"}, n : 0..(2 * Exact - 1)] : Amount(v)}
    \cup [kind : Other, n : {0}]
=============================================================================
