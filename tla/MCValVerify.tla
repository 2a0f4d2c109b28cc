---------------------------- MODULE MCValVerify ----------------------------
(* An instance of ValVerify for TLC: three VALs that share signatures. *)
EXTENDS ValVerify

CONSTANTS a, b, c, d, v1, v2, v3

\* v3 carries, besides, a signature that does not check.
SharedSigs ==
    [v \in Val |-> CASE v = v1 -> {a, b}
                     [] v = v2 -> {b, c}
                     [] v = v3 -> {a, c, d}]
OneSync == {{b, c}}
=============================================================================
