---------------------------- MODULE MCValUpdates ------------------------------
(* Two keys that PubKeyFromProto accepts and one of the wrong length; five *)
(* key strings: one per key, a second spelling of k1 (a line break inside  *)
(* the base64), and one that is not base64.                                *)
EXTENDS ValUpdates

CONSTANTS s1, s2, s1nl, sshort, sbad, k1, k2, kshort, notB64

MCDecode == (s1 :> k1) @@ (s2 :> k2) @@ (s1nl :> k1) @@ (sshort :> kshort) @@ (sbad :> notB64)
MCGenesis == (k1 :> 1) @@ (k2 :> 0) @@ (kshort :> 0)
=============================================================================
