----------------------------- MODULE MCIoFraming -----------------------------
(* IoFraming for TLC: three byte values, so that the bytes of the magic, the   *)
(* version, lengths and checksums turn up in each other's places.              *)
EXTENDS IoFraming

MCMagic == <<1, 0>>
=============================================================================
