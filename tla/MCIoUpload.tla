----------------------------- MODULE MCIoUpload -----------------------------
(* IoUpload for TLC: two images of two chunks, so that their chunks can be     *)
(* mixed, and one of one chunk, which may be invalid.                          *)
EXTENDS IoUpload

MCChunks == [i \in Image |-> IF i = "tiny" THEN 1 ELSE 2]
=============================================================================
