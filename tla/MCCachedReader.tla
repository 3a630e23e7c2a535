--------------------------- MODULE MCCachedReader ---------------------------
(***************************************************************************)
(* CachedReader for TLC: files of up to eight bytes, buffers of up to nine *)
(* and reads of up to nine.                                                *)
(***************************************************************************)
EXTENDS CachedReader

MCFileSizes == 0..8
MCCacheSizes == {1, 2, 3, 5, 9}
MCRequests == 0..9
=============================================================================
