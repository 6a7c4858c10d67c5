--------------------------- MODULE MCFileReader ---------------------------
(***************************************************************************)
(* Files of up to three bytes whose links serve up to four, read into      *)
(* buffers of up to three: shorter than, as long as and longer than what   *)
(* remains.                                                                *)
(***************************************************************************)
EXTENDS FileReader
=============================================================================
