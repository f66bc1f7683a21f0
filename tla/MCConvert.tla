------------------------------ MODULE MCConvert ------------------------------
(* A small instance of Convert. *)
EXTENDS Convert

SmallTexts   == {"", "a", "b"}
SmallFormats == {"jpeg", "unknown"}
SmallHalves  == -20..20
SmallSpacings == {1, 2, 4, 8}
=============================================================================
