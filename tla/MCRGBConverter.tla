--------------------------- MODULE MCRGBConverter ---------------------------
(* Model checking the RGB converter.                                       *)
EXTENDS RGBConverter
=============================================================================
