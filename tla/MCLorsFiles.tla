----------------------------- MODULE MCLorsFiles ----------------------------
(* The exnode file and its tools, on a file of a few bytes.  The ranges cut *)
(* a mapping at its start or in its middle, or two at their ends; a range   *)
(* that is changed twice replaces a mapping.                                *)
EXTENDS LorsFiles

MCRanges == {<<0, 1>>, <<1, 1>>, <<2, 2>>}
=============================================================================
