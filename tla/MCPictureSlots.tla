---------------------------- MODULE MCPictureSlots ----------------------------
(* Model checking the slots of an MPEG video's pictures.                   *)
EXTENDS PictureSlots

AllLevels == None .. DropAll
=============================================================================
