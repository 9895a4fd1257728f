------------------------- MODULE MCGenerationStream -------------------------
(* Small instances of GenerationStream.                                    *)
EXTENDS GenerationStream

AllModes == [preserve : BOOLEAN, defer : BOOLEAN]
=============================================================================
