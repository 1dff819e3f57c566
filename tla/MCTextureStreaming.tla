------------------------- MODULE MCTextureStreaming -------------------------
(* Two textures and two indices, so that an index changes hands.            *)
EXTENDS TextureStreaming, TLC

Symmetric == Permutations(Keys)
=============================================================================
