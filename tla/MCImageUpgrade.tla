--------------------------- MODULE MCImageUpgrade ---------------------------
(* ImageUpgrade for TLC: what the images are made of. *)
EXTENDS ImageUpgrade, TLC

CONSTANTS d1, d2

\* One manifest overlaid by another, and an image with a layer on top of its manifest.
MCLayers == d1 :> <<"old", "new">> @@ d2 :> <<"old", NoFile>>
=============================================================================
