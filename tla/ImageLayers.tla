----------------------------- MODULE ImageLayers -----------------------------
(***************************************************************************)
(* How ibosh reads one file, the BOSH manifest, out of an image in the     *)
(* registry without pulling the image.  An image is a sequence of layers,  *)
(* each with a version of the file or without it.                          *)
(***************************************************************************)
EXTENDS Integers, Sequences

CONSTANT NoFile   \* a layer that does not have the file; no layer that can be read has it

\* From the top: a layer that cannot be fetched or is not a tar archive to the end is
\* skipped like one without the file.
ExtractFileFromImage(layers, skipped) ==
  LET found == {i \in DOMAIN layers \ skipped : layers[i] # NoFile}
      topmost == {i \in found : \A j \in found : j <= i} IN
  IF topmost = {} THEN NoFile ELSE layers[CHOOSE i \in topmost : TRUE]
=============================================================================
