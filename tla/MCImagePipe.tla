----------------------------- MODULE MCImagePipe -----------------------------
(* A small instance of the image pipeline with pipes for TLC.                 *)
EXTENDS ImagePipe

\* One inner pixel, two of them in a row or in a column, and two rows of three.
SmallSizes == {<<3, 3>>, <<4, 3>>, <<3, 4>>, <<5, 4>>}
=============================================================================
