---------------------------- MODULE MCImageShared ----------------------------
(* Instances of the image pipelines for TLC: the constants are in the cfg.    *)
EXTENDS ImageShared
=============================================================================
