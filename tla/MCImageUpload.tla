---------------------------- MODULE MCImageUpload ----------------------------
(* Instances of ImageUpload for TLC. *)
EXTENDS ImageUpload, TLC

CONSTANTS t1, t2, image

TwoTasks == {t1, t2}
OneImage == {image}
================================================================================
