---------------------------- MODULE MCQemuUpdate ----------------------------
(* QemuUpdate for TLC: one change of every class, so that every step of    *)
(* the update has something to do and every step can be the one that fails *)
(* while the others have been done or not.                                 *)
EXTENDS QemuUpdate

CONSTANTS disk, grown, tpm, device, option, fresh, pool, ha, foreign

OneMove == {disk}
OneResize == {grown}
OneTpm == {tpm}
OneRecreate == {device}
OneOption == {option}
OneNewDisk == {fresh}
=============================================================================
