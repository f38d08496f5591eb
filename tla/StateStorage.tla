---------------------------- MODULE StateStorage ----------------------------
(* The state store and the form in which it stores: the savers of          *)
(* StateStore write the data that StateKeyCodec builds.                    *)
EXTENDS StateStore, StateKeyCodec

(* What the savers are about to write is what will be read: whatever the   *)
(* names of manifests and objects, no entry is lost or renamed on the way  *)
(* into a ConfigMap and back.  Otherwise it would reappear as removed and  *)
(* added, and --prune would delete by a wrong key.  (The codec has no      *)
(* state, so it is looked at before the first save only.)                  *)
StatesSurviveStorage == (\A x \in Savers : pc[x] = "start") => StoringIsLossless
=============================================================================
