---------------------------- MODULE Fat32PowerMC ----------------------------
(***************************************************************************)
(* The instances of Fat32MC for Fat32Power.                                *)
(***************************************************************************)
EXTENDS Fat32MC, Fat32Power
=============================================================================
