----------------------------- MODULE Ext2CrashMC -----------------------------
(***************************************************************************)
(* Ext2Crash for TLC, with the view of Ext2MC.                             *)
(***************************************************************************)
EXTENDS Ext2Crash, Ext2MC

VisibleCrash == <<Visible, crashes, torn>>
=============================================================================
