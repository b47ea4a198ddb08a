------------------------------ MODULE MCVncVm ------------------------------
(***************************************************************************)
(* VncVm for TLC: three overlapping resets, the exit at any time, and two  *)
(* display objects, one more than the VM may ever use.                     *)
(***************************************************************************)
EXTENDS VncVm
=============================================================================
