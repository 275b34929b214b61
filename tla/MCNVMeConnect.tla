----------------------------- MODULE MCNVMeConnect -----------------------------
(* One NVMe call, with more devices than discoverDevice takes.               *)
EXTENDS NVMeConnect
================================================================================
