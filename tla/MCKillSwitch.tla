---------------------------- MODULE MCKillSwitch ---------------------------
(***************************************************************************)
(* A small instance of KillSwitch.  One exchange is enough: exchanges meet *)
(* only where a tier waits for all of them, and a tier may take any time.  *)
(***************************************************************************)
EXTENDS KillSwitch
CONSTANTS t1, t2, t3, A
=============================================================================
