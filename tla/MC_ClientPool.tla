------------------------------ MODULE MC_ClientPool ----------------------------
(* Model-checking instance of ClientPool: the constants are given in the
   cfg files (a pool of two connections for one service, a few dials in
   all, one caller and the close callbacks of every connection). *)
EXTENDS ClientPool
=============================================================================
