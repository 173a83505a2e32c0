-------------------------- MODULE MC_ServerConnection --------------------------
(* The composed connection model, instantiated with the sizes in the cfg. *)
EXTENDS ServerConnection

(* Varint lengths around every byte boundary of the 4-byte S2: 63 and 64 *)
(* take one and two bytes, 8192 three, 2^20 four; 2^20 + 1 is one byte   *)
(* past the read loop's buffer; 2^27 no longer fits the 4 bytes.         *)
BoundarySizes == {63, 64, 8192, 1048576, 1048577, 134217728}
====
