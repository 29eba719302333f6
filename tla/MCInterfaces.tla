---------------------------- MODULE MCInterfaces ----------------------------
(***************************************************************************)
(* Two interfaces and three addresses.  Three sockets are enough: two, and *)
(* one that is made while another is still there.                          *)
(***************************************************************************)
EXTENDS Interfaces

MCIfaces == 1 .. 2
MCSocketIds == 1 .. 3
=============================================================================
