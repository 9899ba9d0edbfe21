------------------------------- MODULE MCPcm --------------------------------
(* Pcm on a small machine. *)
EXTENDS Pcm

MCSettings == [platform : Platforms, serial : BOOLEAN]
MCWindows  == {[platform |-> "windows", serial |-> FALSE]}
=============================================================================
