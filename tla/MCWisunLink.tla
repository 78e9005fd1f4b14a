---------------------------- MODULE MCWisunLink ----------------------------
(* A small instance of WisunLink for TLC. *)
EXTENDS WisunLink
=============================================================================
