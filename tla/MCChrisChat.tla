---------------------------- MODULE MCChrisChat ----------------------------
(* ChrisChat with an agent of the hub and one from outside. *)
EXTENDS ChrisChat
CONSTANTS own, outside

MCAgent == {own, outside}
MCUnverified == {outside}
=============================================================================
