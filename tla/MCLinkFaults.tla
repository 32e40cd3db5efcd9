---------------------------- MODULE MCLinkFaults ----------------------------
(***************************************************************************)
(* One link: between two switches, or the access link of a client.         *)
(***************************************************************************)
EXTENDS LinkFaults

CONSTANTS target, peer

MCFabricOrAccess == {{}, {peer}}
MCAccess == {{peer}}
MCDown == {"link_down"}
MCFlapping == {"link_flapping"}
=============================================================================
