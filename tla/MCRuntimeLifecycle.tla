------------------------- MODULE MCRuntimeLifecycle -------------------------
(* Two runtimes of one name in two workspaces, each with two workers; or two *)
(* of different names, and a lab of somebody else with the name of one of    *)
(* theirs.                                                                   *)
EXTENDS RuntimeLifecycle

MCRuntimes == {"x", "y"}
MCNamesakes == [r \in MCRuntimes |-> {"w01", "w02"}]
MCLabs == [r \in MCRuntimes |-> IF r = "x" THEN {"x-w01", "x-w02"} ELSE {"y"}]
MCOthers == {"y"}
MCOneTroubled == [r \in MCRuntimes |-> IF r = "x" THEN 2 ELSE 0]
MCBothTroubled == [r \in MCRuntimes |-> 1]
=============================================================================
