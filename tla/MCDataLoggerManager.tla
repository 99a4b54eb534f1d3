------------------------ MODULE MCDataLoggerManager ------------------------
(***************************************************************************)
(* One logger and one device, which are all that the life of a logged      *)
(* device depends on.                                                      *)
(***************************************************************************)
EXTENDS DataLoggerManager
CONSTANTS s1, d1, c1
MCServerList == <<s1>>
MCClassOf == [d \in Devices |-> c1]
=============================================================================
