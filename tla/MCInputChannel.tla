--------------------------- MODULE MCInputChannel ---------------------------
(***************************************************************************)
(* One or two output channels that send four messages in total: enough to  *)
(* fill both pots with two items, or for a second stream.  "minData" 0,    *)
(* with which a pot is never waited for, is for a single one.              *)
(***************************************************************************)
EXTENDS InputChannel
CONSTANTS o1, o2

OneOrTwo ==
    [outputs : {{o1}, {o1, o2}}, minData : {1, 2}] \cup [outputs : {{o1}}, minData : {0}]
=============================================================================
