---------------------------- MODULE MCGuiServer ----------------------------
EXTENDS GuiServer
CONSTANTS srv, dev, i1, i2, c1, c2
MCServerOf == [i \in Instances |-> IF i = dev THEN srv ELSE None]
MCSetups ==
    {[throttler |-> TRUE, calls |-> 6, ops |-> 0, watching |-> {},
      instances |-> {srv, dev}, infos |-> {i1, i2}],
     [throttler |-> FALSE, calls |-> 1, ops |-> 3, watching |-> {},
      instances |-> {dev}, infos |-> {i1}],
     [throttler |-> FALSE, calls |-> 3, ops |-> 1, watching |-> {c1},
      instances |-> {dev}, infos |-> {i1}],
     [throttler |-> FALSE, calls |-> 1, ops |-> 2, watching |-> {c1},
      instances |-> {dev}, infos |-> {i1}]}
=============================================================================
