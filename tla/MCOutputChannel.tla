-------------------------- MODULE MCOutputChannel --------------------------
(***************************************************************************)
(* Two input channel ids and two connections: either both inputs are       *)
(* connected, or one of them connects again or replaces its connection.    *)
(* The configurations mix the ways to share and the reactions to slowness. *)
(* One chunk is always the writer's; with three calls of the writer and    *)
(* three chunks the chunks run out, also before a final end-of-stream, and *)
(* with two calls when that one is written.                                *)
(***************************************************************************)
EXTENDS OutputChannel
CONSTANTS i1, i2

Both(d1, d2) == [id \in Ids |-> IF id = i1 THEN d1 ELSE d2]

SetupOf(noInput, d1, d2, s1, s2, selector, n) ==
    [noInputShared |-> noInput, distribution |-> Both(d1, d2),
     slowness |-> Both(s1, s2), selector |-> selector, calls |-> n]

SharedQueue == SetupOf("queueDrop", "shared", "shared", "drop", "drop", FALSE, 3)
SharedWait == SetupOf("wait", "shared", "shared", "drop", "drop", FALSE, 2)
Selected == SetupOf("queueDrop", "shared", "shared", "drop", "drop", TRUE, 2)
CopyQueueWait == SetupOf("drop", "copy", "copy", "queueDrop", "wait", FALSE, 2)
MixedDrop == SetupOf("drop", "shared", "copy", "drop", "drop", FALSE, 2)
Mixed == SetupOf("queueDrop", "shared", "copy", "drop", "queueDrop", FALSE, 2)

AllSetups ==
    {SharedQueue, SharedWait, Selected, CopyQueueWait, MixedDrop, Mixed}

MixedWait == SetupOf("wait", "shared", "copy", "drop", "wait", FALSE, 2)

WaitingSetups == {MixedWait}
=============================================================================
