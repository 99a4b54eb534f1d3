---------------------------- MODULE InputChannel ----------------------------
(***************************************************************************)
(* karabo::xms::InputChannel (xms/InputChannel.cc): a receiver of pipeline *)
(* data.  Data arrives from several output channels and is collected in    *)
(* the inactive one of two "pots".  When that is complete, i.e. has        *)
(* "minData" items or the end of the stream, the pots are swapped, and     *)
(* triggerIOEvent() works on the active one while the other one is filled. *)
(* An output channel only sends when it was asked to ("update").           *)
(*                                                                         *)
(* Whatever runs under m_twoPotsMutex or m_outputChannelsMutex is one      *)
(* action.  The connections exist already; they can be lost or closed.     *)
(* Handlers for data and end-of-stream are registered and                  *)
(* "respondToEndOfStream" is true, the default.                            *)
(***************************************************************************)
EXTENDS Integers, Sequences, FiniteSets

CONSTANTS
    Outputs,      \* names of output channels
    Setups,       \* which of them the input is connected to, with its "minData"
    MaxMsgs       \* bound: messages that the output channels send in total

ASSUME OutputsAssumption == IsFiniteSet(Outputs)
ASSUME SetupsAssumption ==
    Setups \subseteq [outputs : (SUBSET Outputs) \ {{}}, minData : Nat]
ASSUME BoundsAssumption == MaxMsgs \in Nat

VARIABLES
    outputs,      \* the output channels that were connected
    minData,      \* m_minData
    open,         \* m_openConnections
    eosChannels,  \* m_eosChannels
    active,       \* m_activeChunk: [data, eos]
    inactive,     \* m_inactiveChunk
    posted,       \* calls of triggerIOEvent() posted to m_strand
    handling,     \* triggerIOEvent() after unlocking m_twoPotsMutex
    reading,      \* per channel: what its read handler has still to do
    link,         \* per channel: TCP connection is "up", "lost" or "closed"
    wire,         \* "update" requests on their way to the output channel
    ready,        \* the output channel may send (its m_copyNext)
    toInput,      \* messages on their way to the input channel
    sent,         \* number of messages that the output channels sent
    items,        \* history: number of data items sent, read, and handled, i.e.
                  \* the round of handlers for their pot is over
    eos           \* history: end-of-streams read per channel, treated, handled
                  \* by a call of the handler, skipped by an exception

pots == <<active, inactive>>
connections == <<open, eosChannels>>
output == <<wire, ready, sent>>
config == <<outputs, minData>>
vars == <<config, connections, pots, posted, handling, reading, link, output,
          toInput, items, eos>>

Empty == [data |-> <<>>, eos |-> FALSE]
NotHandling == [busy |-> FALSE, data |-> <<>>, eos |-> FALSE, next |-> FALSE]

Filled(pot) == pot.data # <<>> \/ pot.eos

Init ==
    /\ \E s \in Setups : outputs = s.outputs /\ minData = s.minData
    /\ open = outputs
    /\ eosChannels = {}
    /\ active = Empty /\ inactive = Empty
    /\ posted = 0
    /\ handling = NotHandling
    /\ reading = [o \in Outputs |-> "idle"]
    /\ link = [o \in Outputs |-> IF o \in outputs THEN "up" ELSE "closed"]
    /\ wire = [o \in Outputs |-> 0]
    /\ ready = [o \in Outputs |-> o \in outputs]   \* "hello" was said
    /\ toInput = [o \in Outputs |-> <<>>]
    /\ sent = 0
    /\ items = [o \in Outputs |-> [sent |-> 0, read |-> 0, handled |-> 0]]
    /\ eos = [read |-> [o \in Outputs |-> 0], treated |-> 0, handled |-> 0,
              skipped |-> 0]

-----------------------------------------------------------------------------
(* The output channel, reduced to what OutputChannel::onInputAvailable()   *)
(* and update() do for one copy input: several requests count as one.      *)
outputReady(o) ==
    /\ wire[o] > 0
    /\ wire' = [wire EXCEPT ![o] = @ - 1]
    /\ ready' = [ready EXCEPT ![o] = TRUE]
    /\ UNCHANGED <<config, connections, pots, posted, handling, reading, link,
                   sent, toInput, items, eos>>

(* A data item is its number; 0 is an end-of-stream.                       *)
outputSend(o) ==
    /\ ready[o] /\ sent < MaxMsgs
    /\ ready' = [ready EXCEPT ![o] = FALSE]
    /\ sent' = sent + 1
    /\ \/ /\ toInput' = [toInput EXCEPT ![o] = Append(@, 0)]
          /\ UNCHANGED items
       \/ /\ toInput' = [toInput EXCEPT ![o] = Append(@, items[o].sent + 1)]
          /\ items' = [items EXCEPT ![o].sent = @ + 1]
    /\ UNCHANGED <<config, connections, pots, posted, handling, reading, link,
                   wire, eos>>

-----------------------------------------------------------------------------
(* notifyOutputChannelForPossibleRead(): a request is lost if the link is. *)
(* More requests than messages that are left (bound MaxMsgs) would make no *)
(* difference.                                                             *)
Requested(S) ==
    [o \in Outputs |-> IF o \in S /\ link[o] = "up" /\ wire[o] <= MaxMsgs - sent
                         THEN wire[o] + 1 ELSE wire[o]]

(* All open connections have sent the end of the stream (mutant: the first *)
(* one counts)                                                             *)
FirstEos(channels) == channels # {}

LastEos(channels) == Cardinality(channels) >= Cardinality(open)

(* The inactive pot after a message; any end-of-stream mark is overwritten *)
(* (mutant: the data is overwritten, too).                                 *)
CollectedAnew(o, msg, treat) ==
    [data |-> IF msg = 0 THEN inactive.data ELSE <<<<o, msg>>>>, eos |-> treat]

Collected(o, msg, treat) ==
    [data |-> IF msg = 0 THEN inactive.data ELSE Append(inactive.data, <<o, msg>>),
     eos |-> treat]

(* In onTcpChannelRead(), "minData" = 0 waits for the end of the stream    *)
(* (mutant: the end of the stream does not complete a pot).                *)
CompleteByData(pot) == minData > 0 /\ Len(pot.data) >= minData

Complete(pot) == pot.eos \/ (minData > 0 /\ Len(pot.data) >= minData)

(* onTcpChannelRead(), up to unlocking m_twoPotsMutex                      *)
onTcpChannelRead(o) ==
    /\ link[o] = "up" /\ reading[o] = "idle" /\ toInput[o] # <<>>
    /\ LET msg == Head(toInput[o])
           channels == IF msg = 0 THEN eosChannels \cup {o} ELSE eosChannels
           treat == msg = 0 /\ LastEos(channels)
           pot == Collected(o, msg, treat)
       IN  /\ eosChannels' = channels
           /\ toInput' = [toInput EXCEPT ![o] = Tail(@)]
           /\ items' = IF msg = 0 THEN items ELSE [items EXCEPT ![o].read = msg]
           /\ eos' = [eos EXCEPT !.read[o] = IF msg = 0 THEN @ + 1 ELSE @,
                                 !.treated = IF treat THEN @ + 1 ELSE @]
           /\ \/ /\ ~Complete(pot)
                 /\ inactive' = pot
                 /\ reading' = [reading EXCEPT ![o] = "notify"]
                 /\ UNCHANGED active
              \/ /\ Complete(pot) /\ ~Filled(active)
                 /\ active' = pot /\ inactive' = active
                 /\ reading' = [reading EXCEPT ![o] = "post"]
              \/ /\ Complete(pot) /\ Filled(active)
                 /\ inactive' = pot
                 /\ UNCHANGED <<active, reading>>
    /\ UNCHANGED <<config, open, posted, handling, link, output>>

(* ... and the rest of it: start triggerIOEvent(), ask for more, read on   *)
(* (mutant: triggerIOEvent() is never posted)                              *)
PostedNever(o) == 0

PostedAfterRead(o) == IF reading[o] = "post" THEN 1 ELSE 0

afterRead(o) ==
    /\ reading[o] \in {"post", "notify"}
    /\ posted' = posted + PostedAfterRead(o)
    /\ wire' = Requested({o})
    /\ reading' = [reading EXCEPT ![o] = "idle"]
    /\ UNCHANGED <<config, connections, pots, handling, link, ready, sent,
                   toInput, items, eos>>

(* triggerIOEvent(), up to unlocking m_twoPotsMutex.  Here "minData" = 0   *)
(* swaps always.                                                           *)
TooEarly(pot) == Len(pot.data) < minData /\ ~pot.eos

triggerIOEvent ==
    /\ posted > 0 /\ ~handling.busy
    /\ posted' = posted - 1
    /\ active' = IF TooEarly(inactive) THEN Empty ELSE inactive
    /\ inactive' = IF TooEarly(inactive) THEN inactive ELSE Empty
    /\ handling' = [busy |-> TRUE, data |-> active.data, eos |-> active.eos,
                    next |-> ~TooEarly(inactive)]
    /\ UNCHANGED <<config, connections, reading, link, output, toInput, items, eos>>

(* ... and the rest of it: the data handler for each item, then the        *)
(* end-of-stream handler, then post the next round and ask all for more    *)
(* (mutant: nobody is asked).  The round ends early if a handler throws.   *)
NotifiedNobody == {}

NotifiedAfterSwap == IF handling.next THEN open ELSE {}

ItemsOf(o, data) == {i \in 1..Len(data) : data[i][1] = o}

(* The end-of-stream handler comes last: it is skipped if the handler of   *)
(* an item in the same pot throws.                                         *)
AfterEosHandler ==
    IF ~handling.eos THEN {eos}
    ELSE {[eos EXCEPT !.handled = @ + 1]} \cup
         (IF handling.data = <<>> THEN {} ELSE {[eos EXCEPT !.skipped = @ + 1]})

callHandlers ==
    /\ handling.busy
    /\ items' = [o \in Outputs |->
          [items[o] EXCEPT !.handled = @ + Cardinality(ItemsOf(o, handling.data))]]
    /\ eos' \in AfterEosHandler
    /\ posted' = IF handling.next THEN posted + 1 ELSE posted
    /\ wire' = Requested(NotifiedAfterSwap)
    /\ handling' = NotHandling
    /\ UNCHANGED <<config, connections, pots, reading, link, ready, sent, toInput>>

-----------------------------------------------------------------------------
(* The output channel or the network goes away                             *)
Cut(o, how) ==
    /\ link' = [link EXCEPT ![o] = how]
    /\ wire' = [wire EXCEPT ![o] = 0]
    /\ ready' = [ready EXCEPT ![o] = FALSE]
    /\ toInput' = [toInput EXCEPT ![o] = <<>>]
    /\ UNCHANGED <<config, eosChannels, pots, posted, handling, reading, sent,
                   items, eos>>

loseConnection(o) == link[o] = "up" /\ Cut(o, "lost") /\ UNCHANGED open

(* disconnect() of an open connection                                      *)
disconnect(o) ==
    /\ o \in open
    /\ Cut(o, "closed")
    /\ open' = open \ {o}

(* onTcpChannelError(): first the end-of-stream bookkeeping, ...           *)
onTcpChannelError(o) ==
    /\ link[o] \in {"lost", "closed"} /\ reading[o] = "idle" /\ o \in outputs
    /\ eosChannels' = eosChannels \ {o}
    /\ reading' = [reading EXCEPT ![o] =
          IF open # {} /\ Cardinality(eosChannels') = Cardinality(open)
            THEN "markEos" ELSE "erase"]
    /\ UNCHANGED <<config, open, pots, posted, handling, link, output, toInput,
                   items, eos>>

(* ... then maybe an end-of-stream mark, that nobody is told about, ...    *)
markEos(o) ==
    /\ reading[o] = "markEos"
    /\ inactive' = [inactive EXCEPT !.eos = TRUE]
    /\ eos' = [eos EXCEPT !.treated = IF inactive.eos THEN @ ELSE @ + 1]
    /\ reading' = [reading EXCEPT ![o] = "erase"]
    /\ UNCHANGED <<config, connections, active, posted, handling, link, output,
                   toInput, items>>

(* ... and finally the connection is erased                                *)
eraseConnection(o) ==
    /\ reading[o] = "erase"
    /\ open' = open \ {o}
    /\ reading' = [reading EXCEPT ![o] = "gone"]
    /\ UNCHANGED <<config, eosChannels, pots, posted, handling, link, output,
                   toInput, items, eos>>

-----------------------------------------------------------------------------
Reading(o) ==
    \/ onTcpChannelRead(o)
    \/ afterRead(o)
    \/ onTcpChannelError(o)
    \/ markEos(o)
    \/ eraseConnection(o)

Next ==
    \/ \E o \in Outputs : outputReady(o) \/ outputSend(o) \/ Reading(o)
    \/ \E o \in Outputs : loseConnection(o) \/ disconnect(o)
    \/ triggerIOEvent
    \/ callHandlers

(* Handlers return, the strand and the event loop run what is posted and   *)
(* requests arrive.  No output channel has to send.                        *)
Fairness ==
    /\ \A o \in Outputs : WF_vars(Reading(o)) /\ WF_vars(outputReady(o))
    /\ WF_vars(triggerIOEvent)
    /\ WF_vars(callHandlers)

Spec == Init /\ [][Next]_vars /\ Fairness

-----------------------------------------------------------------------------
Pot == [data : Seq(Outputs \X (1..MaxMsgs)), eos : BOOLEAN]

(* Every variable has its type; items are handled after they were read and *)
(* triggerIOEvent() does not pile up in the strand.                        *)
TypeOK ==
    /\ outputs \in (SUBSET Outputs) \ {{}} /\ minData \in Nat
    /\ open \subseteq outputs /\ eosChannels \subseteq outputs
    /\ active \in Pot /\ inactive \in Pot
    /\ posted \in Nat /\ (minData > 0 => posted <= 1)
    /\ handling \in [busy : BOOLEAN, data : Seq(Outputs \X (1..MaxMsgs)),
                     eos : BOOLEAN, next : BOOLEAN]
    /\ reading \in [Outputs -> {"idle", "notify", "post", "markEos", "erase", "gone"}]
    /\ link \in [Outputs -> {"up", "lost", "closed"}]
    /\ wire \in [Outputs -> 0..(MaxMsgs + 1)]
    /\ ready \in [Outputs -> BOOLEAN]
    /\ toInput \in [Outputs -> Seq(0..MaxMsgs)]
    /\ sent \in 0..MaxMsgs
    /\ items \in [Outputs -> [sent : Nat, read : Nat, handled : Nat]]
    /\ \A o \in Outputs : /\ items[o].handled <= items[o].read
                          /\ items[o].read <= items[o].sent
                          /\ items[o].sent <= sent
    /\ eos \in [read : [Outputs -> Nat], treated : Nat, handled : Nat, skipped : Nat]

(* triggerIOEvent() is posted, or will be                                  *)
Triggered == posted > 0 \/ handling.next \/ \E o \in Outputs : reading[o] = "post"

Waiting == handling.data \o active.data \o inactive.data

(* Data items of each output channel are handled in the order in which     *)
(* they were read, and none gets lost or doubled in the two pots.          *)
HandledInOrder ==
    \A o \in Outputs :
        /\ {Waiting[i][2] : i \in ItemsOf(o, Waiting)}
              = (items[o].handled + 1)..items[o].read
        /\ \A i, j \in ItemsOf(o, Waiting) : i < j => Waiting[i][2] < Waiting[j][2]

(* An end-of-stream mark waits in a pot or is about to be handled.         *)
Mark(eosMark) == IF eosMark THEN 1 ELSE 0

EosMarks == Mark(active.eos) + Mark(inactive.eos) + Mark(handling.eos)

EosOverwritten == eos.treated # eos.handled + eos.skipped + EosMarks

(* With a single output channel and "minData" of 1 or more, the handler is *)
(* called once for each end of stream, however slow it is, unless the      *)
(* handler of an item in the same pot threw (eos.skipped).  Exceptions:    *)
(* with several output channels a mark that waits can be overwritten by    *)
(* the next data from one that had been asked for more; with "minData" = 0 *)
(* triggerIOEvent() swaps the pots and asks for more after each round      *)
(* (InputChannel.cc:792), so the mark of a single one can be, too.         *)
OneCallPerStream ==
    minData > 0 /\ Cardinality(outputs) = 1 => ~EosOverwritten

Asked(o) == wire[o] > 0 \/ ready[o] \/ toInput[o] # <<>> \/ reading[o] # "idle"

(* An output channel that is not asked to send waits for a complete pot    *)
(* that is handled next - and then all are asked.  Nobody is forgotten, if *)
(* no end-of-stream mark was overwritten while it was waited for.          *)
NobodyStalls ==
    \A o \in open :
        link[o] = "up" /\ ~Asked(o) =>
            \/ Complete(inactive) /\ Triggered
            \/ handling.next
            \/ EosOverwritten

(* The end-of-stream handler is not called before each output channel that *)
(* is still connected has sent the end of the stream for the first time -  *)
(* unless one that has sent it is disconnected.  Until its read operation  *)
(* ends, it is in m_eosChannels (InputChannel.cc:630) but no longer in     *)
(* m_openConnections (InputChannel.cc:430): its end-of-stream is counted   *)
(* in place of one that is missing.                                        *)
FirstEosAfterLast ==
    eos.handled > 0 /\ (\A c \in outputs : link[c] = "closed" => eos.read[c] = 0) =>
        \A o \in open : link[o] = "up" => eos.read[o] > 0

(* With "minData" = 1, each data item that was read is handled eventually  *)
(* (or skipped in its round, if a handler throws), whoever disconnects: at *)
(* some time after the last message, nothing waits in the pots any more.   *)
EveryItemHandled ==
    []<>(minData = 1 => \A o \in Outputs : items[o].handled = items[o].read)
=============================================================================
