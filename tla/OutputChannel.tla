--------------------------- MODULE OutputChannel ---------------------------
(***************************************************************************)
(* karabo::xms::OutputChannel (xms/OutputChannel.cc): a sender of pipeline *)
(* data.  Input channels connect by TCP, say "hello" and from then on ask  *)
(* for the next data with "update".  A "copy" input gets everything, the   *)
(* "shared" ones share the data; who is too slow is dropped, queued for or *)
(* waited for.  Data is kept in reference counted chunks (Memory).         *)
(*                                                                         *)
(* Whatever runs under m_registeredInputsMutex is one action.  The writer  *)
(* (the device code that calls write(), update() and signalEndOfStream())  *)
(* respects the documented contract: one call at a time and no update      *)
(* before readyForNext.  Receivers are remote.                             *)
(***************************************************************************)
EXTENDS Memory, SequencesExt

CONSTANTS
    Ids,            \* instance ids of the input channels
    MaxConns,       \* bound: TCP connections ever made
    MaxChunks,      \* Memory::MAX_N_CHUNKS, 2056 in the code
    MaxQueueLength, \* "maxQueueLength" of the inputs
    Setups          \* configurations that are explored, see Setup

(* noInputShared: what the output does if no shared input is ready;        *)
(* distribution and slowness: "dataDistribution" and "onSlowness" of each  *)
(* input; selector: whether a shared input selector is registered; calls:  *)
(* bound on the calls of update() and signalEndOfStream().                 *)
Slowness == {"drop", "queueDrop", "wait"}
Setup ==
    [noInputShared : Slowness, distribution : [Ids -> {"shared", "copy"}],
     slowness : [Ids -> Slowness], selector : BOOLEAN, calls : Nat]

ASSUME SetupAssumption == Setups \subseteq Setup
ASSUME ChunksAssumption == MaxChunks \in Nat /\ MaxChunks >= 2
ASSUME IdsAssumption == IsFiniteSet(Ids) /\ Ids # {}
ASSUME BoundsAssumption == MaxConns \in Nat /\ MaxQueueLength \in Nat

Conns == 1..MaxConns
Chunks == 1..MaxChunks
Nobody == [as |-> "none", tcp |-> 0, queue |-> <<>>, sending |-> FALSE]

VARIABLES
    setup,         \* the configuration, fixed at the beginning
    mem,           \* the chunks of m_channelId
    chunkId,       \* m_chunkId, 0 if m_invalidChunkId
    reg,           \* m_registeredSharedInputs and m_registeredCopyInputs
    shareNext,     \* m_shareNext
    copyNext,      \* m_copyNext
    common,        \* m_sharedLoadBalancedQueuedChunks
    unblock,       \* m_unblockHandlers: chunk that waits for an input, or 0
    unblockShared, \* m_unblockSharedHandler: chunk that waits, or 0
    calling,       \* connections whose handler is to call onInputAvailable()
    postponed,     \* calls of onInputAvailable(id) posted to the event loop
    writer,        \* "idle", or "ensure" / "sleep" in ensureValidChunkId()
    finalSignal,   \* message after which signalEndOfStream() sends EOS, or 0
    outOfRange,    \* Memory was accessed with m_invalidChunkId
    conn,          \* TCP connections: [id, state]
    inflight,      \* writes whose completion handler was not called yet
    toClient,      \* messages on their way to the input channel
    wire,          \* "update" requests on their way to the output channel
    last,          \* history: last message read by the input channel
    seq,           \* history: number of messages written
    eosDue,        \* history: end-of-streams that connections wait for, as
                   \* <<connection, message>>; 0 if it was never written
    leaked         \* history: uses of chunks that nobody will ever release

ready == <<shareNext, copyNext>>
blocks == <<unblock, unblockShared>>
writing == <<chunkId, writer, finalSignal, outOfRange, seq>>
network == <<conn, wire, last>>
history == <<eosDue, leaked>>
calls == <<calling, postponed>>
vars == <<setup, mem, reg, ready, common, blocks, calls, writing, network,
          inflight, toClient, history>>

-----------------------------------------------------------------------------
Registered(as) == {id \in Ids : reg[id].as = as}
SharedInputs == Registered("shared")
CopyInputs == Registered("copy")

(* m_registeredInputsMutex is free: not held by ensureValidChunkId()       *)
LockFree == writer # "ensure"

(* Nothing blocks: readyForNext of the last update was called              *)
ReadyForNext == unblockShared = 0 /\ \A id \in Ids : unblock[id] = 0

(* tcpChannel && tcpChannel->isOpen(): not closed by us; a connection that *)
(* the network lost ("broken") is still open until the loss is noticed.    *)
IsOpen(id) == reg[id].tcp # 0 /\ conn[reg[id].tcp].state \in {"up", "broken"}

(* asyncSendOne() for the inputs S: where the connection is open a write   *)
(* is started; otherwise the usage of the chunk ends at once.              *)
Launched(S) == {id \in S : IsOpen(id)}

(* A finalSignal waits for the chunk to be written, unless it was queued.  *)
Awaited(k) == finalSignal # 0 /\ mem[k].msg = finalSignal

asyncSendOne(S, k, msg, awaited) ==
    /\ inflight' = inflight \cup
          {[tcp |-> reg[id].tcp, id |-> id, chunk |-> k, msg |-> msg,
            awaited |-> awaited] : id \in Launched(S)}
    /\ toClient' = [c \in Conns |->
          IF conn[c].state = "up" /\ \E id \in S : reg[id].tcp = c
            THEN Append(toClient[c], msg) ELSE toClient[c]]

(* The bookkeeping entry of an input to which a write is started           *)
Sending(r, S) ==
    [id \in Ids |-> IF id \in Launched(S) THEN [r[id] EXCEPT !.sending = TRUE]
                    ELSE r[id]]

(* Usage of chunk k after its holder handed it to asyncSendOne() for id    *)
HandedOver(m, k, id) ==
    IF k = 0 \/ IsOpen(id) THEN m ELSE decrementChunkUsage(m, k, 1)

Init ==
    /\ setup \in Setups
    /\ mem = registerChunk([k \in Chunks |-> FreeChunk], 1)
    /\ chunkId = 1
    /\ reg = [id \in Ids |-> Nobody]
    /\ shareNext = <<>>
    /\ copyNext = {}
    /\ common = <<>>
    /\ unblock = [id \in Ids |-> 0]
    /\ unblockShared = 0
    /\ calling = {}
    /\ postponed = [id \in Ids |-> 0]
    /\ writer = "idle"
    /\ finalSignal = 0
    /\ outOfRange = FALSE
    /\ conn = [c \in Conns |-> [id |-> CHOOSE id \in Ids : TRUE, state |-> "free"]]
    /\ inflight = {}
    /\ toClient = [c \in Conns |-> <<>>]
    /\ wire = [c \in Conns |-> 0]
    /\ last = [c \in Conns |-> 0]
    /\ seq = 0
    /\ eosDue = {}
    /\ leaked = [k \in Chunks |-> 0]

-----------------------------------------------------------------------------
(* A TCP connection of an input channel                                    *)

(* onTcpConnect(), and onTcpChannelRead() of "hello".  eraseOldChannel()   *)
(* closes and forgets an older connection with the same id; the chunks     *)
(* queued for it are not released.  onInputAvailable() follows, after the  *)
(* mutex was unlocked.                                                     *)
hello(id) ==
    /\ LockFree
    /\ \E c \in Conns :
          /\ conn[c].state = "free"
          /\ \A d \in 1..(c - 1) : conn[d].state # "free"
          /\ LET old == reg[id].tcp
             IN  /\ conn' = [d \in Conns |->
                       IF d = c THEN [id |-> id, state |-> "up"]
                       ELSE IF d = old THEN [conn[d] EXCEPT !.state = "closed"]
                       ELSE conn[d]]
                 /\ wire' = [d \in Conns |-> IF d = old THEN 0 ELSE wire[d]]
                 /\ toClient' = [d \in Conns |-> IF d = old THEN <<>> ELSE toClient[d]]
                 /\ eosDue' = {due \in eosDue : due[1] # old}
          /\ leaked' = [k \in Chunks |-> leaked[k] + Occurrences(reg[id].queue, k)]
          /\ reg' = [reg EXCEPT ![id] =
                [Nobody EXCEPT !.as = setup.distribution[id], !.tcp = c]]
          /\ calling' = calling \cup {c}
    /\ UNCHANGED <<setup, mem, ready, common, blocks, postponed, writing, last,
                   inflight>>

(* onTcpChannelRead() of "update": onInputAvailable() is to follow, and    *)
(* only then the next message is read                                      *)
readUpdate(c) ==
    /\ conn[c].state = "up" /\ wire[c] > 0 /\ c \notin calling
    /\ wire' = [wire EXCEPT ![c] = @ - 1]
    /\ calling' = calling \cup {c}
    /\ UNCHANGED <<setup, mem, reg, ready, common, blocks, postponed, writing,
                   conn, last, inflight, toClient, history>>

(* The remote InputChannel reads a message and asks for the next one       *)
clientRead(c) ==
    /\ conn[c].state = "up" /\ toClient[c] # <<>>
    /\ last' = [last EXCEPT ![c] = Head(toClient[c])]
    /\ toClient' = [toClient EXCEPT ![c] = Tail(@)]
    /\ wire' = [wire EXCEPT ![c] = @ + 1]
    /\ eosDue' = eosDue \ {<<c, Head(toClient[c])>>}
    /\ UNCHANGED <<setup, mem, reg, ready, common, blocks, calls, writing, conn,
                   inflight, leaked>>

(* The connection is lost, or the input channel disconnects                *)
breakConn(c) ==
    /\ conn[c].state = "up"
    /\ conn' = [conn EXCEPT ![c].state = "broken"]
    /\ wire' = [wire EXCEPT ![c] = 0]
    /\ toClient' = [toClient EXCEPT ![c] = <<>>]
    /\ eosDue' = {due \in eosDue : due[1] # c}
    /\ UNCHANGED <<setup, mem, reg, ready, common, blocks, calls, writing, last,
                   inflight, leaked>>

(* The WriteCompleteHandler of asyncSendOne(), called with or without an   *)
(* error.  resetSendOngoing() looks the input up by its id.                *)
resetSendOngoing(w) ==
    IF reg[w.id].as = "none" THEN reg ELSE [reg EXCEPT ![w.id].sending = FALSE]

writeComplete(w) ==
    /\ LockFree
    /\ inflight' = inflight \ {w}
    /\ reg' = resetSendOngoing(w)
    /\ mem' = decrementChunkUsage(mem, w.chunk, 1)
    /\ UNCHANGED <<setup, ready, common, blocks, calls, writing, network,
                   toClient, history>>

(* The input is the last shared one (mutant: the check is missing)         *)
NeverLastShared(id) == FALSE

LastShared(id) == SharedInputs = {id}

(* The chunks that nobody needs without the input (mutant: the common      *)
(* queue is forgotten)                                                     *)
ReleasedWithQueueOnly(id) == reg[id].queue

ReleasedWith(id) ==
    reg[id].queue \o (IF LastShared(id) THEN common ELSE <<>>)

(* m_shareNext without the inputs S: the n-th entry is the one that has    *)
(* n - 1 other remaining ones before it.                                   *)
Erased(S) ==
    LET remaining == {i \in 1..Len(shareNext) : shareNext[i] \notin S}
    IN  [n \in 1..Cardinality(remaining) |->
            shareNext[CHOOSE i \in remaining :
                         Cardinality({j \in remaining : j <= i}) = n]]

(* eraseSharedInput() (mutant: forgotten)                                  *)
WithReady(id) == shareNext

WithoutReady(id) == Erased({id})

(* onInputGone(), from onTcpChannelError(): what waits for the input is    *)
(* handed to asyncSendOne() all the same, to unblock the writer.           *)
onInputGone(c) ==
    /\ LockFree
    /\ conn[c].state \in {"broken", "closed"} /\ c \notin calling
    /\ LET id == conn[c].id
           last_shared == LastShared(id)
           freed == {unblock[id], IF last_shared THEN unblockShared ELSE 0} \ {0}
       IN  IF reg[id].tcp # c
             THEN UNCHANGED <<mem, reg, ready, common, blocks, inflight>>
             ELSE /\ inflight' = inflight \cup
                        {[tcp |-> c, id |-> id, chunk |-> k, msg |-> mem[k].msg,
                          awaited |-> Awaited(k)] : k \in IF IsOpen(id) THEN freed ELSE {}}
                  /\ mem' = releaseChunks(mem,
                        ReleasedWith(id) \o (IF IsOpen(id) THEN <<>> ELSE SetToSeq(freed)))
                  /\ unblock' = [unblock EXCEPT ![id] = 0]
                  /\ unblockShared' = IF last_shared THEN 0 ELSE unblockShared
                  /\ common' = IF last_shared THEN <<>> ELSE common
                  /\ shareNext' = WithoutReady(id)
                  /\ copyNext' = copyNext \ {id}
                  /\ reg' = [reg EXCEPT ![id] = Nobody]
    /\ conn' = [conn EXCEPT ![c].state = "gone"]
    /\ UNCHANGED <<setup, calls, writing, wire, last, toClient, history>>

-----------------------------------------------------------------------------
(* onInputAvailable(id), called for each "hello" and "update".  While a    *)
(* write to the input is going on, the call is posted again (mutant: the   *)
(* flag is ignored).                                                       *)
NeverPostpone(id) == FALSE

MustPostpone(id) == reg[id].sending

(* Where the next chunk for the input comes from, in the order of checks   *)
NextSource(id) ==
    IF reg[id].as = "shared" /\ unblockShared # 0 THEN "unblockShared"
    ELSE IF unblock[id] # 0 THEN "unblock"
    ELSE IF reg[id].queue # <<>> THEN "queue"
    ELSE IF reg[id].as = "shared" /\ common # <<>> THEN "common"
    ELSE "none"

(* The call that is served comes from a connection's handler, or from the  *)
(* event loop.                                                             *)
CallOf(id) ==
    \/ \E c \in calling : /\ conn[c].id = id
                          /\ calling' = calling \ {c}
                          /\ UNCHANGED postponed
    \/ /\ postponed[id] > 0
       /\ postponed' = [postponed EXCEPT ![id] = @ - 1]
       /\ UNCHANGED calling

Available(id, source) ==
    /\ LockFree
    /\ reg[id].as # "none"
    /\ ~MustPostpone(id)
    /\ NextSource(id) = source
    /\ CallOf(id)

availableButGone(id) ==
    /\ LockFree
    /\ reg[id].as = "none"
    /\ CallOf(id)
    /\ UNCHANGED <<setup, mem, reg, ready, common, blocks, writing, network,
                   inflight, toClient, history>>

postpone(c) ==
    /\ LockFree
    /\ c \in calling
    /\ reg[conn[c].id].as # "none" /\ MustPostpone(conn[c].id)
    /\ calling' = calling \ {c}
    /\ postponed' = [postponed EXCEPT ![conn[c].id] = @ + 1]
    /\ UNCHANGED <<setup, mem, reg, ready, common, blocks, writing, network,
                   inflight, toClient, history>>

SendTo(id, k, awaited) ==
    /\ asyncSendOne({id}, k, mem[k].msg, awaited)
    /\ UNCHANGED <<setup, ready, writing, network, history>>

unblockByShared(id) ==
    /\ Available(id, "unblockShared")
    /\ SendTo(id, unblockShared, Awaited(unblockShared))
    /\ mem' = HandedOver(mem, unblockShared, id)
    /\ unblockShared' = 0
    /\ reg' = Sending(reg, {id})
    /\ UNCHANGED <<common, unblock>>

unblockById(id) ==
    /\ Available(id, "unblock")
    /\ SendTo(id, unblock[id], Awaited(unblock[id]))
    /\ mem' = HandedOver(mem, unblock[id], id)
    /\ unblock' = [unblock EXCEPT ![id] = 0]
    /\ reg' = Sending(reg, {id})
    /\ UNCHANGED <<common, unblockShared>>

sendQueued(id) ==
    /\ Available(id, "queue")
    /\ SendTo(id, Head(reg[id].queue), FALSE)
    /\ mem' = HandedOver(mem, Head(reg[id].queue), id)
    /\ reg' = Sending([reg EXCEPT ![id].queue = Tail(@)], {id})
    /\ UNCHANGED <<common, blocks>>

(* End-of-stream in the common queue is copied to the queues of the other  *)
(* shared inputs.                                                          *)
CopiedTo(id, k) == IF mem[k].eos THEN SharedInputs \ {id} ELSE {}

Queued(r, S, k) ==
    [id \in Ids |-> IF id \in S THEN [r[id] EXCEPT !.queue = Append(@, k)]
                    ELSE r[id]]

sendCommon(id) ==
    /\ Available(id, "common")
    /\ SendTo(id, Head(common), FALSE)
    /\ LET k == Head(common)
           others == CopiedTo(id, k)
       IN  /\ mem' = HandedOver(incrementChunkUsage(mem, k, Cardinality(others)), k, id)
           /\ reg' = Sending(Queued(reg, others, k), {id})
    /\ common' = Tail(common)
    /\ UNCHANGED blocks

(* pushShareNext()                                                         *)
pushShareNext(id) ==
    IF id \in Range(shareNext) THEN shareNext ELSE Append(shareNext, id)

becomeReady(id) ==
    /\ Available(id, "none")
    /\ IF reg[id].as = "shared"
         THEN shareNext' = pushShareNext(id) /\ UNCHANGED copyNext
         ELSE copyNext' = copyNext \cup {id} /\ UNCHANGED shareNext
    /\ UNCHANGED <<setup, mem, reg, common, blocks, writing, network, inflight,
                   toClient, history>>

onInputAvailable(id) ==
    \/ availableButGone(id)
    \/ unblockByShared(id)
    \/ unblockById(id)
    \/ sendQueued(id)
    \/ sendCommon(id)
    \/ becomeReady(id)
    \/ \E c \in {d \in calling : conn[d].id = id} : postpone(c)

-----------------------------------------------------------------------------
(* asyncUpdateNoWait().  next is the new m_chunkId, 0 if there is none.    *)

(* asyncPrepareCopy(): the copy inputs that get a queue entry, and those   *)
(* that block; those in copyNext get the data at once (mutant: "drop"      *)
(* drops an end-of-stream, too).                                           *)
CopyQueueAsConfigured(next, eos) ==
    {id \in CopyInputs \ copyNext :
        /\ setup.slowness[id] = "queueDrop"
        /\ eos \/ (next # 0 /\ Len(reg[id].queue) < MaxQueueLength)}

CopyQueue(next, eos) ==
    {id \in CopyInputs \ copyNext :
        \/ eos /\ setup.slowness[id] \in {"drop", "queueDrop"}
        \/ /\ setup.slowness[id] = "queueDrop"
           /\ next # 0
           /\ Len(reg[id].queue) < MaxQueueLength}

CopyBlock == {id \in CopyInputs \ copyNext : setup.slowness[id] = "wait"}

(* asyncPrepareDistribute(): which shared inputs to send to, to queue for  *)
(* and to block for, whether to use the common queue or to block for any   *)
(* shared input, and the new m_shareNext.                                  *)
NoShare ==
    [send |-> {}, queue |-> {}, block |-> {}, common |-> FALSE, wait |-> FALSE,
     next |-> shareNext]

(* Each shared input gets the end-of-stream, after what is in the common   *)
(* queue (mutant: no matter what is in that queue).                        *)
DistributeEosAtOnce ==
    LET slow == SharedInputs \ Range(shareNext)
    IN  [NoShare EXCEPT
           !.send = SharedInputs \cap Range(shareNext),
           !.block = IF setup.noInputShared = "wait" THEN slow ELSE {},
           !.queue = IF setup.noInputShared = "wait" THEN {} ELSE slow,
           !.next = Erased(SharedInputs)]

asyncPrepareDistributeEos ==
    LET slow == SharedInputs \ Range(shareNext)
        wait == setup.noInputShared = "wait"
    IN  IF common # <<>> THEN [NoShare EXCEPT !.common = TRUE]
        ELSE [NoShare EXCEPT
                !.send = SharedInputs \cap Range(shareNext),
                !.block = IF wait THEN slow ELSE {},
                !.queue = IF wait THEN {} ELSE slow,
                !.next = Erased(SharedInputs)]

(* The selector may also name an input that is not registered.             *)
asyncPrepareDistributeSelected(next) ==
    {NoShare} \cup
    {IF id \in Range(shareNext)
       THEN [NoShare EXCEPT !.send = {id}, !.next = WithoutReady(id)]
       ELSE [NoShare EXCEPT
               !.queue = IF setup.noInputShared = "queueDrop" /\ next # 0
                           THEN {id} ELSE {},
               !.block = IF setup.noInputShared = "wait" THEN {id} ELSE {}] :
     id \in SharedInputs}

asyncPrepareDistributeLoadBal(next) ==
    IF shareNext # <<>>
      THEN [NoShare EXCEPT !.send = {Head(shareNext)} \cap SharedInputs,
                           !.next = Tail(shareNext)]
      ELSE [NoShare EXCEPT
              !.common = setup.noInputShared = "queueDrop" /\ next # 0,
              !.wait = setup.noInputShared = "wait"]

asyncPrepareDistribute(next, eos) ==
    IF SharedInputs = {} THEN {NoShare}
    ELSE IF eos THEN {asyncPrepareDistributeEos}
    ELSE IF setup.selector THEN asyncPrepareDistributeSelected(next)
    ELSE {asyncPrepareDistributeLoadBal(next)}

(* Who is to be told that the stream ends                                  *)
Listeners == {c \in Conns : conn[c].state = "up" /\ reg[conn[c].id].tcp = c}

(* One message, up to the first check in ensureValidChunkId().  If it is   *)
(* final, a finalSignal waits for the data to be written.                  *)
asyncUpdateNoWait(eos, final) ==
    LET k == chunkId
        msg == seq + 1
        next == FirstFree(mem)
    IN  /\ LockFree
        /\ \E share \in asyncPrepareDistribute(next, eos) :
             LET send == (CopyInputs \cap copyNext) \cup share.send
                 queue == CopyQueue(next, eos) \cup share.queue
                 block == CopyBlock \cup share.block
                 users == Cardinality(Launched(send)) + Cardinality(queue)
                            + Cardinality(block)
                            + Cardinality({use \in {"common", "wait"} : share[use]})
                 written == registerChunk(writeChunk(mem, k, msg, eos), next)
             IN  /\ asyncSendOne(send, k, msg, final)
                 /\ reg' = Sending(Queued(reg, queue, k), send)
                 /\ mem' = decrementChunkUsage(incrementChunkUsage(written, k, users), k, 1)
                 /\ common' = IF share.common THEN Append(common, k) ELSE common
                 /\ unblock' = [id \in Ids |-> IF id \in block THEN k ELSE unblock[id]]
                 /\ unblockShared' = IF share.wait THEN k ELSE unblockShared
                 /\ shareNext' = share.next
                 /\ copyNext' = copyNext \ CopyInputs
        /\ chunkId' = next
        /\ writer' = IF next = 0 THEN "ensure" ELSE "idle"
        /\ seq' = msg
        /\ eosDue' = eosDue \cup {<<c, msg>> : c \in {d \in Listeners : eos}}
        /\ UNCHANGED <<setup, calls, outOfRange, network, leaked>>

(* The writer may go on: the previous update() or signalEndOfStream() has  *)
(* returned and its handlers were called.                                  *)
WriterMay ==
    /\ writer = "idle" /\ finalSignal = 0 /\ ReadyForNext
    /\ seq < setup.calls

update == WriterMay /\ asyncUpdateNoWait(FALSE, FALSE) /\ UNCHANGED finalSignal

(* asyncSignalEndOfStream() without data in the current chunk              *)
signalEndOfStream ==
    WriterMay /\ asyncUpdateNoWait(TRUE, FALSE) /\ UNCHANGED finalSignal

(* ... and with data in it: the end-of-stream follows when all is written  *)
writeAndSignalEos ==
    /\ WriterMay
    /\ asyncUpdateNoWait(FALSE, TRUE)
    /\ finalSignal' = seq + 1

(* finalSignal, the writeDoneHandler of that update.  It runs in the event *)
(* loop, also while ensureValidChunkId() sleeps and m_chunkId is invalid:  *)
(* Memory is then accessed out of range (undefined behaviour), no chunk is *)
(* marked as the end-of-stream, and the inputs never get it.               *)
WriteDone == \A w \in inflight : ~w.awaited

sendFinalSignal ==
    /\ finalSignal # 0 /\ WriteDone /\ ReadyForNext
    /\ finalSignal' = 0
    /\ \/ /\ chunkId = 0
          /\ outOfRange' = TRUE
          /\ eosDue' = eosDue \cup {<<c, 0>> : c \in Listeners}
          /\ UNCHANGED <<setup, mem, reg, ready, common, blocks, calls, chunkId,
                         writer, seq, network, inflight, toClient, leaked>>
       \/ /\ chunkId # 0
          /\ asyncUpdateNoWait(TRUE, FALSE)

-----------------------------------------------------------------------------
(* ensureValidChunkId(): look for a free chunk, else drop the oldest data  *)
(* from one queue, else release the mutex and sleep.                       *)
Oldest(queue) == {i \in 1..Len(queue) : /\ ~mem[queue[i]].eos
                                        /\ \A j \in 1..(i - 1) : mem[queue[j]].eos}

(* A queue of one of the inputs; which one depends on the order of the ids *)
Droppable(inputs) == {id \in inputs : Oldest(reg[id].queue) # {}}

updateChunkId ==
    /\ writer = "ensure"
    /\ FirstFree(mem) # 0
    /\ chunkId' = FirstFree(mem)
    /\ mem' = registerChunk(mem, FirstFree(mem))
    /\ writer' = "idle"
    /\ UNCHANGED <<setup, reg, ready, common, blocks, calls, finalSignal,
                   outOfRange, seq, network, inflight, toClient, history>>

dropIndividualQueues ==
    /\ writer = "ensure" /\ FirstFree(mem) = 0
    /\ \E id \in Ids :
          /\ \/ id \in Droppable(CopyInputs)
             \/ Droppable(CopyInputs) = {} /\ id \in Droppable(SharedInputs)
          /\ \E i \in Oldest(reg[id].queue) :
               /\ mem' = decrementChunkUsage(mem, reg[id].queue[i], 1)
               /\ reg' = [reg EXCEPT ![id].queue = RemoveAt(@, i)]
    /\ UNCHANGED <<setup, ready, common, blocks, calls, writing, network,
                   inflight, toClient, history>>

dropCommonQueue ==
    /\ writer = "ensure" /\ FirstFree(mem) = 0
    /\ Droppable(Ids) = {}
    /\ \E i \in Oldest(common) :
          /\ mem' = decrementChunkUsage(mem, common[i], 1)
          /\ common' = RemoveAt(common, i)
    /\ UNCHANGED <<setup, reg, ready, blocks, calls, writing, network, inflight,
                   toClient, history>>

sleep ==
    /\ \/ /\ writer = "ensure" /\ FirstFree(mem) = 0
          /\ Droppable(Ids) = {} /\ Oldest(common) = {}
          /\ writer' = "sleep"
       \/ writer = "sleep" /\ writer' = "ensure"
    /\ UNCHANGED <<setup, mem, reg, ready, common, blocks, calls, chunkId,
                   finalSignal, outOfRange, seq, network, inflight, toClient,
                   history>>

ensureValidChunkId ==
    updateChunkId \/ dropIndividualQueues \/ dropCommonQueue \/ sleep

-----------------------------------------------------------------------------
Server ==
    \/ \E c \in Conns : readUpdate(c)
    \/ \E w \in inflight : writeComplete(w)
    \/ \E c \in Conns : onInputGone(c)
    \/ \E id \in Ids : onInputAvailable(id)

Writer ==
    \/ update
    \/ signalEndOfStream
    \/ writeAndSignalEos
    \/ sendFinalSignal
    \/ ensureValidChunkId

Clients ==
    \/ \E id \in Ids : hello(id)
    \/ \E c \in Conns : clientRead(c) \/ breakConn(c)

Next == Server \/ Writer \/ Clients

(* The event loop runs what was posted and the operating system completes  *)
(* writes; who waits for the mutex gets it once the writer sleeps; an      *)
(* input channel reads what arrives.  Nobody has to write or to connect.   *)
Fairness ==
    /\ \A c \in Conns : WF_vars(readUpdate(c)) /\ WF_vars(clientRead(c))
    /\ \A c \in Conns : SF_vars(onInputGone(c))
    /\ SF_vars(\E w \in inflight : writeComplete(w))
    /\ \A id \in Ids : SF_vars(onInputAvailable(id))
    /\ WF_vars(ensureValidChunkId)

Spec == Init /\ [][Next]_vars /\ Fairness

-----------------------------------------------------------------------------
Entry ==
    [as : {"none", "shared", "copy"}, tcp : 0..MaxConns, queue : Seq(Chunks),
     sending : BOOLEAN]

(* Every variable has its type; nobody is twice in m_shareNext, however    *)
(* often an input says that it is available.                               *)
TypeOK ==
    /\ setup \in Setups
    /\ mem \in [Chunks -> Chunk]
    /\ chunkId \in 0..MaxChunks
    /\ reg \in [Ids -> Entry]
    /\ shareNext \in Seq(Ids) /\ IsInjective(shareNext)
    /\ copyNext \subseteq Ids
    /\ common \in Seq(Chunks)
    /\ unblock \in [Ids -> 0..MaxChunks]
    /\ unblockShared \in 0..MaxChunks
    /\ calling \subseteq Conns
    /\ postponed \in [Ids -> Nat]
    /\ writer \in {"idle", "ensure", "sleep"}
    /\ finalSignal \in 0..setup.calls /\ seq \in 0..(setup.calls + 1)
    /\ outOfRange \in BOOLEAN
    /\ conn \in [Conns -> [id : Ids, state : {"free", "up", "broken", "closed", "gone"}]]
    /\ inflight \subseteq [tcp : Conns, id : Ids, chunk : Chunks, msg : 1..(setup.calls + 1),
                           awaited : BOOLEAN]
    /\ toClient \in [Conns -> Seq(1..(setup.calls + 1))]
    /\ wire \in [Conns -> Nat]
    /\ last \in [Conns -> 0..(setup.calls + 1)]
    /\ eosDue \subseteq Conns \X (0..(setup.calls + 1))
    /\ leaked \in [Chunks -> Nat]

(* Where chunk k is in the queues of the inputs                            *)
QueueEntries(r, k) ==
    {e \in UNION {{id} \X (1..Len(r[id].queue)) : id \in Ids} :
        r[e[1]].queue[e[2]] = k}

Users(k) ==
    Cardinality({w \in inflight : w.chunk = k})
      + Cardinality({id \in Ids : unblock[id] = k})
      + Cardinality({x \in {"writer", "shared"} :
            k = IF x = "writer" THEN chunkId ELSE unblockShared})
      + Occurrences(common, k) + leaked[k]
      + Cardinality(QueueEntries(reg, k))

(* The usage count that Memory keeps for a chunk is the number of places   *)
(* that will still release it: the writer, the queues, the handlers that   *)
(* block and the writes going on.  A chunk is not recycled under a reader, *)
(* and none gets lost, whoever disconnects and whatever is dropped, except *)
(* for what was queued for a connection that another one with the same id  *)
(* replaced.                                                               *)
ChunkAccounting ==
    \A k \in Chunks :
        /\ mem[k].use = Users(k)
        /\ \A w \in inflight : w.chunk = k => mem[k].msg = w.msg

Requests(id) ==
    LET c == reg[id].tcp
    IN  postponed[id] + Cardinality({d \in calling : conn[d].id = id})
          + wire[c] + Len(toClient[c])
          + Cardinality({x \in {"shared", "copy"} :
               id \in IF x = "shared" THEN Range(shareNext) ELSE copyNext})

ConnectedOnce(id) ==
    \A c, d \in Conns : conn[c].state # "free" /\ conn[d].state # "free"
                        /\ conn[c].id = id /\ conn[d].id = id => c = d

(* A connected input always has a request: it is marked as ready, or a     *)
(* message to it or its next "update" is on the way.  It has exactly one   *)
(* unless its id was connected before: nothing overtakes its credit.       *)
RequestBalance ==
    \A id \in Ids :
        reg[id].as # "none" /\ conn[reg[id].tcp].state = "up" =>
            /\ Requests(id) >= 1
            /\ ConnectedOnce(id) => Requests(id) = 1

(* What a connection is sent arrives in the order in which it was written, *)
(* whether it went there directly or by way of queues and handlers.        *)
InOrder ==
    \A c \in Conns :
        LET received == <<last[c]>> \o toClient[c]
        IN  \A i \in 1..(Len(received) - 1) : received[i] < received[i + 1]

(* "EOS must never get lost": each input that is connected when the stream *)
(* ends has the end-of-stream on its way until it has read it, also if     *)
(* data is dropped and if the chunks are exhausted.  Exception (message 0  *)
(* in eosDue): the stream ends with data in the chunk, that data is        *)
(* written while ensureValidChunkId() still sleeps, and finalSignal finds  *)
(* no valid chunk; that end-of-stream is lost for every input.             *)
EosNeverLost ==
    \A due \in eosDue :
        LET id == conn[due[1]].id
            Holds(k) == k # 0 /\ mem[k].eos /\ mem[k].msg = due[2]
        IN  \/ due[2] = 0
            \/ due[2] \in Range(toClient[due[1]])
            \/ Holds(unblock[id])
            \/ \E k \in Range(reg[id].queue) \cup Range(common) : Holds(k)

Overlap(c) == \E v, w \in inflight : v # w /\ v.tcp = c /\ w.tcp = c

(* Two writes to the same connection never overlap - asyncSendOne() is not *)
(* called for an input before the previous write has completed - as long   *)
(* as the connection is up and its id was never connected before.          *)
NoOverlapOnFirstConnection ==
    \A c \in Conns :
        conn[c].state = "up" /\ ConnectedOnce(conn[c].id) => ~Overlap(c)

(* Who blocks the writer - an input that it waits for, or chunks that are  *)
(* all in use - lets it continue: the input asks again or disconnects, the *)
(* chunks are dropped or sent.  Leaked chunks can prevent that.            *)
WriterProceeds ==
    (~ReadyForNext \/ writer # "idle")
        ~> \/ ReadyForNext /\ writer = "idle"
           \/ \E k \in Chunks : leaked[k] > 0
=============================================================================
