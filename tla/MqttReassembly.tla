--------------------------- MODULE MqttReassembly ---------------------------
(***************************************************************************)
(* The inbound half of main/connectivity/mqtt_dataplane.c: the MQTT client *)
(* task runs mqtt_dataplane_event_handler, which copies connection events  *)
(* and payload fragments into a bounded queue without ever blocking; the   *)
(* dataplane task drains the queue, subscribes on DP_MSG_CONNECTED and     *)
(* reassembles fragments into payloads; the main task starts it all while  *)
(* the client may already be connecting.  A payload byte is represented by *)
(* the message it came from, so a payload put together from the bytes of   *)
(* two messages is visible.                                                *)
(***************************************************************************)
EXTENDS Integers, Sequences, FiniteSets

CONSTANTS
    Msg,        \* messages the broker may publish to the subscribed topics
    Topic,      \* s_topics with their subscribe flag set, and the command topic
    TopicOf,    \* [Msg -> Topic]: the topic each message is published to
    Total,      \* [Msg -> Nat]: total_data_len of each message
    MsgId,      \* [Msg -> Nat]: the msg_id its DATA events carry (0 at QoS 0)
    LongTopic,  \* messages whose topic exceeds MQTT_DP_MAX_TOPIC_LEN
    Cap,        \* MQTT_DP_REASSEMBLY_PAYLOAD_CAP
    Chunk,      \* bytes of payload the client hands over per DATA event
    Depth,      \* MQTT_DP_QUEUE_DEPTH
    MaxEvents   \* bound on the DATA events of a behaviour

ASSUME ConstantsAssumption ==
    /\ TopicOf \in [Msg -> Topic]
    /\ Total \in [Msg -> Nat]
    /\ MsgId \in [Msg -> Nat]
    /\ LongTopic \subseteq Msg
    /\ Cap \in Nat \ {0} /\ Chunk \in Nat \ {0}
    /\ Depth \in Nat \ {0} /\ MaxEvents \in Nat

VARIABLES
    link,       \* the client's session with the broker: "up" or "down"
    subscribed, \* the topics the broker holds a subscription of this session for
    stream,     \* the message being received and the offset reached in it
    evt,        \* link event mqtt_manager has handled and the dataplane not yet
    ready,      \* mqtt_manager's s_connected
    boot,       \* progress of mqtt_dataplane_start
    queue,      \* s_msg_queue
    flow,       \* s_reassembly
    buf,        \* s_reassembly_payload, each byte named by its message
    written,    \* history: the bytes of buf the current flow has written
    stats,      \* s_stats_total
    handed,     \* the last payload given to process_payload/process_command
    offered,    \* history: DATA events the handler was called with
    sent,       \* history: deliverable messages received to their last byte
    lost,       \* history: a fragment of a deliverable message was lost
    missed,     \* history: this session's DP_MSG_CONNECTED found the queue full
    refused     \* history: topics whose subscription the client refused this session

vars == <<link, subscribed, stream, evt, ready, boot, queue, flow, buf, written,
          stats, handed, offered, sent, lost, missed, refused>>
linkVars == <<link, subscribed, ready, refused>>
bufVars == <<buf, written>>
taskVars == <<flow, bufVars, handed>>

Nul    == "nul"
NoFlow == [active |-> FALSE]
Nobody == [msg |-> "none"]

DropReason == {"oversize", "out_of_order", "nonzero_first", "overlap", "queue_full"}
Bytes(n) == 0..(n - 1)

Fragment(m, off, len) == [type |-> "fragment", msg |-> m, off |-> off, len |-> len]
LinkMsg(t) == [type |-> t]

Least(a, b) == IF a <= b THEN a ELSE b

\* The messages the dataplane undertakes to deliver.
Deliverable(m) == Total[m] <= Cap /\ m \notin LongTopic

\* has_topic: only the first fragment of a message carries its topic.
Starts(f) == f.off = 0
Whole(f)  == Total[f.msg] <= f.len

\* Operators marked "Fault:" are plausible bugs of the definition that follows
\* them; no specification uses them.
\* Fault: the end of the payload is taken for one past it.
FitsStrictly(f) == Total[f.msg] <= Cap /\ f.len <= Cap /\ f.off + f.len < Total[f.msg]
Fits(f)         == Total[f.msg] <= Cap /\ f.len <= Cap /\ f.off + f.len <= Total[f.msg]

\* record_drop. Fault: its bound on the reason leaves out the last one.
DroppedButLast(reason) ==
    IF reason = "queue_full" THEN stats ELSE [stats EXCEPT !.drops[reason] = @ + 1]
Dropped(reason) == [stats EXCEPT !.drops[reason] = @ + 1]

-----------------------------------------------------------------------------
(* The MQTT client task.                                                     *)

\* Fault: sending to the front of the queue.
EnqueueFront(item)   == Len(queue) < Depth /\ queue' = <<item>> \o queue
Enqueue(item) == Len(queue) < Depth /\ queue' = Append(queue, item)
QueueFull     == Len(queue) >= Depth /\ UNCHANGED queue

\* CONNECTED or DISCONNECTED: mqtt_manager's handler is registered first.
LinkUp ==
    /\ link = "down" /\ evt = "none"
    /\ link' = "up" /\ ready' = TRUE /\ evt' = "connected"
    /\ missed' = FALSE /\ refused' = {}
    /\ UNCHANGED <<subscribed, stream, boot, queue, taskVars, stats, offered, sent, lost>>

LinkDown ==
    /\ link = "up" /\ evt = "none"
    /\ link' = "down" /\ ready' = FALSE /\ evt' = "disconnected"
    /\ subscribed' = {}
    /\ stream' = Nobody
    /\ lost' = (lost \/ (stream # Nobody /\ Deliverable(stream.msg)))
    /\ UNCHANGED <<boot, queue, taskVars, stats, offered, sent, missed, refused>>

\* The dataplane's handler for the same event; before s_started it does nothing.
HandleLinkEvent ==
    /\ evt # "none" /\ evt' = "none"
    /\ \/ boot = "stopped" /\ UNCHANGED <<queue, missed>>
       \/ boot # "stopped" /\ Enqueue(LinkMsg(evt)) /\ UNCHANGED missed
       \/ boot # "stopped" /\ QueueFull /\ missed' = (missed \/ evt = "connected")
    /\ UNCHANGED <<linkVars, stream, boot, taskVars, stats, offered, sent, lost>>

\* MQTT_EVENT_DATA: validate, then queue a copy or count a drop.
Refused(f) == ~Fits(f) \/ (Starts(f) /\ f.msg \in LongTopic)
HandleData(f) ==
    \/ Refused(f) /\ stats' = Dropped("oversize") /\ UNCHANGED <<queue, lost>>
    \/ ~Refused(f) /\ Enqueue(f) /\ UNCHANGED <<stats, lost>>
    \/ ~Refused(f) /\ QueueFull /\ stats' = Dropped("queue_full")
       /\ lost' = (lost \/ Deliverable(f.msg))

\* The next fragment of the message in the stream, or the first of a new one.
ReceiveData ==
    /\ link = "up" /\ evt = "none" /\ offered < MaxEvents
    /\ \E m \in {n \in Msg : TopicOf[n] \in subscribed} :
         LET off == IF stream = Nobody THEN 0 ELSE stream.off
             len == Least(Chunk, Total[m] - off)
             end == off + len = Total[m]
         IN /\ stream # Nobody => m = stream.msg
            /\ HandleData(Fragment(m, off, len))
            /\ stream' = IF end THEN Nobody ELSE [msg |-> m, off |-> off + len]
            /\ sent' = IF end /\ Deliverable(m) THEN sent + 1 ELSE sent
    /\ offered' = offered + 1
    /\ UNCHANGED <<linkVars, evt, boot, taskVars, missed>>

-----------------------------------------------------------------------------
(* The main task: mqtt_dataplane_start.                                      *)

SetStarted ==
    /\ boot = "stopped" /\ boot' = "started"
    /\ UNCHANGED <<linkVars, stream, evt, queue, taskVars, stats, offered, sent, lost, missed>>

\* Inject DP_MSG_CONNECTED when the CONNECTED event came before s_started.
\* Fault: the event handler is trusted to have seen every CONNECTED.
InjectNothing ==
    boot = "started" /\ boot' = "running"
    /\ UNCHANGED <<linkVars, stream, evt, queue, taskVars, stats, offered, sent, lost, missed>>
InjectConnected ==
    /\ boot = "started" /\ boot' = "running"
    /\ \/ ~ready /\ UNCHANGED <<queue, missed>>
       \/ ready /\ Enqueue(LinkMsg("connected")) /\ UNCHANGED missed
       \/ ready /\ QueueFull /\ missed' = TRUE
    /\ UNCHANGED <<linkVars, stream, evt, taskVars, stats, offered, sent, lost>>

-----------------------------------------------------------------------------
(* The dataplane task.                                                       *)

\* handle_connected_event subscribes to one topic after another. The client refuses
\* them all when the link is down, and any of them when its outbox is full or memory
\* short; that is logged and not tried again.
\* Fault: the loop ends with the first topic that is refused.
SubscribeUntilRefused(topics) ==
    /\ subscribed' = subscribed \cup topics
    /\ \/ Topic \subseteq subscribed' /\ refused' = {}
       \/ \E t \in Topic \ subscribed' : refused' = {t}
Subscribe(topics) ==
    /\ subscribed' = subscribed \cup topics
    /\ refused' = (refused \cup Topic) \ subscribed'
HandleConnected(item) ==
    /\ item.type = "connected"
    /\ \/ link = "down" /\ UNCHANGED <<subscribed, refused>>
       \/ link = "up" /\ \E topics \in SUBSET Topic : Subscribe(topics)
    /\ UNCHANGED <<taskVars, stats>>

\* DP_MSG_DISCONNECTED is only logged; a flow in progress stays active.
IgnoreDisconnected(item) ==
    /\ item.type = "disconnected"
    /\ UNCHANGED <<subscribed, refused, taskVars, stats>>

Accepted == [stats EXCEPT !.accepted = @ + 1]
Completed == [Accepted EXCEPT !.completed = @ + 1]

Copied(f, b) == [i \in DOMAIN b |-> IF i - f.off \in Bytes(f.len) THEN f.msg ELSE b[i]]
Covered(f) == {i \in 0..Cap : i - f.off \in Bytes(f.len)}

\* reset_reassembly_state clears the flow and only the first byte of b.
Reset(b) == flow' = NoFlow /\ buf' = [b EXCEPT ![0] = Nul] /\ written' = {}

\* A first fragment preempts the flow in progress and starts its own, of which
\* it always is the expected fragment and never the last.
Begin(f) ==
    LET cleared == IF flow.active THEN [buf EXCEPT ![0] = Nul] ELSE buf
    IN /\ flow' = [active |-> TRUE, msg_id |-> MsgId[f.msg], total |-> Total[f.msg],
                   filled |-> f.len, first |-> f.msg]
       /\ buf' = Copied(f, cleared) /\ written' = Covered(f)
       /\ stats' = [Accepted EXCEPT !.preempted = IF flow.active THEN @ + 1 ELSE @]
       /\ UNCHANGED handed

SameFlow(f) == MsgId[f.msg] = flow.msg_id

\* Fault: off by one.
CompletesEarly(f) == flow.filled + f.len >= flow.total - 1
Completes(f)      == flow.filled + f.len >= flow.total

\* A later fragment, with a flow active.
Continue(f) ==
    LET agrees == SameFlow(f) /\ Total[f.msg] = flow.total
    IN \/ /\ ~SameFlow(f)
          /\ stats' = Dropped("overlap") /\ UNCHANGED taskVars
       \/ /\ SameFlow(f)
          /\ Total[f.msg] # flow.total \/ f.off < flow.filled
          /\ stats' = Dropped("overlap") /\ Reset(buf) /\ UNCHANGED handed
       \/ /\ agrees /\ f.off > flow.filled
          /\ stats' = Dropped("out_of_order") /\ Reset(buf) /\ UNCHANGED handed
       \/ /\ agrees /\ f.off = flow.filled /\ ~Completes(f)
          /\ flow' = [flow EXCEPT !.filled = @ + f.len]
          /\ buf' = Copied(f, buf) /\ written' = written \cup Covered(f)
          /\ stats' = Accepted /\ UNCHANGED handed
       \/ /\ agrees /\ f.off = flow.filled /\ Completes(f)
          /\ handed' = [msg |-> flow.first, fresh |-> written \cup Covered(f),
                        bytes |-> [i \in Bytes(flow.total) |-> Copied(f, buf)[i]]]
          /\ stats' = Completed
          /\ Reset([Copied(f, buf) EXCEPT ![flow.total] = Nul])

\* handle_fragment_message; the length checks of the event handler, which it
\* repeats first, hold of every queued fragment (QueuedFragmentsFit).
HandleFragment(f) ==
    /\ f.type = "fragment"
    /\ UNCHANGED <<subscribed, refused>>
    /\ \/ /\ Whole(f)
          /\ handed' = [msg |-> f.msg, fresh |-> Bytes(f.len),
                        bytes |-> [i \in Bytes(f.len) |-> f.msg]]
          /\ stats' = Completed /\ UNCHANGED <<flow, bufVars>>
       \/ /\ ~Whole(f) /\ ~Starts(f) /\ ~flow.active
          /\ stats' = Dropped("nonzero_first") /\ UNCHANGED taskVars
       \/ ~Whole(f) /\ Starts(f) /\ Begin(f)
       \/ ~Whole(f) /\ ~Starts(f) /\ flow.active /\ Continue(f)

TaskStep ==
    /\ queue # <<>>
    /\ queue' = Tail(queue)
    /\ LET item == Head(queue)
       IN HandleConnected(item) \/ IgnoreDisconnected(item) \/ HandleFragment(item)
    /\ UNCHANGED <<link, ready, stream, evt, boot, offered, sent, lost, missed>>

-----------------------------------------------------------------------------
Init ==
    /\ link = "down" /\ subscribed = {} /\ stream = Nobody /\ evt = "none"
    /\ ready = FALSE /\ boot = "stopped" /\ queue = <<>>
    /\ flow = NoFlow /\ buf = [i \in 0..Cap |-> Nul] /\ written = {} /\ handed = Nobody
    /\ stats = [accepted |-> 0, completed |-> 0, preempted |-> 0,
                drops |-> [r \in DropReason |-> 0]]
    /\ offered = 0 /\ sent = 0 /\ lost = FALSE /\ missed = FALSE /\ refused = {}

Next == \/ LinkUp \/ LinkDown \/ HandleLinkEvent \/ ReceiveData
        \/ SetStarted \/ InjectConnected \/ TaskStep

Spec == Init /\ [][Next]_vars

\* The main task finishes the start, an event being dispatched reaches the
\* second handler, and the dataplane task is never starved (priority 5).
Fairness == WF_vars(SetStarted) /\ WF_vars(InjectConnected)
            /\ WF_vars(HandleLinkEvent) /\ WF_vars(TaskStep)

FairSpec == Spec /\ Fairness

-----------------------------------------------------------------------------
(* Properties.                                                               *)

MsgsIn(q) == {i \in DOMAIN q : q[i].type = "fragment"}

\* Types: the fields of every queued item, of the flow and of the last payload
\* have the ranges the C types and the handler's length checks give them.
Fragments == [type : {"fragment"}, msg : Msg, off : Nat, len : Nat]
QueueItem == [type : {"connected", "disconnected"}] \cup Fragments
StatsType == [accepted : Nat, completed : Nat, preempted : Nat, drops : [DropReason -> Nat]]
HandedType(m) == [msg : {m}, fresh : SUBSET (0..Cap), bytes : [Bytes(Total[m]) -> Msg \cup {Nul}]]
FlowType == {NoFlow} \cup [active : {TRUE}, msg_id : Nat, total : Nat, filled : Nat, first : Msg]
TypeOK ==
    /\ link \in {"up", "down"} /\ subscribed \subseteq Topic /\ ready \in BOOLEAN
    /\ evt \in {"none", "connected", "disconnected"}
    /\ boot \in {"stopped", "started", "running"}
    /\ stream \in {Nobody} \cup [msg : Msg, off : Nat]
    /\ queue \in Seq(QueueItem) /\ Len(queue) <= Depth
    /\ flow \in FlowType
    /\ buf \in [0..Cap -> Msg \cup {Nul}] /\ written \subseteq 0..Cap
    /\ stats \in StatsType
    /\ handed = Nobody \/ \E m \in Msg : handed \in HandedType(m)
    /\ offered \in Nat /\ sent \in Nat /\ lost \in BOOLEAN /\ missed \in BOOLEAN
    /\ refused \subseteq Topic

\* A payload handed to process_payload or process_command holds only bytes
\* that fragments of its own flow wrote, whatever was lost, preempted or left
\* in the static buffer before: reassembly never exposes stale memory.
NoStaleBytes ==
    handed # Nobody => Bytes(Total[handed.msg]) \subseteq handed.fresh

\* The message an item of the queue ends, if it ends one.
EndOf(item) ==
    IF item.type = "fragment" /\ item.off + item.len = Total[item.msg] THEN item.msg ELSE "none"
Given == IF handed = Nobody THEN <<"none">> ELSE <<handed.msg, handed.bytes>>
Channel == INSTANCE PayloadChannel WITH
               inbox <- [i \in DOMAIN queue |-> EndOf(queue[i])],
               given <- Given, delivered <- stats.completed, lossy <- lost, Nothing <- "none"
\* The dataplane implements the channel of PayloadChannel, with the msg_id 0 all
\* messages share: payloads come in the order in which the messages ended, each
\* at most once; until a fragment is lost each is its message, whole, and after a
\* loss it has at least the length and the origin a spliced payload can have.
ImplementsChannel == Channel!Spec

\* Every byte of a payload handed over comes from the message whose topic it
\* is processed under: two messages are never spliced into one payload.
WholeMessage ==
    handed # Nobody =>
        \A i \in Bytes(Total[handed.msg]) : handed.bytes[i] = handed.msg

\* What the event handler queues passes every length check of the task, so the
\* task never counts an oversize drop next to the handler that counts them too.
QueuedFragmentsFit ==
    \A i \in MsgsIn(queue) : Fits(queue[i]) /\ (Whole(queue[i]) => Starts(queue[i]))

\* Splicing needs a loss first: as long as no fragment of a deliverable
\* message was dropped or cut off, every payload is one message.
SplicedOnlyAfterLoss == ~lost => WholeMessage

\* Every DATA event is accounted for exactly once: it waits in the queue, was
\* accepted, or was counted under one drop reason.
FragmentsAccounted ==
    offered = stats.accepted + Cardinality(MsgsIn(queue))
              + stats.drops["oversize"] + stats.drops["out_of_order"]
              + stats.drops["nonzero_first"] + stats.drops["overlap"]
              + stats.drops["queue_full"]

\* With nothing lost, every deliverable message has been handed over once the
\* queue is empty: neither the checks of reassembly nor oversize traffic
\* interleaved with it may swallow or duplicate a payload.
NothingSwallowed ==
    ~lost /\ queue = <<>> /\ stream = Nobody => stats.completed = sent

\* A session that is up is subscribed to every topic, is about to be (its
\* DP_MSG_CONNECTED is queued or the start has yet to inject it), or lost that
\* message to a full queue; a topic it lacks without that was refused by the client.
\* The start cannot slip between the two handlers of the event.
SessionNotForgotten ==
    link = "up" /\ evt = "none" /\ boot = "running" =>
        \/ Topic \subseteq subscribed \cup refused
        \/ missed \/ \E i \in DOMAIN queue : queue[i].type = "connected"

\* A session that stays up ends up subscribed to every topic the client did not
\* refuse to subscribe to, unless the queue was full when its connection was announced.
EventuallySubscribed ==
    <>[](link = "up") => <>[](Topic \subseteq subscribed \cup refused \/ missed)

=============================================================================
