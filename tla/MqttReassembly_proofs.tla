----------------------- MODULE MqttReassembly_proofs -----------------------
(***************************************************************************)
(* Proofs about MqttReassembly for every set of messages, every capacity,  *)
(* chunk size and queue depth.  IInv is the inductive invariant of the     *)
(* type invariant and of NoStaleBytes: what the event handler queues fits, *)
(* and the active flow is a flow of its first fragment's message whose     *)
(* first filled bytes its own fragments have written.  On top of IInv:     *)
(* that a session is never forgotten however connecting and                *)
(* mqtt_dataplane_start interleave, that the counters account for every    *)
(* DATA event, and, from the path that LInv finds in the queue, that       *)
(* nothing is spliced or swallowed without a loss and that the dataplane   *)
(* implements the channel of PayloadChannel.                               *)
(***************************************************************************)
EXTENDS MqttReassembly, FiniteSetTheorems, FunctionTheorems, SequenceTheorems, TLAPS

\* The client never reads past the end of the message it is receiving.
StreamOK == stream # Nobody => stream.off <= Total[stream.msg]

\* The event handler queues only fragments that pass the length checks.
QueueOK == \A i \in 1..Len(queue) : queue[i].type = "fragment" => Fits(queue[i])

FlowOK ==
    flow # NoFlow =>
        /\ flow.total = Total[flow.first] /\ flow.msg_id = MsgId[flow.first]
        /\ flow.filled < flow.total /\ flow.total <= Cap
        /\ Bytes(flow.filled) \subseteq written

IInv == TypeOK /\ StreamOK /\ QueueOK /\ FlowOK /\ NoStaleBytes

-----------------------------------------------------------------------------
(* The queue and the counters.                                               *)

\* Appending an item that fits keeps the queue typed, bounded and fitting.
LEMMA EnqueueOK ==
    ASSUME queue \in Seq(QueueItem), Len(queue) <= Depth, QueueOK,
           NEW item \in QueueItem, item.type = "fragment" => Fits(item),
           Enqueue(item)
    PROVE  queue' \in Seq(QueueItem) /\ Len(queue') <= Depth /\ QueueOK'
<1>1. queue' = Append(queue, item) /\ Len(queue) < Depth
  BY DEF Enqueue
<1>2. queue' \in Seq(QueueItem) /\ Len(queue') = Len(queue) + 1
  BY <1>1
<1>3. Len(queue') <= Depth
  BY <1>1, <1>2, ConstantsAssumption
<1>4. \A i \in 1..Len(queue') :
        queue'[i] = IF i <= Len(queue) THEN queue[i] ELSE item
  BY <1>1, <1>2
<1>5. QueueOK'
  BY <1>2, <1>4 DEF QueueOK, Fits
<1> QED BY <1>2, <1>3, <1>5

\* Taking the head of the queue keeps the rest as it was.
LEMMA DequeueOK ==
    ASSUME queue \in Seq(QueueItem), Len(queue) <= Depth, QueueOK,
           queue # <<>>, queue' = Tail(queue)
    PROVE  /\ queue' \in Seq(QueueItem) /\ Len(queue') <= Depth /\ QueueOK'
           /\ Head(queue) \in QueueItem
           /\ Head(queue).type = "fragment" => Fits(Head(queue))
<1>1. Len(queue) \in Nat \ {0} /\ Head(queue) = queue[1]
  OBVIOUS
<1>2. queue' \in Seq(QueueItem) /\ Len(queue') = Len(queue) - 1
  OBVIOUS
<1>3. \A i \in 1..Len(queue') : queue'[i] = queue[i + 1]
  OBVIOUS
<1>4. QueueOK'
  BY <1>1, <1>2, <1>3 DEF QueueOK, Fits
<1>5. Head(queue) \in QueueItem
  BY <1>1
<1>6. Len(queue') <= Depth
  BY <1>1, <1>2, ConstantsAssumption
<1> QED BY <1>1, <1>2, <1>4, <1>5, <1>6 DEF QueueOK

\* Counting a drop or an acceptance keeps the counters typed.
LEMMA CountersOK ==
    ASSUME stats \in StatsType
    PROVE  /\ \A r \in DropReason : Dropped(r) \in StatsType
           /\ Accepted \in StatsType /\ Completed \in StatsType
<1>1. stats.drops \in [DropReason -> Nat] /\ stats.accepted \in Nat
  BY DEF StatsType
<1>2. Accepted \in StatsType
  BY <1>1 DEF StatsType, Accepted
<1>3. Completed \in StatsType
  BY <1>2 DEF StatsType, Completed
<1>4. ASSUME NEW r \in DropReason PROVE Dropped(r) \in StatsType
  <2>1. [stats.drops EXCEPT ![r] = @ + 1] \in [DropReason -> Nat]
    BY <1>1
  <2>2. Dropped(r) = [stats EXCEPT !.drops = [stats.drops EXCEPT ![r] = @ + 1]]
    BY <1>1 DEF Dropped, StatsType
  <2> QED BY <2>1, <2>2 DEF StatsType
<1> QED BY <1>2, <1>3, <1>4

-----------------------------------------------------------------------------
(* The client task and the main task.                                        *)

\* The initial states satisfy IInv.
LEMMA InitOK == Init => IInv
<1> SUFFICES ASSUME Init PROVE IInv
  OBVIOUS
<1> USE ConstantsAssumption
<1>1. stats \in StatsType
  BY DEF Init, StatsType
<1>2. TypeOK
  <2>1. queue \in Seq(QueueItem) /\ Len(queue) <= Depth
    BY DEF Init
  <2>2. buf \in [0..Cap -> Msg \cup {Nul}] /\ written \subseteq 0..Cap
    BY DEF Init
  <2> QED BY <1>1, <2>1, <2>2 DEF Init, TypeOK, FlowType
<1>3. StreamOK /\ QueueOK /\ FlowOK /\ NoStaleBytes
  BY DEF Init, StreamOK, QueueOK, FlowOK, NoStaleBytes
<1> QED BY <1>2, <1>3 DEF IInv

\* A step that leaves the reassembly alone keeps what IInv says of it.
LEMMA ReassemblyUnchanged ==
    ASSUME IInv, UNCHANGED taskVars
    PROVE  /\ FlowOK' /\ NoStaleBytes'
           /\ flow' \in FlowType /\ buf' \in [0..Cap -> Msg \cup {Nul}]
           /\ written' \subseteq 0..Cap
           /\ handed' = Nobody \/ \E m \in Msg : handed' \in HandedType(m)
BY DEF IInv, TypeOK, FlowOK, NoStaleBytes, taskVars, bufVars

\* A link message is an item of the queue that fits.
LEMMA LinkItemOK ==
    ASSUME NEW t \in {"connected", "disconnected"}
    PROVE  LinkMsg(t) \in QueueItem /\ LinkMsg(t).type # "fragment"
BY DEF LinkMsg, QueueItem

\* The events of the connection keep IInv.
LEMMA LinkEventsOK ==
    ASSUME IInv, LinkUp \/ LinkDown \/ HandleLinkEvent \/ SetStarted \/ InjectConnected
    PROVE  IInv'
<1>1. UNCHANGED <<taskVars, stats, offered, sent>>
  BY DEF LinkUp, LinkDown, HandleLinkEvent, SetStarted, InjectConnected
<1>2. queue' \in Seq(QueueItem) /\ Len(queue') <= Depth /\ QueueOK'
  <2>1. CASE UNCHANGED queue
    BY <2>1 DEF IInv, TypeOK, QueueOK, Fits
  <2>2. CASE \E t \in {"connected", "disconnected"} : Enqueue(LinkMsg(t))
    BY <2>2, LinkItemOK, EnqueueOK DEF IInv, TypeOK
  <2>3. evt # "none" => evt \in {"connected", "disconnected"}
    BY DEF IInv, TypeOK
  <2> QED
    BY <2>1, <2>2, <2>3
    DEF LinkUp, LinkDown, HandleLinkEvent, SetStarted, InjectConnected, QueueFull
<1>3. stream' = stream \/ stream' = Nobody
  BY DEF LinkUp, LinkDown, HandleLinkEvent, SetStarted, InjectConnected
<1>4. StreamOK' /\ stream' \in {Nobody} \cup [msg : Msg, off : Nat]
  BY <1>3 DEF IInv, TypeOK, StreamOK
<1>5. /\ link' \in {"up", "down"} /\ subscribed' \subseteq Topic /\ ready' \in BOOLEAN
      /\ evt' \in {"none", "connected", "disconnected"}
      /\ boot' \in {"stopped", "started", "running"}
      /\ lost' \in BOOLEAN /\ missed' \in BOOLEAN /\ refused' \subseteq Topic
  BY DEF IInv, TypeOK, LinkUp, LinkDown, HandleLinkEvent, SetStarted, InjectConnected, linkVars
<1> QED
  BY <1>1, <1>2, <1>4, <1>5, ReassemblyUnchanged DEF IInv, TypeOK

\* The event handler queues only fragments that fit, and counts the others.
LEMMA ReceiveDataOK ==
    ASSUME IInv, ReceiveData
    PROVE  IInv'
<1> USE ConstantsAssumption
<1> DEFINE off == IF stream = Nobody THEN 0 ELSE stream.off
           len(m) == Least(Chunk, Total[m] - off)
<1>1. PICK m \in Msg :
        /\ stream # Nobody => m = stream.msg
        /\ HandleData(Fragment(m, off, len(m)))
        /\ stream' = IF off + len(m) = Total[m] THEN Nobody
                     ELSE [msg |-> m, off |-> off + len(m)]
        /\ sent' = IF off + len(m) = Total[m] /\ Deliverable(m) THEN sent + 1 ELSE sent
  BY DEF ReceiveData
<1> DEFINE f == Fragment(m, off, len(m))
<1>2. off \in Nat /\ off <= Total[m] /\ Total[m] \in Nat
  BY <1>1 DEF IInv, TypeOK, StreamOK
<1>3. len(m) \in Nat /\ off + len(m) <= Total[m]
  BY <1>2 DEF Least
<1>4. f \in QueueItem /\ f.type = "fragment"
  BY <1>2, <1>3 DEF Fragment, QueueItem, Fragments
<1>5. /\ queue' \in Seq(QueueItem) /\ Len(queue') <= Depth /\ QueueOK'
      /\ stats' \in StatsType /\ lost' \in BOOLEAN
  <2>1. CASE Refused(f) /\ stats' = Dropped("oversize") /\ UNCHANGED <<queue, lost>>
    BY <2>1, CountersOK DEF IInv, TypeOK, QueueOK, Fits, DropReason
  <2>2. CASE ~Refused(f) /\ Enqueue(f) /\ UNCHANGED <<stats, lost>>
    BY <2>2, <1>4, EnqueueOK DEF IInv, TypeOK, Refused
  <2>3. CASE /\ ~Refused(f) /\ QueueFull /\ stats' = Dropped("queue_full")
             /\ lost' = (lost \/ Deliverable(f.msg))
    BY <2>3, CountersOK DEF IInv, TypeOK, QueueOK, Fits, DropReason, QueueFull
  <2> QED BY <1>1, <2>1, <2>2, <2>3 DEF HandleData
<1>6. StreamOK' /\ stream' \in {Nobody} \cup [msg : Msg, off : Nat]
  BY <1>1, <1>2, <1>3 DEF StreamOK
<1>7. sent' \in Nat /\ offered' \in Nat
  BY <1>1 DEF IInv, TypeOK, ReceiveData
<1>8. UNCHANGED <<link, subscribed, ready, evt, boot, taskVars, missed, refused>>
  BY DEF ReceiveData, linkVars
<1> QED
  BY <1>5, <1>6, <1>7, <1>8, ReassemblyUnchanged DEF IInv, TypeOK

-----------------------------------------------------------------------------
(* The dataplane task.                                                       *)

\* Copying a fragment that fits keeps the buffer typed.
LEMMA CopiedOK ==
    ASSUME NEW f \in Fragments, NEW b \in [0..Cap -> Msg \cup {Nul}]
    PROVE  /\ Copied(f, b) \in [0..Cap -> Msg \cup {Nul}]
           /\ Covered(f) \subseteq 0..Cap
           /\ \A i \in 0..Cap : Copied(f, b)[i] = IF i \in Covered(f) THEN f.msg ELSE b[i]
BY DEF Copied, Covered, Fragments

\* A fragment that continues a prefix extends it without a gap.
LEMMA CoveredExtends ==
    ASSUME NEW f \in Fragments, f.off + f.len <= Cap + 1
    PROVE  \A i \in Bytes(f.off + f.len) : i \in Bytes(f.off) \/ i \in Covered(f)
BY ConstantsAssumption DEF Covered, Bytes, Fragments

\* A reset flow is idle and has copied nothing.
LEMMA ResetOK ==
    ASSUME NEW b \in [0..Cap -> Msg \cup {Nul}], Reset(b)
    PROVE  /\ flow' = NoFlow /\ buf' \in [0..Cap -> Msg \cup {Nul}]
           /\ written' \subseteq 0..Cap /\ FlowOK'
BY DEF Reset, FlowOK

\* The flows a fragment can continue, and what advancing one keeps of it.
ActiveFlows == [active : {TRUE}, msg_id : Nat, total : Nat, filled : Nat, first : Msg]

\* Advancing an active flow keeps its message, identifier and length.
LEMMA AdvanceOK ==
    ASSUME NEW r \in ActiveFlows, NEW n \in Nat
    PROVE  LET q == [r EXCEPT !.filled = n]
           IN /\ q \in ActiveFlows /\ q.filled = n /\ q.total = r.total
              /\ q.msg_id = r.msg_id /\ q.first = r.first
BY DEF ActiveFlows

\* The active flows are exactly the records other than NoFlow.
LEMMA ActiveFlow ==
    ASSUME flow \in FlowType
    PROVE  flow.active <=> flow # NoFlow
<1>1. NoFlow.active = FALSE
  BY DEF NoFlow
<1>2. ASSUME NEW r \in ActiveFlows PROVE r.active = TRUE
  BY DEF ActiveFlows
<1>3. flow = NoFlow \/ flow \in ActiveFlows
  BY DEF FlowType, ActiveFlows
<1> QED BY <1>1, <1>2, <1>3

\* An item that is not a link message is a fragment.
LEMMA FragmentItem ==
    ASSUME NEW x \in QueueItem, x.type = "fragment"
    PROVE  x \in Fragments
<1>1. x \notin [type : {"connected", "disconnected"}]
  OBVIOUS
<1> QED BY <1>1 DEF QueueItem

\* Preemptions are counted on top of an acceptance.
LEMMA PreemptOK ==
    ASSUME NEW s \in StatsType, NEW b
    PROVE  [s EXCEPT !.preempted = IF b THEN @ + 1 ELSE @] \in StatsType
<1>1. [s EXCEPT !.preempted = s.preempted + 1] \in StatsType
  BY DEF StatsType
<1>2. [s EXCEPT !.preempted = s.preempted] \in StatsType
  BY DEF StatsType
<1> QED BY <1>1, <1>2, Zenon

\* What HandleFragment does to the reassembly.
LEMMA HandleFragmentOK ==
    ASSUME IInv, NEW f \in Fragments, Fits(f), HandleFragment(f)
    PROVE  /\ FlowOK' /\ NoStaleBytes' /\ stats' \in StatsType
           /\ flow' \in FlowType /\ buf' \in [0..Cap -> Msg \cup {Nul}]
           /\ written' \subseteq 0..Cap
           /\ handed' = Nobody \/ \E m \in Msg : handed' \in HandedType(m)
<1> USE ConstantsAssumption
<1> DEFINE BufTyped(b) == b \in [0..Cap -> Msg \cup {Nul}]
<1>1. /\ flow \in FlowType /\ BufTyped(buf) /\ written \subseteq 0..Cap /\ stats \in StatsType
      /\ handed = Nobody \/ \E m \in Msg : handed \in HandedType(m)
      /\ FlowOK /\ NoStaleBytes
  BY DEF IInv, TypeOK
<1>2. /\ f.msg \in Msg /\ f.off \in Nat /\ f.len \in Nat /\ Total[f.msg] \in Nat
      /\ Total[f.msg] <= Cap /\ f.off + f.len <= Total[f.msg]
  BY DEF Fragments, Fits
<1>3. CASE UNCHANGED taskVars /\ \E r \in DropReason : stats' = Dropped(r)
  BY <1>1, <1>3, CountersOK, ReassemblyUnchanged
<1>4. CASE /\ Whole(f) /\ UNCHANGED <<flow, bufVars>> /\ stats' = Completed
           /\ handed' = [msg |-> f.msg, fresh |-> Bytes(f.len),
                         bytes |-> [i \in Bytes(f.len) |-> f.msg]]
  <2>1. f.len = Total[f.msg]
    BY <1>2, <1>4 DEF Whole
  <2>2. handed' \in HandedType(f.msg)
    BY <1>2, <1>4, <2>1 DEF HandedType, Bytes
  <2>3. NoStaleBytes'
    BY <1>4, <2>1 DEF NoStaleBytes
  <2> QED BY <1>1, <1>2, <1>4, <2>2, <2>3, CountersOK DEF bufVars, FlowOK
<1>5. CASE ~Whole(f) /\ Starts(f) /\ Begin(f)
  <2>1. PICK b \in {buf, [buf EXCEPT ![0] = Nul]} :
          buf' = Copied(f, b) /\ written' = Covered(f)
    BY <1>5 DEF Begin
  <2>2. BufTyped(b)
    BY <1>1, <2>1
  <2>3. BufTyped(buf') /\ written' \subseteq 0..Cap
    BY <2>1, <2>2, CopiedOK
  <2>4. flow' \in FlowType
    BY <1>2, <1>5 DEF Begin, FlowType
  <2>5. f.off = 0 /\ f.len < Total[f.msg]
    BY <1>2, <1>5 DEF Starts, Whole
  <2>6. Bytes(f.len) \subseteq written'
    BY <1>2, <2>1, <2>5 DEF Covered, Bytes
  <2>7. FlowOK'
    BY <1>2, <1>5, <2>5, <2>6 DEF Begin, FlowOK, NoFlow
  <2>8. stats' \in StatsType
    <3>1. stats' = [Accepted EXCEPT !.preempted = IF flow.active THEN @ + 1 ELSE @]
      BY <1>5, Zenon DEF Begin
    <3>2. Accepted \in StatsType
      BY <1>1, CountersOK
    <3> HIDE DEF BufTyped
    <3> QED BY <3>1, <3>2, PreemptOK, Zenon
  <2>9. UNCHANGED handed
    BY <1>5 DEF Begin
  <2> QED BY <1>1, <2>3, <2>4, <2>7, <2>8, <2>9 DEF NoStaleBytes
<1>6. CASE /\ Reset(buf) /\ UNCHANGED handed
           /\ \E r \in DropReason : stats' = Dropped(r)
  BY <1>1, <1>6, CountersOK, ResetOK DEF FlowType, NoStaleBytes
<1>7. CASE flow.active /\ SameFlow(f) /\ Total[f.msg] = flow.total /\ f.off = flow.filled
           /\ (\/ /\ ~Completes(f)
                 /\ flow' = [flow EXCEPT !.filled = @ + f.len]
                 /\ buf' = Copied(f, buf) /\ written' = written \cup Covered(f)
                 /\ stats' = Accepted /\ UNCHANGED handed
              \/ /\ Completes(f)
                 /\ handed' = [msg |-> flow.first, fresh |-> written \cup Covered(f),
                               bytes |-> [i \in Bytes(flow.total) |-> Copied(f, buf)[i]]]
                 /\ stats' = Completed
                 /\ Reset([Copied(f, buf) EXCEPT ![flow.total] = Nul]))
  <2>1. /\ flow # NoFlow /\ flow.first \in Msg /\ flow.filled \in Nat /\ flow.total \in Nat
        /\ flow \in ActiveFlows
    <3>1. flow.active
      BY <1>7
    <3>2. flow # NoFlow
      BY <1>1, <3>1, ActiveFlow
    <3>3. flow \in ActiveFlows
      BY <1>1, <3>2 DEF FlowType, ActiveFlows
    <3> QED BY <3>2, <3>3 DEF ActiveFlows
  <2>2. /\ flow.total = Total[flow.first] /\ flow.msg_id = MsgId[flow.first]
        /\ flow.filled < flow.total /\ flow.total <= Cap
        /\ Bytes(flow.filled) \subseteq written
    BY <1>1, <2>1 DEF FlowOK
  <2>3. BufTyped(Copied(f, buf)) /\ Covered(f) \subseteq 0..Cap
    BY <1>1, CopiedOK
  <2>4. Bytes(flow.filled + f.len) \subseteq written \cup Covered(f)
    BY <1>2, <1>7, <2>2, CoveredExtends
  <2>5. CASE /\ ~Completes(f)
             /\ flow' = [flow EXCEPT !.filled = @ + f.len]
             /\ buf' = Copied(f, buf) /\ written' = written \cup Covered(f)
             /\ stats' = Accepted /\ UNCHANGED handed
    <3>1. flow' = [flow EXCEPT !.filled = flow.filled + f.len] /\ flow.filled + f.len \in Nat
      BY <1>2, <2>1, <2>5
    <3>2. /\ flow' \in ActiveFlows /\ flow'.filled = flow.filled + f.len
          /\ flow'.total = flow.total /\ flow'.msg_id = flow.msg_id
          /\ flow'.first = flow.first
      BY <2>1, <3>1, AdvanceOK, Zenon
    <3>3. flow' \in FlowType
      BY <3>2 DEF FlowType, ActiveFlows
    <3>4. FlowOK'
      BY <1>2, <2>1, <2>2, <2>4, <2>5, <3>2 DEF FlowOK, Completes
    <3> QED BY <1>1, <2>3, <2>5, <3>3, <3>4, CountersOK DEF NoStaleBytes
  <2>6. CASE /\ Completes(f)
             /\ handed' = [msg |-> flow.first, fresh |-> written \cup Covered(f),
                           bytes |-> [i \in Bytes(flow.total) |-> Copied(f, buf)[i]]]
             /\ stats' = Completed
             /\ Reset([Copied(f, buf) EXCEPT ![flow.total] = Nul])
    <3>1. flow.filled + f.len = flow.total
      BY <1>2, <1>7, <2>1, <2>6 DEF Completes
    <3>2. Bytes(flow.total) \subseteq 0..Cap
      BY <2>1, <2>2 DEF Bytes
    <3>3. [i \in Bytes(flow.total) |-> Copied(f, buf)[i]]
            \in [Bytes(Total[flow.first]) -> Msg \cup {Nul}]
      BY <2>2, <2>3, <3>2
    <3>4. handed' \in HandedType(flow.first)
      BY <1>1, <2>3, <2>6, <3>3 DEF HandedType
    <3>5. NoStaleBytes'
      BY <2>2, <2>4, <2>6, <3>1 DEF NoStaleBytes
    <3>6. BufTyped([Copied(f, buf) EXCEPT ![flow.total] = Nul])
      BY <2>3
    <3> QED BY <1>1, <2>1, <2>6, <3>4, <3>5, <3>6, ResetOK, CountersOK DEF FlowType
  <2> QED BY <1>7, <2>5, <2>6
<1> QED
  BY <1>3, <1>4, <1>5, <1>6, <1>7 DEF HandleFragment, Continue, DropReason

\* A step of the dataplane task keeps IInv.
LEMMA TaskStepOK ==
    ASSUME IInv, TaskStep
    PROVE  IInv'
<1> DEFINE item == Head(queue)
<1>1. /\ queue' \in Seq(QueueItem) /\ Len(queue') <= Depth /\ QueueOK'
      /\ item \in QueueItem
      /\ item.type = "fragment" => Fits(item)
  BY DequeueOK DEF IInv, TypeOK, TaskStep
<1>2. UNCHANGED <<link, ready, stream, evt, boot, offered, sent, lost, missed>>
  BY DEF TaskStep
<1>3. CASE HandleConnected(item) \/ IgnoreDisconnected(item)
  <2>1. UNCHANGED <<taskVars, stats>> /\ subscribed' \subseteq Topic /\ refused' \subseteq Topic
    BY <1>3 DEF HandleConnected, Subscribe, IgnoreDisconnected, IInv, TypeOK
  <2> QED BY <1>1, <1>2, <2>1, ReassemblyUnchanged DEF IInv, TypeOK, StreamOK
<1>4. CASE HandleFragment(item)
  <2>1. item \in Fragments /\ Fits(item) /\ UNCHANGED <<subscribed, refused>>
    <3>1. item.type = "fragment" /\ UNCHANGED <<subscribed, refused>>
      BY <1>4 DEF HandleFragment
    <3> QED BY <1>1, <3>1, FragmentItem
  <2> QED BY <1>1, <1>2, <1>4, <2>1, HandleFragmentOK DEF IInv, TypeOK, StreamOK
<1> QED BY <1>3, <1>4 DEF TaskStep

-----------------------------------------------------------------------------

\* Every step of the inbound path keeps IInv.
LEMMA StepOK == IInv /\ [Next]_vars => IInv'
<1> SUFFICES ASSUME IInv, [Next]_vars PROVE IInv'
  OBVIOUS
<1>1. CASE UNCHANGED vars
  BY <1>1 DEF IInv, TypeOK, StreamOK, QueueOK, FlowOK, NoStaleBytes, Fits, vars, bufVars
<1>2. CASE Next
  BY <1>2, LinkEventsOK, ReceiveDataOK, TaskStepOK DEF Next
<1> QED BY <1>1, <1>2

\* Every behaviour of the inbound path keeps IInv.
THEOREM Invariance == Spec => []IInv
  BY InitOK, StepOK, PTL DEF Spec

\* Types hold whatever the messages, sizes and queue depth.
THEOREM TypeCorrect == Spec => []TypeOK
<1>1. IInv => TypeOK
  BY DEF IInv
<1> QED BY <1>1, Invariance, PTL

\* No payload handed over holds a byte its own flow has not written, whatever
\* was lost or preempted and however messages share identifiers.
THEOREM NoStaleBytesHolds == Spec => []NoStaleBytes
<1>1. IInv => NoStaleBytes
  BY DEF IInv
<1> QED BY <1>1, Invariance, PTL

\* The length checks the task repeats never fail.
THEOREM QueuedFragmentsFitHolds == Spec => []QueuedFragmentsFit
<1>1. IInv => QueuedFragmentsFit
  <2> SUFFICES ASSUME IInv, NEW i \in MsgsIn(queue)
               PROVE  Fits(queue[i]) /\ (Whole(queue[i]) => Starts(queue[i]))
    BY DEF QueuedFragmentsFit
  <2>1. i \in 1..Len(queue) /\ queue[i] \in Fragments
    BY DEF IInv, TypeOK, MsgsIn, QueueItem
  <2>2. Fits(queue[i])
    BY <2>1 DEF IInv, QueueOK, Fragments
  <2> QED BY <2>1, <2>2, ConstantsAssumption DEF Fits, Whole, Starts, Fragments
<1> QED BY <1>1, Invariance, PTL

-----------------------------------------------------------------------------
(* Flows of one message.                                                     *)

\* The prefix of the active flow holds nothing but bytes of its own message.
PrefixOK == flow # NoFlow => \A i \in Bytes(flow.filled) : buf[i] = flow.first

WInv == IInv /\ PrefixOK /\ WholeMessage

\* Flows that take only fragments of their own message hold whole messages.
LEMMA FragmentKeepsWhole ==
    ASSUME WInv, NEW f \in Fragments, Fits(f), HandleFragment(f),
           flow.active /\ SameFlow(f) => f.msg = flow.first
    PROVE  PrefixOK' /\ WholeMessage'
<1> USE ConstantsAssumption
<1>1. /\ flow \in FlowType /\ buf \in [0..Cap -> Msg \cup {Nul}]
      /\ FlowOK /\ PrefixOK /\ WholeMessage
  BY DEF WInv, IInv, TypeOK
<1>2. /\ f.msg \in Msg /\ f.off \in Nat /\ f.len \in Nat /\ Total[f.msg] \in Nat
      /\ Total[f.msg] <= Cap /\ f.off + f.len <= Total[f.msg]
  BY DEF Fragments, Fits
<1>3. CASE UNCHANGED taskVars
  BY <1>1, <1>3 DEF taskVars, bufVars, PrefixOK, WholeMessage
<1>4. CASE /\ Whole(f) /\ UNCHANGED <<flow, bufVars>>
           /\ handed' = [msg |-> f.msg, fresh |-> Bytes(f.len),
                         bytes |-> [i \in Bytes(f.len) |-> f.msg]]
  <2>1. f.len = Total[f.msg]
    BY <1>2, <1>4 DEF Whole
  <2>2. WholeMessage'
    BY <1>4, <2>1 DEF WholeMessage
  <2> QED BY <1>1, <1>4, <2>2 DEF bufVars, PrefixOK
<1>5. CASE ~Whole(f) /\ Starts(f) /\ Begin(f)
  <2>1. PICK b \in {buf, [buf EXCEPT ![0] = Nul]} : buf' = Copied(f, b)
    BY <1>5 DEF Begin
  <2>2. b \in [0..Cap -> Msg \cup {Nul}]
    BY <1>1, <2>1
  <2>3. flow'.filled = f.len /\ flow'.first = f.msg
    BY <1>5 DEF Begin
  <2>4. \A i \in Bytes(f.len) : i \in 0..Cap /\ i \in Covered(f)
    BY <1>2, <1>5 DEF Covered, Bytes, Starts
  <2>5. PrefixOK'
    BY <2>1, <2>2, <2>3, <2>4, CopiedOK DEF PrefixOK
  <2>6. UNCHANGED handed
    BY <1>5 DEF Begin
  <2> QED BY <1>1, <2>5, <2>6 DEF WholeMessage
<1>6. CASE Reset(buf) /\ UNCHANGED handed
  BY <1>1, <1>6 DEF Reset, PrefixOK, WholeMessage
<1>7. CASE flow.active /\ SameFlow(f) /\ Total[f.msg] = flow.total /\ f.off = flow.filled
           /\ (\/ /\ flow' = [flow EXCEPT !.filled = @ + f.len]
                 /\ buf' = Copied(f, buf) /\ UNCHANGED handed
              \/ /\ Completes(f)
                 /\ handed' = [msg |-> flow.first, fresh |-> written \cup Covered(f),
                               bytes |-> [i \in Bytes(flow.total) |-> Copied(f, buf)[i]]]
                 /\ Reset([Copied(f, buf) EXCEPT ![flow.total] = Nul]))
  <2>1. flow # NoFlow /\ flow \in ActiveFlows
    <3>1. flow.active
      BY <1>7
    <3> QED BY <1>1, <3>1, ActiveFlow DEF FlowType, ActiveFlows
  <2>2. /\ flow.first \in Msg /\ flow.filled \in Nat /\ flow.total \in Nat
        /\ flow.msg_id = MsgId[flow.first] /\ flow.total = Total[flow.first]
        /\ flow.total <= Cap /\ flow.filled < flow.total
        /\ \A i \in Bytes(flow.filled) : buf[i] = flow.first
    BY <1>1, <2>1 DEF FlowOK, PrefixOK, ActiveFlows
  <2>3. f.msg = flow.first
    BY <1>7
  <2>4. \A i \in Bytes(flow.filled + f.len) : Copied(f, buf)[i] = flow.first
    <3> SUFFICES ASSUME NEW i \in Bytes(flow.filled + f.len)
                 PROVE  Copied(f, buf)[i] = flow.first
      OBVIOUS
    <3>1. i \in 0..Cap
      BY <1>2, <1>7, <2>2 DEF Bytes
    <3>2. i \in Bytes(flow.filled) \/ i \in Covered(f)
      BY <1>2, <1>7, <2>2, CoveredExtends
    <3> QED BY <1>1, <2>2, <2>3, <3>1, <3>2, CopiedOK
  <2>5. CASE /\ flow' = [flow EXCEPT !.filled = @ + f.len]
             /\ buf' = Copied(f, buf) /\ UNCHANGED handed
    <3>1. flow' = [flow EXCEPT !.filled = flow.filled + f.len] /\ flow.filled + f.len \in Nat
      BY <1>2, <2>2, <2>5
    <3>2. flow'.filled = flow.filled + f.len /\ flow'.first = flow.first
      BY <2>1, <3>1, AdvanceOK, Zenon
    <3> QED BY <1>1, <2>4, <2>5, <3>2 DEF PrefixOK, WholeMessage
  <2>6. CASE /\ Completes(f)
             /\ handed' = [msg |-> flow.first, fresh |-> written \cup Covered(f),
                           bytes |-> [i \in Bytes(flow.total) |-> Copied(f, buf)[i]]]
             /\ Reset([Copied(f, buf) EXCEPT ![flow.total] = Nul])
    <3>1. flow.filled + f.len = flow.total
      BY <1>2, <1>7, <2>2, <2>6 DEF Completes
    <3>2. WholeMessage'
      BY <2>2, <2>4, <2>6, <3>1 DEF WholeMessage
    <3> QED BY <2>6, <3>2 DEF Reset, PrefixOK
  <2> QED BY <1>7, <2>5, <2>6
<1> QED
  BY <1>3, <1>4, <1>5, <1>6, <1>7 DEF HandleFragment, Continue

-----------------------------------------------------------------------------
(* The start-up race.                                                        *)

\* s_connected is what the last link event made it, and the event the
\* dataplane has yet to see is that last one.
LinkOK ==
    /\ ready <=> link = "up"
    /\ evt = "connected" => link = "up"
    /\ evt = "disconnected" => link = "down"

Announced == \E i \in 1..Len(queue) : queue[i].type = "connected"

SInv == IInv /\ LinkOK /\ SessionNotForgotten

\* What the client hands to the event handler is an item of the queue.
LEMMA DataIsItem ==
    ASSUME IInv, ReceiveData
    PROVE  \E f \in QueueItem : f.type = "fragment" /\ HandleData(f)
<1> DEFINE off == IF stream = Nobody THEN 0 ELSE stream.off
           len(m) == Least(Chunk, Total[m] - off)
<1>1. PICK m \in Msg : /\ stream # Nobody => m = stream.msg
                       /\ HandleData(Fragment(m, off, len(m)))
  BY DEF ReceiveData
<1>2. off \in Nat /\ off <= Total[m] /\ Total[m] \in Nat
  BY <1>1, ConstantsAssumption DEF IInv, TypeOK, StreamOK
<1>3. len(m) \in Nat
  BY <1>2, ConstantsAssumption DEF Least
<1>4. Fragment(m, off, len(m)) \in QueueItem /\ Fragment(m, off, len(m)).type = "fragment"
  BY <1>2, <1>3 DEF Fragment, QueueItem, Fragments
<1> QED BY <1>1, <1>4

\* What is in the queue stays in it when an item is appended.
LEMMA StillAnnounced ==
    ASSUME queue \in Seq(QueueItem), NEW item \in QueueItem, Enqueue(item)
    PROVE  Announced \/ item.type = "connected" => Announced'
<1>1. queue' \in Seq(QueueItem) /\ Len(queue') = Len(queue) + 1 /\ Len(queue) \in Nat
  BY DEF Enqueue
<1>2. \A i \in 1..Len(queue) : queue'[i] = queue[i]
  BY DEF Enqueue
<1>3. queue'[Len(queue) + 1] = item
  BY DEF Enqueue
<1> QED BY <1>1, <1>2, <1>3 DEF Announced

\* The property in terms of Announced.
LEMMA ForgottenBy ==
    ASSUME TypeOK
    PROVE  SessionNotForgotten <=>
             (link = "up" /\ evt = "none" /\ boot = "running" =>
                Topic \subseteq subscribed \cup refused \/ missed \/ Announced)
BY DEF TypeOK, SessionNotForgotten, Announced

\* Every step keeps the session from being forgotten.
LEMMA SessionStep == SInv /\ [Next]_vars => SInv'
<1> SUFFICES ASSUME SInv, [Next]_vars PROVE SInv'
  OBVIOUS
<1>1. IInv' /\ TypeOK /\ TypeOK' /\ queue \in Seq(QueueItem)
  BY StepOK DEF SInv, IInv, TypeOK
<1> DEFINE Claim == link = "up" /\ evt = "none" /\ boot = "running"
                      => Topic \subseteq subscribed \cup refused \/ missed \/ Announced
<1>2. Claim /\ LinkOK
  BY <1>1, ForgottenBy DEF SInv
<1>3. SUFFICES Claim' /\ LinkOK'
  <2>1. (SessionNotForgotten <=> Claim)'
    BY <1>1, ForgottenBy, PTL
  <2> QED BY <1>1, <2>1 DEF SInv
<1>4. CASE LinkUp
  BY <1>2, <1>4 DEF LinkUp, LinkOK
<1>5. CASE LinkDown
  BY <1>2, <1>5 DEF LinkDown, LinkOK
<1>6. CASE HandleLinkEvent
  <2>1. LinkOK' /\ UNCHANGED linkVars /\ UNCHANGED boot /\ evt # "none"
    BY <1>2, <1>6 DEF HandleLinkEvent, LinkOK, linkVars
  <2>2. CASE boot = "stopped"
    BY <2>1, <2>2
  <2>3. CASE Enqueue(LinkMsg(evt))
    <3>1. evt \in {"connected", "disconnected"}
      BY <1>1, <2>1 DEF TypeOK
    <3>2. LinkMsg(evt) \in QueueItem /\ LinkMsg(evt).type = evt
      BY <3>1 DEF LinkMsg, QueueItem
    <3>3. evt = "connected" => Announced'
      BY <1>1, <2>3, <3>2, StillAnnounced
    <3> QED BY <1>2, <2>1, <3>1, <3>3 DEF LinkOK, linkVars
  <2>4. CASE missed' = (missed \/ evt = "connected")
    <3>1. evt \in {"connected", "disconnected"}
      BY <1>1, <2>1 DEF TypeOK
    <3> QED BY <1>2, <2>1, <2>4, <3>1 DEF LinkOK, linkVars
  <2> QED BY <1>6, <2>2, <2>3, <2>4 DEF HandleLinkEvent
<1>7. CASE ReceiveData
  <2>1. UNCHANGED <<linkVars, evt, boot, missed>> /\ LinkOK'
    BY <1>2, <1>7 DEF ReceiveData, LinkOK, linkVars
  <2>2. Announced => Announced'
    <3>1. PICK f \in QueueItem : HandleData(f)
      BY <1>7, DataIsItem DEF SInv
    <3>2. UNCHANGED queue \/ Enqueue(f)
      BY <3>1 DEF HandleData, QueueFull
    <3> QED BY <1>1, <3>2, StillAnnounced DEF Announced
  <2> QED BY <1>2, <2>1, <2>2 DEF linkVars
<1>8. CASE SetStarted
  BY <1>2, <1>8 DEF SetStarted, LinkOK, linkVars
<1>9. CASE InjectConnected
  <2>1. UNCHANGED <<linkVars, evt>> /\ LinkOK'
    BY <1>2, <1>9 DEF InjectConnected, LinkOK, linkVars
  <2>2. CASE ~ready
    BY <1>2, <2>1, <2>2 DEF LinkOK, linkVars
  <2>3. CASE Enqueue(LinkMsg("connected"))
    <3>1. LinkMsg("connected") \in QueueItem /\ LinkMsg("connected").type = "connected"
      BY DEF LinkMsg, QueueItem
    <3>2. Announced'
      BY <1>1, <2>3, <3>1, StillAnnounced
    <3> QED BY <2>1, <3>2
  <2>4. CASE missed' = TRUE
    BY <2>1, <2>4
  <2> QED BY <1>9, <2>2, <2>3, <2>4 DEF InjectConnected
<1>10. CASE TaskStep
  <2>1. UNCHANGED <<link, ready, evt, boot, missed>> /\ LinkOK'
    BY <1>2, <1>10 DEF TaskStep, LinkOK
  <2>2. CASE HandleConnected(Head(queue))
    BY <1>1, <2>1, <2>2 DEF HandleConnected, Subscribe, TypeOK
  <2>3. CASE UNCHANGED <<subscribed, refused>> /\ Head(queue).type # "connected"
    <3>1. queue' = Tail(queue) /\ queue # <<>>
      BY <1>10 DEF TaskStep
    <3>2. Len(queue') = Len(queue) - 1 /\ \A i \in 1..Len(queue') : queue'[i] = queue[i + 1]
      BY <1>1, <3>1
    <3>3. Announced => Announced'
      <4> SUFFICES ASSUME NEW i \in 1..Len(queue), queue[i].type = "connected"
                   PROVE  Announced'
        BY DEF Announced
      <4>1. i # 1
        BY <1>1, <2>3, <3>1
      <4>2. i - 1 \in 1..Len(queue') /\ queue'[i - 1] = queue[i]
        BY <1>1, <3>2, <4>1
      <4> QED BY <4>2 DEF Announced
    <3> QED BY <1>2, <2>1, <2>3, <3>3
  <2> QED
    BY <1>10, <2>2, <2>3 DEF TaskStep, IgnoreDisconnected, HandleFragment
<1>11. CASE UNCHANGED vars
  BY <1>2, <1>11 DEF vars, linkVars, LinkOK, Announced
<1> QED
  BY <1>4, <1>5, <1>6, <1>7, <1>8, <1>9, <1>10, <1>11 DEF Next

\* Whatever the queue's depth and however the client connects while the
\* dataplane starts, a session that is up is subscribed to every topic the client
\* has not refused, about to be, or its announcement found the queue full.
THEOREM SessionNotForgottenHolds == Spec => []SessionNotForgotten
<1>1. Init => SInv
  BY InitOK DEF Init, SInv, LinkOK, SessionNotForgotten
<1>2. SInv => SessionNotForgotten
  BY DEF SInv
<1> QED BY <1>1, <1>2, SessionStep, PTL DEF Spec

-----------------------------------------------------------------------------
(* The counters.                                                             *)

\* Appending a fragment adds one to the fragments waiting, a link message none.
LEMMA AppendCounts ==
    ASSUME NEW q \in Seq(QueueItem), NEW item \in QueueItem
    PROVE  /\ IsFiniteSet(MsgsIn(q))
           /\ Cardinality(MsgsIn(q)) \in Nat
           /\ Cardinality(MsgsIn(Append(q, item))) =
                Cardinality(MsgsIn(q)) + (IF item.type = "fragment" THEN 1 ELSE 0)
<1>1. Len(q) \in Nat /\ DOMAIN q = 1..Len(q)
  OBVIOUS
<1>2. IsFiniteSet(MsgsIn(q))
  <2>1. MsgsIn(q) \in SUBSET (1..Len(q))
    BY <1>1 DEF MsgsIn
  <2>2. IsFiniteSet(1..Len(q))
    BY <1>1, FS_Interval
  <2> QED BY <2>1, <2>2, FS_Subset
<1>3. /\ DOMAIN Append(q, item) = 1..(Len(q) + 1)
      /\ \A i \in 1..Len(q) : Append(q, item)[i] = q[i]
      /\ Append(q, item)[Len(q) + 1] = item
  BY <1>1
<1>4. MsgsIn(Append(q, item)) =
        IF item.type = "fragment" THEN MsgsIn(q) \cup {Len(q) + 1} ELSE MsgsIn(q)
  BY <1>1, <1>3 DEF MsgsIn
<1>5. Len(q) + 1 \notin MsgsIn(q)
  BY <1>1 DEF MsgsIn
<1>6. Cardinality(MsgsIn(q)) \in Nat
  BY <1>2, FS_CardinalityType
<1>7. Cardinality(MsgsIn(q) \cup {Len(q) + 1}) = Cardinality(MsgsIn(q)) + 1
  BY <1>2, <1>5, FS_AddElement
<1> QED BY <1>2, <1>4, <1>6, <1>7

\* Taking a fragment off the queue leaves one less, a link message none less.
LEMMA TailCounts ==
    ASSUME NEW q \in Seq(QueueItem), q # <<>>
    PROVE  Cardinality(MsgsIn(Tail(q))) =
             Cardinality(MsgsIn(q)) - (IF Head(q).type = "fragment" THEN 1 ELSE 0)
<1>1. /\ Len(q) \in Nat \ {0} /\ DOMAIN q = 1..Len(q) /\ Head(q) = q[1]
      /\ DOMAIN Tail(q) = 1..(Len(q) - 1)
      /\ \A i \in 1..(Len(q) - 1) : Tail(q)[i] = q[i + 1]
  OBVIOUS
<1> DEFINE S == MsgsIn(q) \ {1}
           T == MsgsIn(Tail(q))
           g == [i \in S |-> i - 1]
<1>2. IsFiniteSet(MsgsIn(q)) /\ Cardinality(MsgsIn(q)) \in Nat
  <2>1. Head(q) \in QueueItem
    OBVIOUS
  <2> QED BY <2>1, AppendCounts
<1>3. g \in Bijection(S, T)
  <2>1. \A i \in S : i \in 2..Len(q) /\ i - 1 \in T
    BY <1>1 DEF MsgsIn
  <2>2. \A j \in T : j + 1 \in S /\ (j + 1) - 1 = j
    BY <1>1 DEF MsgsIn
  <2>3. g \in [S -> T]
    BY <2>1
  <2>4. \A a, b \in S : g[a] = g[b] => a = b
    BY <2>1
  <2>5. \A j \in T : \E i \in S : g[i] = j
    <3> SUFFICES ASSUME NEW j \in T PROVE \E i \in S : g[i] = j
      OBVIOUS
    <3>1. j + 1 \in S /\ (j + 1) - 1 = j
      BY <2>2
    <3> QED BY <3>1
  <2> QED BY <2>3, <2>4, <2>5, Fun_IsBij
<1>4. IsFiniteSet(S) /\ Cardinality(S) =
        Cardinality(MsgsIn(q)) - (IF Head(q).type = "fragment" THEN 1 ELSE 0)
  <2>1. 1 \in MsgsIn(q) <=> Head(q).type = "fragment"
    BY <1>1 DEF MsgsIn
  <2>2. /\ IsFiniteSet(S)
        /\ Cardinality(S) = IF 1 \in MsgsIn(q) THEN Cardinality(MsgsIn(q)) - 1
                            ELSE Cardinality(MsgsIn(q))
    BY <1>2, FS_RemoveElement
  <2> QED BY <1>2, <2>1, <2>2
<1>5. ExistsBijection(S, T)
  BY <1>3 DEF ExistsBijection
<1> QED BY <1>4, <1>5, FS_Bijection

\* The DATA events the counters account for.
Counted(s) ==
    s.accepted + s.drops["oversize"] + s.drops["out_of_order"]
      + s.drops["nonzero_first"] + s.drops["overlap"] + s.drops["queue_full"]

\* Every way of counting counts one event.
LEMMA CountsOne ==
    ASSUME stats \in StatsType
    PROVE  /\ Counted(stats) \in Nat
           /\ Counted(Accepted) = Counted(stats) + 1
           /\ Counted(Completed) = Counted(stats) + 1
           /\ \A r \in DropReason : Counted(Dropped(r)) = Counted(stats) + 1
<1>1. stats.accepted \in Nat /\ stats.drops \in [DropReason -> Nat]
  BY DEF StatsType
<1>2. \A r \in DropReason : stats.drops[r] \in Nat
  BY <1>1
<1>3. Counted(stats) \in Nat
  BY <1>1, <1>2 DEF Counted, DropReason
<1>4. Accepted.accepted = stats.accepted + 1 /\ Accepted.drops = stats.drops
  BY DEF Accepted, StatsType
<1>5. Accepted \in StatsType
  BY CountersOK
<1>6. Completed.accepted = stats.accepted + 1 /\ Completed.drops = stats.drops
  BY <1>4, <1>5 DEF Completed, StatsType
<1>7. ASSUME NEW r \in DropReason PROVE Counted(Dropped(r)) = Counted(stats) + 1
  <2>1. /\ Dropped(r).accepted = stats.accepted
        /\ Dropped(r).drops = [stats.drops EXCEPT ![r] = @ + 1]
    BY <1>1 DEF Dropped, StatsType
  <2>2. \A x \in DropReason :
          Dropped(r).drops[x] = IF x = r THEN stats.drops[x] + 1 ELSE stats.drops[x]
    BY <1>1, <2>1
  <2> QED BY <1>1, <1>2, <2>1, <2>2 DEF Counted, DropReason
<1>8. Counted(Accepted) = Counted(stats) + 1 /\ Counted(Completed) = Counted(stats) + 1
  BY <1>1, <1>2, <1>4, <1>6 DEF Counted, DropReason
<1> QED BY <1>3, <1>7, <1>8

\* A fragment taken off the queue is counted once, whatever becomes of it.
LEMMA FragmentCountsOne ==
    ASSUME stats \in StatsType, NEW f, HandleFragment(f)
    PROVE  Counted(stats') = Counted(stats) + 1
<1>1. CASE stats' = Completed \/ stats' = Accepted \/ \E r \in DropReason : stats' = Dropped(r)
  BY <1>1, CountsOne
<1>2. CASE Begin(f)
  <2>1. Accepted \in StatsType
    BY CountersOK
  <2>2. \A s \in StatsType : \A n : LET t == [s EXCEPT !.preempted = n]
                                     IN  t.accepted = s.accepted /\ t.drops = s.drops
    BY DEF StatsType
  <2>3. \E n : stats' = [Accepted EXCEPT !.preempted = n]
    <3>1. stats' = [Accepted EXCEPT !.preempted = IF flow.active THEN @ + 1 ELSE @]
      BY <1>2, Zenon DEF Begin
    <3> QED BY <3>1
  <2>4. stats'.accepted = Accepted.accepted /\ stats'.drops = Accepted.drops
    BY <2>1, <2>2, <2>3
  <2> QED BY <2>4, CountsOne DEF Counted
<1> QED BY <1>1, <1>2 DEF HandleFragment, Continue, DropReason

CInv == IInv /\ offered = Counted(stats) + Cardinality(MsgsIn(queue))

\* Every step counts exactly the events it takes off the queue or drops.
LEMMA CountStep == CInv /\ [Next]_vars => CInv'
<1> SUFFICES ASSUME CInv, [Next]_vars
             PROVE  offered' = Counted(stats') + Cardinality(MsgsIn(queue'))
  BY StepOK DEF CInv, Counted, MsgsIn
<1>1. /\ queue \in Seq(QueueItem) /\ stats \in StatsType /\ offered \in Nat
      /\ offered = Counted(stats) + Cardinality(MsgsIn(queue))
  BY DEF CInv, IInv, TypeOK
<1>2. Counted(stats) \in Nat /\ Cardinality(MsgsIn(queue)) \in Nat
  <2>1. LinkMsg("connected") \in QueueItem
    BY LinkItemOK
  <2> QED BY <1>1, <2>1, CountsOne, AppendCounts
<1>3. CASE UNCHANGED <<queue, stats, offered>>
  BY <1>1, <1>3
<1>4. CASE /\ UNCHANGED <<stats, offered>>
           /\ \E t \in {"connected", "disconnected"} : Enqueue(LinkMsg(t))
  <2>1. PICK t \in {"connected", "disconnected"} : queue' = Append(queue, LinkMsg(t))
    BY <1>4 DEF Enqueue
  <2>2. Cardinality(MsgsIn(queue')) = Cardinality(MsgsIn(queue)) + 0
    BY <1>1, <2>1, LinkItemOK, AppendCounts
  <2> QED BY <1>1, <1>2, <1>4, <2>2
<1>5. CASE ReceiveData
  <2>1. offered' = offered + 1
    BY <1>5 DEF ReceiveData
  <2>2. PICK f \in QueueItem : f.type = "fragment" /\ HandleData(f)
    BY <1>5, DataIsItem DEF CInv
  <2>4. CASE UNCHANGED queue /\ \E r \in DropReason : stats' = Dropped(r)
    BY <1>1, <1>2, <2>1, <2>4, CountsOne
  <2>5. CASE Enqueue(f) /\ UNCHANGED stats
    <3>1. Cardinality(MsgsIn(queue')) = Cardinality(MsgsIn(queue)) + 1
      BY <1>1, <2>2, <2>5, AppendCounts DEF Enqueue
    <3> QED BY <1>1, <1>2, <2>1, <2>5, <3>1
  <2> QED BY <2>2, <2>4, <2>5 DEF HandleData, QueueFull, DropReason
<1>6. CASE TaskStep
  <2>1. queue # <<>> /\ queue' = Tail(queue) /\ UNCHANGED offered
    BY <1>6 DEF TaskStep
  <2>2. Cardinality(MsgsIn(queue')) =
          Cardinality(MsgsIn(queue)) - (IF Head(queue).type = "fragment" THEN 1 ELSE 0)
    BY <1>1, <2>1, TailCounts
  <2>3. CASE HandleConnected(Head(queue)) \/ IgnoreDisconnected(Head(queue))
    <3>1. UNCHANGED stats /\ Head(queue).type # "fragment"
      BY <2>3 DEF HandleConnected, IgnoreDisconnected
    <3> QED BY <1>1, <1>2, <2>1, <2>2, <3>1
  <2>4. CASE HandleFragment(Head(queue))
    <3>1. Counted(stats') = Counted(stats) + 1 /\ Head(queue).type = "fragment"
      BY <1>1, <2>4, FragmentCountsOne DEF HandleFragment
    <3> QED BY <1>1, <1>2, <2>1, <2>2, <3>1
  <2> QED BY <1>6, <2>3, <2>4 DEF TaskStep
<1>7. evt # "none" => evt \in {"connected", "disconnected"}
  BY DEF CInv, IInv, TypeOK
<1> QED
  BY <1>3, <1>4, <1>5, <1>6, <1>7
  DEF Next, LinkUp, LinkDown, HandleLinkEvent, SetStarted, InjectConnected, QueueFull, vars

\* Whatever is lost, preempted or interleaved, every DATA event waits in the
\* queue, was accepted, or was counted under exactly one drop reason.
THEOREM FragmentsAccountedHolds == Spec => []FragmentsAccounted
<1>1. Init => CInv
  <2> SUFFICES ASSUME Init PROVE offered = Counted(stats) + Cardinality(MsgsIn(queue))
    BY InitOK DEF CInv
  <2>1. Cardinality(MsgsIn(queue)) = 0
    <3>1. MsgsIn(queue) = {}
      BY DEF Init, MsgsIn
    <3> QED BY <3>1, FS_EmptySet
  <2>2. Counted(stats) = 0 /\ offered = 0
    BY DEF Init, Counted, DropReason
  <2> QED BY <2>1, <2>2
<1>2. CInv => FragmentsAccounted
  <2> SUFFICES ASSUME CInv PROVE FragmentsAccounted
    OBVIOUS
  <2>1. stats.accepted \in Nat /\ \A r \in DropReason : stats.drops[r] \in Nat
    BY DEF CInv, IInv, TypeOK, StatsType
  <2>2. Cardinality(MsgsIn(queue)) \in Nat
    <3>1. queue \in Seq(QueueItem)
      BY DEF CInv, IInv, TypeOK
    <3> QED BY <3>1, LinkItemOK, AppendCounts
  <2> QED BY <2>1, <2>2 DEF CInv, Counted, FragmentsAccounted, DropReason
<1> QED BY <1>1, <1>2, CountStep, PTL DEF Spec

-----------------------------------------------------------------------------
(* Without a loss the fragments of a message are one after the other in the  *)
(* stream, and in the queue, whatever link messages and remains of messages  *)
(* with a long topic come between.  A place is what has been read of a       *)
(* deliverable message, and how many were read to their end.                 *)

Place == [at : {<<>>} \cup Msg \X Nat, n : Nat]

Final(f)  == f.off + f.len = Total[f.msg]
Before(f) == IF f.off = 0 THEN <<>> ELSE <<f.msg, f.off>>
After(f)  == IF Final(f) THEN <<>> ELSE <<f.msg, f.off + f.len>>

\* An item of the queue leads from place p to place q.
Leads(p, item, q) ==
    \/ item.type # "fragment" /\ q = p
    \/ /\ item.type = "fragment" /\ Deliverable(item.msg)
       /\ p.at = Before(item) /\ q.at = After(item)
       /\ q.n = IF Final(item) THEN p.n + 1 ELSE p.n
    \/ /\ item.type = "fragment" /\ ~Deliverable(item.msg) /\ ~Starts(item)
       /\ p.at = <<>> /\ q = p

\* The places that a queue leads through.
Path(places, items, from, to) ==
    /\ places \in [0..Len(items) -> Place]
    /\ places[0] = from /\ places[Len(items)] = to
    /\ \A i \in 1..Len(items) : Leads(places[i - 1], items[i], places[i])

\* Where the dataplane task is, and where the client is.
Reassembled == [at |-> IF flow.active THEN <<flow.first, flow.filled>> ELSE <<>>,
                n |-> stats.completed]
Received == [at |-> IF stream # Nobody /\ Deliverable(stream.msg)
                    THEN <<stream.msg, stream.off>> ELSE <<>>,
             n |-> sent]
Contiguous == \E places : Path(places, queue, Reassembled, Received)

\* The client is past the beginning of the message it is in.
StreamBegun == stream # Nobody => stream.off > 0

LInv == IInv /\ StreamBegun /\ (~lost => PrefixOK /\ WholeMessage /\ Contiguous)

\* Only a completed payload is counted as one.
LEMMA CompletedCount ==
    ASSUME NEW s \in StatsType, NEW b
    PROVE  /\ \A r \in DropReason : [s EXCEPT !.drops[r] = @ + 1].completed = s.completed
           /\ [s EXCEPT !.accepted = @ + 1].completed = s.completed
           /\ [[s EXCEPT !.accepted = @ + 1] EXCEPT !.completed = @ + 1].completed = s.completed + 1
           /\ [[s EXCEPT !.accepted = @ + 1] EXCEPT !.preempted = IF b THEN @ + 1 ELSE @].completed
                = s.completed
BY DEF StatsType

\* A queue that grows leads on from where it ended.
LEMMA PathAppend ==
    ASSUME NEW items \in Seq(QueueItem), NEW item \in QueueItem, NEW from, NEW to,
           NEW next \in Place, NEW places, Path(places, items, from, to), Leads(to, item, next)
    PROVE  \E more : Path(more, Append(items, item), from, next)
<1> DEFINE longer == Append(items, item)
           more == [i \in 0..(Len(items) + 1) |-> IF i <= Len(items) THEN places[i] ELSE next]
<1>1. /\ Len(items) \in Nat /\ Len(longer) = Len(items) + 1
      /\ \A i \in 1..Len(items) : longer[i] = items[i]
      /\ longer[Len(items) + 1] = item
  OBVIOUS
<1>2. more \in [0..Len(longer) -> Place]
  BY <1>1 DEF Path
<1>3. more[0] = from /\ more[Len(longer)] = next
  BY <1>1 DEF Path
<1>4. \A i \in 1..Len(longer) : Leads(more[i - 1], longer[i], more[i])
  <2> SUFFICES ASSUME NEW i \in 1..Len(longer) PROVE Leads(more[i - 1], longer[i], more[i])
    OBVIOUS
  <2>1. CASE i <= Len(items)
    <3>1. more[i - 1] = places[i - 1] /\ more[i] = places[i] /\ longer[i] = items[i]
      BY <1>1, <2>1
    <3>2. Leads(places[i - 1], items[i], places[i])
      BY <1>1, <2>1 DEF Path
    <3> QED BY <3>1, <3>2
  <2>2. CASE i = Len(items) + 1
    <3>1. more[i - 1] = to /\ more[i] = next /\ longer[i] = item
      BY <1>1, <2>2 DEF Path
    <3> QED BY <3>1
  <2> QED BY <1>1, <2>1, <2>2
<1> HIDE DEF more
<1> QED BY <1>2, <1>3, <1>4 DEF Path

\* Taking its head leaves what leads on from there.
LEMMA PathTail ==
    ASSUME NEW items \in Seq(QueueItem), items # <<>>, NEW from, NEW to,
           NEW places, Path(places, items, from, to)
    PROVE  \E next \in Place : /\ Leads(from, Head(items), next)
                               /\ \E rest : Path(rest, Tail(items), next, to)
<1> DEFINE rest == [i \in 0..(Len(items) - 1) |-> places[i + 1]]
<1>1. /\ Len(items) \in Nat \ {0} /\ Head(items) = items[1]
      /\ Len(Tail(items)) = Len(items) - 1
      /\ \A i \in 1..(Len(items) - 1) : Tail(items)[i] = items[i + 1]
  OBVIOUS
<1>2. places[1] \in Place /\ Leads(from, Head(items), places[1])
  BY <1>1 DEF Path
<1>3. rest \in [0..Len(Tail(items)) -> Place]
  BY <1>1 DEF Path
<1>4. rest[0] = places[1] /\ rest[Len(Tail(items))] = to
  BY <1>1 DEF Path
<1>5. \A i \in 1..Len(Tail(items)) : Leads(rest[i - 1], Tail(items)[i], rest[i])
  <2> SUFFICES ASSUME NEW i \in 1..Len(Tail(items))
               PROVE  Leads(rest[i - 1], Tail(items)[i], rest[i])
    OBVIOUS
  <2>1. rest[i - 1] = places[i] /\ rest[i] = places[i + 1] /\ Tail(items)[i] = items[i + 1]
    BY <1>1
  <2>2. Leads(places[i], items[i + 1], places[i + 1])
    <3>1. i + 1 \in 1..Len(items) /\ (i + 1) - 1 = i
      BY <1>1
    <3> QED BY <3>1 DEF Path
  <2> QED BY <2>1, <2>2
<1>6. Path(rest, Tail(items), places[1], to)
  <2> HIDE DEF rest
  <2> QED BY <1>3, <1>4, <1>5 DEF Path
<1> QED BY <1>2, <1>6

\* A place is the pair of its two fields.
LEMMA PlaceIs ==
    ASSUME NEW p \in Place, NEW a, NEW k, p.at = a, p.n = k
    PROVE  p = [at |-> a, n |-> k]
BY DEF Place

\* Positions: in a message, or between two.
LEMMA InAMessage ==
    \A m, k, a, b : <<m, k>> # <<>> /\ (<<m, k>> = <<a, b>> => m = a /\ k = b)
OBVIOUS

\* Handling a fragment goes to the place it leads to; a flow takes only its own.
LEMMA FragmentLeads ==
    ASSUME IInv, NEW f \in Fragments, Fits(f), HandleFragment(f),
           NEW next \in Place, Leads(Reassembled, f, next)
    PROVE  Reassembled' = next /\ (flow.active => f.msg = flow.first)
<1> USE ConstantsAssumption
<1>1. flow \in FlowType /\ FlowOK /\ stats \in StatsType
  BY DEF IInv, TypeOK
<1>2. /\ f.msg \in Msg /\ f.off \in Nat /\ f.len \in Nat /\ Total[f.msg] \in Nat
      /\ f.off + f.len <= Total[f.msg] /\ f.type = "fragment"
  BY DEF Fragments, Fits
<1>3. /\ Reassembled.n = stats.completed
      /\ Reassembled.at = IF flow.active THEN <<flow.first, flow.filled>> ELSE <<>>
  BY DEF Reassembled
<1>4. CASE ~Deliverable(f.msg)
  <2>1. ~flow.active /\ ~Starts(f) /\ next = Reassembled
    BY <1>2, <1>3, <1>4, InAMessage DEF Leads
  <2>2. ~Whole(f)
    BY <1>2, <2>1 DEF Starts, Whole
  <2>3. UNCHANGED flow /\ stats' = Dropped("nonzero_first")
    BY <2>1, <2>2 DEF HandleFragment, taskVars
  <2>4. stats'.completed = stats.completed
    BY <1>1, <2>3, CompletedCount DEF Dropped, DropReason
  <2> QED BY <2>1, <2>3, <2>4 DEF Reassembled
<1>5. CASE Deliverable(f.msg)
  <2>1. /\ Reassembled.at = Before(f) /\ next.at = After(f)
        /\ next.n = IF Final(f) THEN stats.completed + 1 ELSE stats.completed
    BY <1>2, <1>3, <1>5 DEF Leads
  <2>2. flow.active => f.msg = flow.first /\ f.off = flow.filled /\ f.off # 0
    <3> SUFFICES ASSUME flow.active
                 PROVE  f.msg = flow.first /\ f.off = flow.filled /\ f.off # 0
      OBVIOUS
    <3>1. Before(f) = <<flow.first, flow.filled>>
      BY <1>3, <2>1
    <3>2. f.off # 0
      BY <3>1, InAMessage DEF Before
    <3>3. <<f.msg, f.off>> = <<flow.first, flow.filled>>
      BY <3>1, <3>2 DEF Before
    <3> QED BY <3>2, <3>3, InAMessage
  <2>3. ~flow.active => f.off = 0
    <3> SUFFICES ASSUME ~flow.active, f.off # 0 PROVE FALSE
      OBVIOUS
    <3>1. Before(f) = <<>>
      BY <1>3, <2>1
    <3>2. Before(f) = <<f.msg, f.off>>
      BY DEF Before
    <3> QED BY <3>1, <3>2, InAMessage
  <2>4. CASE Whole(f)
    <3>1. f.off = 0 /\ Final(f)
      BY <1>2, <2>4 DEF Whole, Final
    <3>2. UNCHANGED flow /\ stats' = Completed
      BY <2>4, <3>1 DEF HandleFragment, Starts
    <3>3. stats'.completed = stats.completed + 1
      BY <1>1, <3>2, CompletedCount DEF Completed, Accepted
    <3>4. ~flow'.active
      BY <2>2, <3>1, <3>2
    <3>5. next = [at |-> <<>>, n |-> stats.completed + 1]
      BY <2>1, <3>1, PlaceIs DEF After
    <3> QED BY <2>2, <3>3, <3>4, <3>5 DEF Reassembled
  <2>5. CASE ~Whole(f) /\ Starts(f)
    <3>1. Begin(f) /\ f.off = 0 /\ ~Final(f)
      BY <1>2, <2>5 DEF HandleFragment, Starts, Whole, Final
    <3>2. flow'.active = TRUE /\ flow'.first = f.msg /\ flow'.filled = f.len
      BY <3>1 DEF Begin
    <3>3. stats'.completed = stats.completed
      BY <1>1, <3>1, CompletedCount DEF Begin, Accepted
    <3>4. next = [at |-> <<f.msg, f.len>>, n |-> stats.completed]
      <4>1. f.off + f.len = f.len
        BY <1>2, <3>1
      <4>2. next.at = <<f.msg, f.len>> /\ next.n = stats.completed
        BY <2>1, <3>1, <4>1 DEF After
      <4> QED BY <4>2, PlaceIs
    <3> QED BY <2>2, <3>1, <3>2, <3>3, <3>4 DEF Reassembled
  <2>6. CASE ~Whole(f) /\ ~Starts(f)
    <3>1. /\ flow.active /\ f.msg = flow.first /\ f.off = flow.filled
      BY <2>2, <2>3, <2>6 DEF Starts
    <3>2. flow # NoFlow /\ flow \in ActiveFlows
      BY <1>1, <3>1, ActiveFlow DEF FlowType, ActiveFlows
    <3>3. /\ flow.msg_id = MsgId[f.msg] /\ flow.total = Total[f.msg] /\ flow.filled \in Nat
      BY <1>1, <3>1, <3>2 DEF FlowOK, ActiveFlows
    <3>4. Continue(f)
      BY <2>6, <3>1 DEF HandleFragment
    <3>5. CASE ~Completes(f)
      <4>1. flow' = [flow EXCEPT !.filled = flow.filled + f.len] /\ stats' = Accepted
        BY <1>2, <3>1, <3>3, <3>4, <3>5 DEF Continue, SameFlow
      <4>2. /\ flow' \in ActiveFlows /\ flow'.filled = f.off + f.len /\ flow'.first = f.msg
        BY <1>2, <3>1, <3>2, <3>3, <4>1, AdvanceOK
      <4>3. flow'.active
        BY <4>2 DEF ActiveFlows
      <4>4. stats'.completed = stats.completed
        BY <1>1, <4>1, CompletedCount DEF Accepted
      <4>5. ~Final(f)
        BY <1>2, <3>1, <3>3, <3>5 DEF Completes, Final
      <4>6. next = [at |-> <<f.msg, f.off + f.len>>, n |-> stats.completed]
        BY <2>1, <4>5, PlaceIs DEF After
      <4> QED BY <3>1, <4>2, <4>3, <4>4, <4>6 DEF Reassembled
    <3>6. CASE Completes(f)
      <4>1. flow' = NoFlow /\ stats' = Completed
        BY <1>2, <3>1, <3>3, <3>4, <3>6 DEF Continue, SameFlow, Reset
      <4>2. ~flow'.active
        BY <4>1 DEF NoFlow
      <4>3. stats'.completed = stats.completed + 1
        BY <1>1, <4>1, CompletedCount DEF Completed, Accepted
      <4>4. Final(f)
        BY <1>2, <3>1, <3>3, <3>6 DEF Completes, Final
      <4>5. next = [at |-> <<>>, n |-> stats.completed + 1]
        BY <2>1, <4>4, PlaceIs DEF After
      <4> QED BY <3>1, <4>2, <4>3, <4>5 DEF Reassembled
    <3> QED BY <3>5, <3>6
  <2> QED BY <2>4, <2>5, <2>6
<1> QED BY <1>4, <1>5

\* Where the client is, is a place, and so is where it gets.
LEMMA ReceivedIsPlace == (IInv => Received \in Place) /\ (IInv' => Received' \in Place)
<1> DEFINE Typed(str, k) == str \in {Nobody} \cup [msg : Msg, off : Nat] /\ k \in Nat
           Is(str, k) == [at |-> IF str # Nobody /\ Deliverable(str.msg)
                                 THEN <<str.msg, str.off>> ELSE <<>>,
                          n |-> k]
<1>1. ASSUME NEW str, NEW k, Typed(str, k) PROVE Is(str, k) \in Place
  <2>1. str # Nobody => <<str.msg, str.off>> \in Msg \X Nat
    BY <1>1
  <2> QED BY <1>1, <2>1 DEF Place
<1>2. (IInv => Typed(stream, sent)) /\ (IInv' => Typed(stream', sent'))
  BY DEF IInv, TypeOK
<1>3. Received = Is(stream, sent) /\ Received' = Is(stream', sent')
  BY DEF Received, Deliverable
<1> HIDE DEF Typed, Is
<1> QED BY <1>1, <1>2, <1>3

\* The dataplane task goes along the path, and copies into a flow only its own message.
LEMMA TaskKeepsPath ==
    ASSUME LInv, TaskStep
    PROVE  LInv'
<1>1. IInv /\ IInv' /\ queue \in Seq(QueueItem) /\ stats \in StatsType
  BY TaskStepOK DEF LInv, IInv, TypeOK
<1>2. /\ queue # <<>> /\ queue' = Tail(queue) /\ Head(queue) \in QueueItem
      /\ Head(queue).type = "fragment" => Fits(Head(queue))
  BY <1>1, DequeueOK DEF IInv, TypeOK, TaskStep
<1>3. UNCHANGED <<stream, sent, lost>>
  BY DEF TaskStep
<1>4. StreamBegun' /\ Received' = Received
  BY <1>3 DEF LInv, StreamBegun, Received
<1> SUFFICES ASSUME ~lost PROVE PrefixOK' /\ WholeMessage' /\ Contiguous'
  BY <1>1, <1>3, <1>4 DEF LInv
<1>5. PICK places : Path(places, queue, Reassembled, Received)
  BY DEF LInv, Contiguous
<1>6. PICK next \in Place : /\ Leads(Reassembled, Head(queue), next)
                            /\ \E rest : Path(rest, Tail(queue), next, Received)
  BY <1>1, <1>2, <1>5, PathTail
<1>7. Reassembled' = next => Contiguous'
  BY <1>2, <1>4, <1>6 DEF Contiguous
<1>8. CASE HandleFragment(Head(queue))
  <2>1. Head(queue) \in Fragments /\ Fits(Head(queue))
    BY <1>2, <1>8, FragmentItem DEF HandleFragment
  <2>2. Reassembled' = next /\ (flow.active => Head(queue).msg = flow.first)
    BY <1>1, <1>6, <1>8, <2>1, FragmentLeads
  <2>3. PrefixOK' /\ WholeMessage'
    BY <1>8, <2>1, <2>2, FragmentKeepsWhole DEF LInv, WInv
  <2> QED BY <1>7, <2>2, <2>3
<1>9. CASE HandleConnected(Head(queue)) \/ IgnoreDisconnected(Head(queue))
  <2>1. UNCHANGED <<taskVars, stats>> /\ Head(queue).type # "fragment"
    BY <1>9 DEF HandleConnected, IgnoreDisconnected
  <2>2. UNCHANGED <<flow, buf, handed, stats>>
    BY <2>1 DEF taskVars, bufVars
  <2>3. PrefixOK' /\ WholeMessage'
    BY <2>2 DEF LInv, PrefixOK, WholeMessage
  <2>4. Reassembled' = Reassembled
    BY <2>2 DEF Reassembled
  <2>5. next = Reassembled
    BY <1>6, <2>1 DEF Leads
  <2> QED BY <1>7, <2>3, <2>4, <2>5
<1> QED BY <1>8, <1>9 DEF TaskStep

\* The steps that leave the reassembly alone and extend the path.
LEMMA QueueKeepsPath ==
    ASSUME LInv, IInv', UNCHANGED taskVars, stats'.completed = stats.completed,
           StreamBegun', lost => lost',
           ~lost' => \/ UNCHANGED queue /\ Received' = Received
                     \/ \E item \in QueueItem : queue' = Append(queue, item)
                                                /\ Leads(Received, item, Received')
    PROVE  LInv'
<1>1. UNCHANGED <<flow, buf, handed>> /\ stats'.completed = stats.completed
  BY DEF taskVars, bufVars
<1> SUFFICES ASSUME ~lost' PROVE PrefixOK' /\ WholeMessage' /\ Contiguous'
  BY DEF LInv
<1>2. PrefixOK' /\ WholeMessage'
  BY <1>1 DEF LInv, PrefixOK, WholeMessage
<1>3. Reassembled' = Reassembled
  BY <1>1 DEF Reassembled
<1>4. PICK places : Path(places, queue, Reassembled, Received)
  BY DEF LInv, Contiguous
<1>5. CASE UNCHANGED queue /\ Received' = Received
  BY <1>2, <1>3, <1>4, <1>5 DEF Contiguous
<1>6. CASE \E item \in QueueItem : queue' = Append(queue, item) /\ Leads(Received, item, Received')
  <2>1. PICK item \in QueueItem : queue' = Append(queue, item) /\ Leads(Received, item, Received')
    BY <1>6
  <2>2. queue \in Seq(QueueItem) /\ Received' \in Place
    <3>1. Received' \in Place
      BY ReceivedIsPlace
    <3> QED BY <3>1 DEF LInv, IInv, TypeOK
  <2>3. \E more : Path(more, Append(queue, item), Reassembled, Received')
    BY <1>4, <2>1, <2>2, PathAppend
  <2> QED BY <1>2, <1>3, <2>1, <2>3 DEF Contiguous
<1> QED BY <1>5, <1>6

\* The events of the connection.
LEMMA LinkKeepsPath ==
    ASSUME LInv, LinkUp \/ LinkDown \/ HandleLinkEvent \/ SetStarted \/ InjectConnected
    PROVE  LInv'
<1>1. IInv' /\ UNCHANGED <<taskVars, stats, sent>> /\ (lost => lost')
  <2>1. IInv'
    BY LinkEventsOK DEF LInv
  <2>2. UNCHANGED <<taskVars, stats, sent>>
    BY DEF LinkUp, LinkDown, HandleLinkEvent, SetStarted, InjectConnected
  <2>3. lost => lost'
    BY DEF LinkUp, LinkDown, HandleLinkEvent, SetStarted, InjectConnected
  <2> QED BY <2>1, <2>2, <2>3
<1>2. \/ UNCHANGED queue
      \/ \E t \in {"connected", "disconnected"} : queue' = Append(queue, LinkMsg(t))
  <2>1. evt # "none" => evt \in {"connected", "disconnected"}
    BY DEF LInv, IInv, TypeOK
  <2> QED
    BY <2>1 DEF LinkUp, LinkDown, HandleLinkEvent, SetStarted, InjectConnected, Enqueue, QueueFull
<1>3. \/ UNCHANGED stream
      \/ stream' = Nobody /\ (~lost' => stream = Nobody \/ ~Deliverable(stream.msg))
  BY DEF LinkUp, LinkDown, HandleLinkEvent, SetStarted, InjectConnected
<1>4. StreamBegun' /\ (~lost' => Received' = Received)
  BY <1>1, <1>3 DEF LInv, StreamBegun, Received
<1>5. \A item : item.type # "fragment" => Leads(Received, item, Received)
  BY DEF Leads
<1>6. ~lost' => \/ UNCHANGED queue /\ Received' = Received
                \/ \E item \in QueueItem : queue' = Append(queue, item)
                                           /\ Leads(Received, item, Received')
  BY <1>2, <1>4, <1>5, LinkItemOK
<1> QED BY <1>1, <1>4, <1>6, QueueKeepsPath

\* The next fragment leads on from where the client is, if it is queued.
LEMMA ReceiveKeepsPath ==
    ASSUME LInv, ReceiveData
    PROVE  LInv'
<1> USE ConstantsAssumption
<1> DEFINE off == IF stream = Nobody THEN 0 ELSE stream.off
           len(m) == Least(Chunk, Total[m] - off)
<1>1. PICK m \in Msg :
        /\ stream # Nobody => m = stream.msg
        /\ HandleData(Fragment(m, off, len(m)))
        /\ stream' = IF off + len(m) = Total[m] THEN Nobody
                     ELSE [msg |-> m, off |-> off + len(m)]
        /\ sent' = IF off + len(m) = Total[m] /\ Deliverable(m) THEN sent + 1 ELSE sent
  BY DEF ReceiveData
<1> DEFINE f == Fragment(m, off, len(m))
<1>2. /\ off \in Nat /\ off <= Total[m] /\ Total[m] \in Nat
      /\ stream # Nobody => off > 0
  BY <1>1 DEF LInv, StreamBegun, IInv, TypeOK, StreamOK
<1>3. /\ len(m) \in Nat /\ off + len(m) <= Total[m]
      /\ off + len(m) # Total[m] => off + len(m) > 0
  BY <1>2 DEF Least
<1> HIDE DEF len
<1>4. /\ f.msg = m /\ f.off = off /\ f.len = len(m) /\ f.type = "fragment"
      /\ f \in QueueItem
  BY <1>2, <1>3 DEF Fragment, QueueItem, Fragments
<1>5. /\ IInv' /\ UNCHANGED taskVars /\ (lost => lost')
      /\ stats'.completed = stats.completed
  <2>1. IInv'
    BY ReceiveDataOK DEF LInv
  <2>2. UNCHANGED taskVars
    BY DEF ReceiveData
  <2>3. lost => lost'
    BY <1>1 DEF HandleData
  <2>4. stats'.completed = stats.completed
    <3>1. stats \in StatsType
      BY DEF LInv, IInv, TypeOK
    <3> QED BY <1>1, <3>1, CompletedCount DEF HandleData, Dropped, DropReason
  <2> QED BY <2>1, <2>2, <2>3, <2>4
<1>6. [msg |-> m, off |-> off + len(m)] # Nobody
  <2>1. "off" \in DOMAIN [msg |-> m, off |-> off + len(m)] /\ "off" \notin DOMAIN Nobody
    BY DEF Nobody
  <2> QED BY <2>1
<1>7. StreamBegun'
  BY <1>1, <1>3 DEF StreamBegun
<1>8. /\ Received.at = IF Deliverable(m) THEN Before(f) ELSE <<>>
      /\ Received.n = sent
  <2>1. CASE stream = Nobody
    BY <1>4, <2>1 DEF Received, Before
  <2>2. CASE stream # Nobody
    BY <1>1, <1>2, <1>4, <2>2, SMTT(20) DEF Received, Before
  <2> QED BY <2>1, <2>2
<1>9. /\ Received'.at = IF Deliverable(m) THEN After(f) ELSE <<>>
      /\ Received'.n = IF Deliverable(m) /\ Final(f) THEN sent + 1 ELSE sent
  <2>1. CASE Final(f)
    <3>1. stream' = Nobody
      BY <1>1, <1>4, <2>1 DEF Final
    <3> QED BY <1>1, <1>4, <2>1, <3>1 DEF Received, After, Final
  <2>2. CASE ~Final(f)
    <3>1. stream' # Nobody /\ stream'.msg = m /\ stream'.off = off + len(m) /\ sent' = sent
      BY <1>1, <1>4, <1>6, <2>2 DEF Final
    <3> QED BY <1>4, <2>2, <3>1 DEF Received, After, Deliverable
  <2> QED BY <2>1, <2>2
<1>10. CASE Deliverable(m)
  <2>1. ~Refused(f)
    BY <1>2, <1>3, <1>4, <1>10 DEF Refused, Fits, Deliverable
  <2>2. ~lost' => queue' = Append(queue, f) /\ UNCHANGED stats
    BY <1>1, <1>4, <1>10, <2>1 DEF HandleData, Enqueue
  <2>3. Leads(Received, f, Received')
    BY <1>4, <1>8, <1>9, <1>10 DEF Leads
  <2> QED BY <1>4, <1>5, <1>7, <2>2, <2>3, QueueKeepsPath
<1>11. CASE ~Deliverable(m)
  <2>1. Received' = Received
    BY <1>8, <1>9, <1>11 DEF Received
  <2>2. ~Refused(f) => Leads(Received, f, Received')
    <3> SUFFICES ASSUME ~Refused(f) PROVE Leads(Received, f, Received')
      OBVIOUS
    <3>1. ~Starts(f)
      BY <1>4, <1>11 DEF Refused, Fits, Deliverable
    <3> QED BY <1>4, <1>8, <1>11, <2>1, <3>1 DEF Leads
  <2>3. UNCHANGED queue \/ (queue' = Append(queue, f) /\ Leads(Received, f, Received'))
    BY <1>1, <2>2 DEF HandleData, Enqueue, QueueFull
  <2> QED BY <1>4, <1>5, <1>7, <2>1, <2>3, QueueKeepsPath
<1> QED BY <1>10, <1>11

LEMMA PathInit == Init => LInv
<1> SUFFICES ASSUME Init PROVE LInv
  OBVIOUS
<1> DEFINE start == [at |-> <<>>, n |-> 0]
           places == [i \in 0..0 |-> start]
<1>1. IInv /\ StreamBegun /\ PrefixOK /\ WholeMessage
  BY InitOK DEF Init, StreamBegun, PrefixOK, WholeMessage
<1>2. Reassembled = start /\ Received = start
  BY DEF Init, Reassembled, Received, NoFlow
<1>3. queue = <<>> /\ Len(queue) = 0
  BY DEF Init
<1>4. start \in Place
  BY DEF Place
<1>5. places \in [0..Len(queue) -> Place] /\ places[0] = start /\ places[Len(queue)] = start
  BY <1>3, <1>4
<1> HIDE DEF places, start
<1>6. Path(places, queue, start, start)
  BY <1>3, <1>5 DEF Path
<1> QED BY <1>1, <1>2, <1>6 DEF LInv, Contiguous

LEMMA PathStep == LInv /\ [Next]_vars => LInv'
<1> SUFFICES ASSUME LInv, [Next]_vars PROVE LInv'
  OBVIOUS
<1>1. CASE UNCHANGED vars
  <2>1. /\ UNCHANGED <<taskVars, queue, stream, lost>> /\ stats' = stats /\ sent' = sent
    BY <1>1 DEF vars, taskVars, bufVars
  <2>2. IInv' /\ StreamBegun' /\ Received' = Received
    BY <1>1, <2>1, StepOK DEF LInv, StreamBegun, Received
  <2> QED BY <2>1, <2>2, QueueKeepsPath
<1> QED BY <1>1, TaskKeepsPath, LinkKeepsPath, ReceiveKeepsPath DEF Next

\* Every reachable state is on such a path, unless something was lost.
THEOREM PathInvariance == Spec => []LInv
<1> QED BY PathInit, PathStep, PTL DEF Spec

\* As long as no fragment of a deliverable message was dropped or cut off, every
\* payload is one message, whatever identifiers the messages share.
THEOREM SplicedOnlyAfterLossHolds == Spec => []SplicedOnlyAfterLoss
<1>1. LInv => SplicedOnlyAfterLoss
  BY DEF LInv, SplicedOnlyAfterLoss
<1> QED BY <1>1, PathInvariance, PTL

\* With nothing lost, every deliverable message received to its end has been handed
\* over, once, when the queue is empty.
THEOREM NothingSwallowedHolds == Spec => []NothingSwallowed
<1>1. LInv => NothingSwallowed
  <2> SUFFICES ASSUME LInv, ~lost, queue = <<>> PROVE stats.completed = sent
    BY DEF NothingSwallowed
  <2>1. PICK places : Path(places, queue, Reassembled, Received)
    BY DEF LInv, Contiguous
  <2>2. Reassembled = Received
    BY <2>1 DEF Path
  <2> QED BY <2>2 DEF Reassembled, Received
<1> QED BY <1>1, PathInvariance, PTL

-----------------------------------------------------------------------------
(* The dataplane implements PayloadChannel: every step of MqttReassembly is  *)
(* a step of the channel, or none, under the mapping of its instance         *)
(* Channel.                                                                  *)

Ends(q) == [i \in DOMAIN q |-> EndOf(q[i])]

NoMsgIsNothing == "none" \notin Msg

\* An item of the queue stands for a message, or for none.
LEMMA EndOfType == ASSUME NEW item \in QueueItem PROVE EndOf(item) \in Msg \cup {"none"}
<1>1. CASE item.type = "fragment"
  <2>1. item \in Fragments
    BY <1>1, FragmentItem
  <2> QED BY <2>1 DEF EndOf, Fragments
<1> QED BY <1>1 DEF EndOf

\* The queue of items stands for a sequence of messages.
LEMMA EndsType ==
    ASSUME NEW q \in Seq(QueueItem)
    PROVE  /\ Ends(q) \in Seq(Msg \cup {"none"}) /\ Len(Ends(q)) = Len(q)
           /\ \A i \in 1..Len(q) : Ends(q)[i] = EndOf(q[i])
<1>1. DOMAIN q = 1..Len(q) /\ Len(q) \in Nat
  OBVIOUS
<1>2. \A i \in 1..Len(q) : EndOf(q[i]) \in Msg \cup {"none"}
  BY EndOfType
<1>3. Ends(q) = [i \in 1..Len(q) |-> EndOf(q[i])]
  BY <1>1 DEF Ends
<1> QED BY <1>1, <1>2, <1>3

\* The mapping of the queue follows its two operations.
LEMMA EndsAppend ==
    ASSUME NEW q \in Seq(QueueItem), NEW item \in QueueItem
    PROVE  Ends(Append(q, item)) = Append(Ends(q), EndOf(item))
<1> DEFINE s == Ends(Append(q, item))  t == Append(Ends(q), EndOf(item))
<1>1. Append(q, item) \in Seq(QueueItem) /\ Len(Append(q, item)) = Len(q) + 1 /\ Len(q) \in Nat
  OBVIOUS
<1>2. s \in Seq(Msg \cup {"none"}) /\ Len(s) = Len(q) + 1
      /\ \A i \in 1..(Len(q) + 1) : s[i] = EndOf(Append(q, item)[i])
  BY <1>1, EndsType
<1>3. /\ Ends(q) \in Seq(Msg \cup {"none"}) /\ Len(Ends(q)) = Len(q)
      /\ \A i \in 1..Len(q) : Ends(q)[i] = EndOf(q[i])
  BY EndsType
<1>4. EndOf(item) \in Msg \cup {"none"}
  BY EndOfType
<1>5. t \in Seq(Msg \cup {"none"}) /\ Len(t) = Len(q) + 1
  BY <1>3, <1>4
<1>6. \A i \in 1..(Len(q) + 1) : s[i] = t[i]
  BY <1>1, <1>2, <1>3, <1>4
<1>7. s = t
  <2> HIDE DEF s, t
  <2> QED BY <1>2, <1>5, <1>6, SeqEqual
<1> QED BY <1>7

\* Taking an item from the queue takes at most the message it stands for.
LEMMA EndsTail ==
    ASSUME NEW q \in Seq(QueueItem), q # <<>>
    PROVE  /\ Ends(q) # <<>> /\ Head(Ends(q)) = EndOf(Head(q))
           /\ Ends(Tail(q)) = Tail(Ends(q))
<1> DEFINE s == Ends(Tail(q))  t == Tail(Ends(q))
<1>1. Tail(q) \in Seq(QueueItem) /\ Len(Tail(q)) = Len(q) - 1 /\ Len(q) \in Nat \ {0}
  OBVIOUS
<1>2. s \in Seq(Msg \cup {"none"}) /\ Len(s) = Len(q) - 1
      /\ \A i \in 1..(Len(q) - 1) : s[i] = EndOf(Tail(q)[i])
  BY <1>1, EndsType
<1>3. /\ Ends(q) \in Seq(Msg \cup {"none"}) /\ Len(Ends(q)) = Len(q)
      /\ \A i \in 1..Len(q) : Ends(q)[i] = EndOf(q[i])
  BY EndsType
<1>4. t \in Seq(Msg \cup {"none"}) /\ Len(t) = Len(q) - 1
  BY <1>1, <1>3
<1>5. \A i \in 1..(Len(q) - 1) : s[i] = t[i]
  <2> SUFFICES ASSUME NEW i \in 1..(Len(q) - 1) PROVE s[i] = t[i]
    OBVIOUS
  <2>1. i + 1 \in 1..Len(q) /\ Tail(q)[i] = q[i + 1] /\ t[i] = Ends(q)[i + 1]
    BY <1>1, <1>3
  <2> QED BY <1>2, <1>3, <2>1
<1>6. s = t
  <2> HIDE DEF s, t
  <2> QED BY <1>2, <1>4, <1>5, SeqEqual
<1>7. Ends(q) # <<>> /\ Head(Ends(q)) = EndOf(Head(q))
  BY <1>1, <1>3
<1> QED BY <1>6, <1>7

-----------------------------------------------------------------------------
(* The steps.                                                                *)

\* The bytes that the current flow has written are those of messages.
Known == \A i \in written : buf[i] \in Msg

RInv == LInv /\ Known

\* A step of the task keeps the bytes written known.
LEMMA FragmentKnown ==
    ASSUME IInv, Known, NEW f \in Fragments, HandleFragment(f)
    PROVE  Known'
<1>1. /\ buf \in [0..Cap -> Msg \cup {Nul}] /\ written \subseteq 0..Cap /\ f.msg \in Msg
  BY DEF IInv, TypeOK, Fragments
<1>2. CASE UNCHANGED bufVars
  BY <1>2 DEF bufVars, Known
<1>3. CASE Begin(f)
  <2>1. PICK b \in {buf, [buf EXCEPT ![0] = Nul]} : buf' = Copied(f, b) /\ written' = Covered(f)
    BY <1>3 DEF Begin
  <2>2. b \in [0..Cap -> Msg \cup {Nul}]
    BY <1>1, <2>1
  <2> QED BY <1>1, <2>1, <2>2, CopiedOK DEF Known
<1>4. CASE buf' = Copied(f, buf) /\ written' = written \cup Covered(f)
  <2> SUFFICES ASSUME NEW i \in written' PROVE buf'[i] \in Msg
    BY DEF Known
  <2>1. i \in written \/ i \in Covered(f)
    BY <1>4
  <2>2. i \in 0..Cap
    BY <1>1, <2>1, CopiedOK
  <2> QED BY <1>1, <1>4, <2>1, <2>2, CopiedOK DEF Known
<1>5. CASE written' = {}
  BY <1>5 DEF Known
<1> QED
  BY <1>2, <1>3, <1>4, <1>5 DEF HandleFragment, Continue, Reset, taskVars, bufVars

\* A fragment either ends its message and gives a payload as long as it, which is
\* it until something was lost, or gives none.
LEMMA FragmentGives ==
    ASSUME IInv, Known, NEW f \in Fragments, Fits(f), HandleFragment(f),
           ~lost => WholeMessage' /\ (flow.active => f.msg = flow.first)
    PROVE  \/ /\ EndOf(f) = f.msg /\ stats'.completed = stats.completed + 1
              /\ \/ Given' = <<f.msg, Channel!Payload(f.msg)>>
                 \/ lost /\ \E n \in Msg : Channel!Splice(n, f.msg)
           \/ Given' = Given /\ stats'.completed = stats.completed
<1> USE ConstantsAssumption
<1>1. /\ flow \in FlowType /\ FlowOK /\ stats \in StatsType
      /\ buf \in [0..Cap -> Msg \cup {Nul}]
  BY DEF IInv, TypeOK
<1>2. /\ f.msg \in Msg /\ f.off \in Nat /\ f.len \in Nat /\ Total[f.msg] \in Nat
      /\ Total[f.msg] <= Cap /\ f.off + f.len <= Total[f.msg] /\ f.type = "fragment"
  BY DEF Fragments, Fits
<1>3. CASE UNCHANGED handed /\ \E r \in DropReason : stats' = Dropped(r)
  BY <1>1, <1>3, CompletedCount DEF Dropped, Given
<1>4. CASE Whole(f) /\ stats' = Completed
           /\ handed' = [msg |-> f.msg, fresh |-> Bytes(f.len),
                         bytes |-> [i \in Bytes(f.len) |-> f.msg]]
  <2>1. f.len = Total[f.msg] /\ f.off = 0
    BY <1>2, <1>4 DEF Whole
  <2>2. Given' = <<f.msg, Channel!Payload(f.msg)>>
    BY <1>4, <2>1 DEF Given, Nobody, Bytes, Channel!Payload, Channel!Places
  <2>3. stats'.completed = stats.completed + 1
    BY <1>1, <1>4, CompletedCount DEF Completed, Accepted
  <2> QED BY <1>2, <2>1, <2>2, <2>3 DEF EndOf
<1>5. CASE Begin(f)
  BY <1>1, <1>5, CompletedCount DEF Begin, Accepted, Given
<1>6. CASE stats' = Accepted /\ UNCHANGED handed
  BY <1>1, <1>6, CompletedCount DEF Accepted, Given
<1>7. CASE /\ flow.active /\ SameFlow(f) /\ Total[f.msg] = flow.total /\ f.off = flow.filled
           /\ Completes(f) /\ stats' = Completed
           /\ handed' = [msg |-> flow.first, fresh |-> written \cup Covered(f),
                         bytes |-> [i \in Bytes(flow.total) |-> Copied(f, buf)[i]]]
  <2> DEFINE bytes == [i \in Bytes(Total[f.msg]) |-> Copied(f, buf)[i]]
  <2>1. flow # NoFlow /\ flow \in ActiveFlows
    <3>1. flow.active
      BY <1>7
    <3> QED BY <1>1, <3>1, ActiveFlow DEF FlowType, ActiveFlows
  <2>2. /\ flow.first \in Msg /\ flow.filled \in Nat /\ flow.total \in Nat
        /\ flow.total = Total[flow.first] /\ Bytes(flow.filled) \subseteq written
    BY <1>1, <2>1 DEF FlowOK, ActiveFlows
  <2>3. f.off + f.len = Total[f.msg]
    BY <1>2, <1>7, <2>2 DEF Completes
  <2>4. Given' = <<flow.first, bytes>>
    BY <1>7 DEF Given, Nobody
  <2>5. stats'.completed = stats.completed + 1
    BY <1>1, <1>7, CompletedCount DEF Completed, Accepted
  <2>6. \A i \in Bytes(Total[f.msg]) : Copied(f, buf)[i] \in Msg
    <3> SUFFICES ASSUME NEW i \in Bytes(Total[f.msg]) PROVE Copied(f, buf)[i] \in Msg
      OBVIOUS
    <3>1. i \in 0..Cap
      BY <1>2 DEF Bytes
    <3>2. i \in written \/ i \in Covered(f)
      BY <1>2, <1>7, <2>2, <2>3, CoveredExtends
    <3> QED BY <1>1, <1>2, <3>1, <3>2, CopiedOK DEF Known
  <2>7. Channel!Splice(flow.first, f.msg)
    <3>1. bytes \in [Channel!Places(f.msg) -> Msg]
      BY <2>6 DEF Channel!Places, Bytes
    <3>2. Given' \in {flow.first} \X [Channel!Places(f.msg) -> Msg]
      BY <2>4, <3>1
    <3> QED BY <1>7, <2>2, <3>2 DEF Channel!Splice
  <2>8. ~lost => Given' = <<f.msg, Channel!Payload(f.msg)>>
    <3> SUFFICES ASSUME ~lost PROVE Given' = <<f.msg, Channel!Payload(f.msg)>>
      OBVIOUS
    <3>1. f.msg = flow.first
      BY <1>7
    <3>2. handed' # Nobody /\ handed'.msg = f.msg /\ handed'.bytes = bytes
      BY <1>7, <3>1 DEF Nobody
    <3>3. \A i \in Bytes(Total[f.msg]) : bytes[i] = f.msg
      <4>1. WholeMessage'
        OBVIOUS
      <4> HIDE DEF bytes
      <4> QED BY <3>2, <4>1 DEF WholeMessage
    <3>4. bytes = Channel!Payload(f.msg)
      BY <3>3 DEF Channel!Payload, Channel!Places, Bytes
    <3> QED BY <2>4, <3>1, <3>4
  <2> QED BY <1>2, <2>2, <2>3, <2>5, <2>7, <2>8 DEF EndOf
<1> QED
  BY <1>3, <1>4, <1>5, <1>6, <1>7 DEF HandleFragment, Continue, DropReason, taskVars

\* Until something is lost the task takes only the fragments of the flow's message.
LEMMA OwnFragment ==
    ASSUME LInv, ~lost, TaskStep, HandleFragment(Head(queue))
    PROVE  flow.active => Head(queue).msg = flow.first
<1>1. IInv /\ queue \in Seq(QueueItem)
  BY DEF LInv, IInv, TypeOK
<1>2. /\ queue # <<>> /\ Head(queue) \in QueueItem
      /\ Head(queue).type = "fragment" => Fits(Head(queue))
  BY <1>1, DequeueOK DEF IInv, TypeOK, TaskStep
<1>3. PICK places : Path(places, queue, Reassembled, Received)
  BY DEF LInv, Contiguous
<1>4. PICK next \in Place : Leads(Reassembled, Head(queue), next)
  BY <1>1, <1>2, <1>3, PathTail
<1>5. Head(queue) \in Fragments /\ Fits(Head(queue))
  BY <1>2, FragmentItem DEF HandleFragment
<1> QED BY <1>1, <1>4, <1>5, FragmentLeads

\* Every step keeps the strengthening.
LEMMA RefinementStep == RInv /\ [Next]_vars => RInv'
<1> SUFFICES ASSUME RInv, [Next]_vars PROVE Known'
  BY PathStep DEF RInv
<1>1. CASE UNCHANGED bufVars
  BY <1>1 DEF RInv, Known, bufVars
<1>2. CASE TaskStep /\ HandleFragment(Head(queue))
  <2>1. Head(queue) \in Fragments
    BY <1>2, DequeueOK, FragmentItem DEF RInv, LInv, IInv, TypeOK, TaskStep, HandleFragment
  <2> QED BY <1>2, <2>1, FragmentKnown DEF RInv, LInv
<1> QED
  BY <1>1, <1>2 DEF Next, LinkUp, LinkDown, HandleLinkEvent, ReceiveData, SetStarted,
     InjectConnected, TaskStep, HandleConnected, IgnoreDisconnected, taskVars, vars, bufVars

\* Every step of inbound delivery is a step of the channel, or leaves it alone.
LEMMA StepIsChannelStep ==
    ASSUME NoMsgIsNothing, RInv, [Next]_vars
    PROVE  [Channel!Next]_(Channel!channel)
<1>1. queue \in Seq(QueueItem) /\ stats \in StatsType /\ IInv /\ Known /\ lost \in BOOLEAN
  BY DEF RInv, LInv, IInv, TypeOK
<1>2. CASE UNCHANGED <<queue, handed, lost>> /\ stats'.completed = stats.completed
  BY <1>2 DEF Channel!channel, EndOf, Given
<1>3. CASE UNCHANGED <<queue, handed>> /\ stats'.completed = stats.completed /\ lost' = TRUE
  BY <1>3 DEF Channel!Next, Channel!Lose, EndOf, Given
<1>4. CASE UNCHANGED <<handed, lost>> /\ stats'.completed = stats.completed
           /\ \E item \in QueueItem : queue' = Append(queue, item)
  <2>1. PICK item \in QueueItem : queue' = Append(queue, item)
    BY <1>4
  <2>2. Ends(queue') = Append(Ends(queue), EndOf(item))
    BY <1>1, <2>1, EndsAppend
  <2>3. EndOf(item) \in Msg \cup {"none"}
    BY EndOfType
  <2> QED BY <1>4, <2>2, <2>3 DEF Channel!Next, Channel!Send, Given, Ends, EndOf
<1>5. CASE TaskStep
  <2>1. /\ queue # <<>> /\ queue' = Tail(queue) /\ Head(queue) \in QueueItem
        /\ Head(queue).type = "fragment" => Fits(Head(queue))
        /\ UNCHANGED lost
    BY <1>1, <1>5, DequeueOK DEF IInv, TypeOK, TaskStep
  <2>2. /\ Ends(queue) # <<>> /\ Head(Ends(queue)) = EndOf(Head(queue))
        /\ Ends(queue') = Tail(Ends(queue))
    BY <1>1, <2>1, EndsTail
  <2>3. CASE UNCHANGED handed /\ UNCHANGED stats
    BY <2>1, <2>2, <2>3 DEF Channel!Next, Channel!Skip, Given, Ends, EndOf
  <2>4. CASE HandleFragment(Head(queue))
    <3>1. Head(queue) \in Fragments /\ Fits(Head(queue))
      BY <2>1, <2>4, FragmentItem DEF HandleFragment
    <3>2. ~lost => WholeMessage' /\ (flow.active => Head(queue).msg = flow.first)
      BY <1>5, <2>1, <2>4, OwnFragment, PathStep DEF RInv, LInv
    <3>3. \/ /\ EndOf(Head(queue)) = Head(queue).msg /\ stats'.completed = stats.completed + 1
             /\ \/ Given' = <<Head(queue).msg, Channel!Payload(Head(queue).msg)>>
                \/ lost /\ \E n \in Msg : Channel!Splice(n, Head(queue).msg)
          \/ Given' = Given /\ stats'.completed = stats.completed
      BY <1>1, <2>4, <3>1, <3>2, FragmentGives
    <3>4. Head(queue).msg \in Msg /\ Head(queue).msg # "none"
      BY <3>1 DEF Fragments, NoMsgIsNothing
    <3> QED BY <2>1, <2>2, <3>3, <3>4 DEF Channel!Next, Channel!Deliver, Channel!Skip, Ends, EndOf
  <2> QED
    BY <1>5, <2>3, <2>4 DEF TaskStep, HandleConnected, IgnoreDisconnected, taskVars
<1>6. CASE UNCHANGED vars
  BY <1>2, <1>6 DEF vars
<1>7. CASE LinkUp \/ LinkDown \/ SetStarted
  BY <1>1, <1>2, <1>3, <1>7 DEF LinkUp, LinkDown, SetStarted, taskVars
<1>8. CASE HandleLinkEvent \/ InjectConnected
  <2>1. UNCHANGED <<handed, stats, lost>>
    BY <1>8 DEF HandleLinkEvent, InjectConnected, taskVars
  <2>2. UNCHANGED queue \/ \E t \in {"connected", "disconnected"} : queue' = Append(queue, LinkMsg(t))
    BY <1>1, <1>8 DEF HandleLinkEvent, InjectConnected, Enqueue, QueueFull, IInv, TypeOK
  <2> QED BY <1>2, <1>4, <2>1, <2>2, LinkItemOK
<1>9. CASE ReceiveData
  <2>1. PICK f : HandleData(f) /\ f \in Fragments
    BY <1>1, <1>9, ConstantsAssumption
    DEF ReceiveData, Fragment, Fragments, IInv, TypeOK, StreamOK, Least, Nobody
  <2>2. UNCHANGED handed
    BY <1>9 DEF ReceiveData, taskVars
  <2>3. stats'.completed = stats.completed
    BY <1>1, <2>1, <1>9, CompletedCount DEF HandleData, Dropped, DropReason
  <2>4. \/ UNCHANGED queue /\ (UNCHANGED lost \/ lost' = TRUE)
        \/ queue' = Append(queue, f) /\ UNCHANGED lost
    BY <1>1, <2>1 DEF HandleData, Enqueue, QueueFull
  <2>5. CASE UNCHANGED queue /\ UNCHANGED lost
    BY <1>2, <2>2, <2>3, <2>5
  <2>6. CASE UNCHANGED queue /\ lost' = TRUE
    BY <1>3, <2>2, <2>3, <2>6
  <2>7. CASE queue' = Append(queue, f) /\ UNCHANGED lost
    <3>1. \E item \in QueueItem : queue' = Append(queue, item)
      BY <2>1, <2>7 DEF QueueItem
    <3> QED BY <1>4, <2>2, <2>3, <2>7, <3>1
  <2> QED BY <2>4, <2>5, <2>6, <2>7
<1> QED BY <1>5, <1>6, <1>7, <1>8, <1>9 DEF Next

\* Whatever identifiers messages share, the dataplane implements the channel: payloads
\* in order, each at most once, whole until a fragment is lost, and never longer,
\* shorter or of other bytes than messages have after that.
THEOREM ImplementsChannelHolds ==
    ASSUME NoMsgIsNothing PROVE Spec => ImplementsChannel
<1>1. Init => RInv
  BY PathInit DEF Init, RInv, Known
<1>2. RInv /\ [Next]_vars => RInv'
  BY RefinementStep
<1>3. Init => Channel!Init
  BY DEF Init, Channel!Init, Given
<1>4. RInv /\ [Next]_vars => [Channel!Next]_(Channel!channel)
  BY StepIsChannelStep
<1> QED BY <1>1, <1>2, <1>3, <1>4, PTL DEF Spec, ImplementsChannel, Channel!Spec

=============================================================================
