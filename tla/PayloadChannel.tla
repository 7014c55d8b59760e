---------------------------- MODULE PayloadChannel ----------------------------
(***************************************************************************)
(* What the dataplane promises whoever handles its payloads, however the   *)
(* messages are cut up and although they all carry the same identifier:    *)
(* payloads come in the order in which the messages ended, each at most    *)
(* once, and any may be missing.  Until a part of a message is lost, each  *)
(* is its message, whole.  After a loss one may be put together from the   *)
(* parts of several messages, and be handled as another message of the     *)
(* same length.  An end that belongs to no message takes up a place, too.  *)
(***************************************************************************)
EXTENDS Integers, Sequences

CONSTANTS
    Msg,     \* messages
    Total,   \* their lengths
    Nothing  \* no message

VARIABLES
    inbox,     \* messages that ended and were not handled yet
    given,     \* the last payload and the message it was handled as
    delivered, \* how many there were
    lossy      \* a part of a message was lost

channel == <<inbox, given, delivered, lossy>>

Places(m) == 0..(Total[m] - 1)
Payload(m) == [i \in Places(m) |-> m]

\* A payload handled as n that ends with message m, which is as long.
Splice(n, m) == Total[n] = Total[m] /\ given' \in {n} \X [Places(m) -> Msg]

Init == inbox = <<>> /\ given = <<Nothing>> /\ delivered = 0 /\ lossy = FALSE

\* A message ends.
Send ==
    /\ \E m \in Msg \cup {Nothing} : inbox' = Append(inbox, m)
    /\ UNCHANGED <<given, delivered, lossy>>

Lose == lossy' = TRUE /\ UNCHANGED <<inbox, given, delivered>>

Deliver ==
    /\ inbox # <<>> /\ Head(inbox) # Nothing
    /\ \/ given' = <<Head(inbox), Payload(Head(inbox))>>
       \/ lossy /\ \E n \in Msg : Splice(n, Head(inbox))
    /\ inbox' = Tail(inbox) /\ delivered' = delivered + 1
    /\ UNCHANGED lossy

\* The next message is incomplete, or there is none.
Skip == inbox # <<>> /\ inbox' = Tail(inbox) /\ UNCHANGED <<given, delivered, lossy>>

Next == Send \/ Lose \/ Deliver \/ Skip

Spec == Init /\ [][Next]_channel
===============================================================================
