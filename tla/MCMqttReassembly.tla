------------------------- MODULE MCMqttReassembly -------------------------
(* Messages and sizes for checking MqttReassembly: two messages of two     *)
(* fragments, one of three, one that fits a single event, one oversize and *)
(* one with a topic that is too long.                                      *)
EXTENDS MqttReassembly

McMsg == {"two", "pair", "three", "one", "huge", "long"}
McTopic == {"state", "command"}
McTopicOf == [m \in McMsg |-> IF m \in {"pair", "one"} THEN "command" ELSE "state"]
McTotal == [two |-> 2, pair |-> 2, three |-> 3, one |-> 1, huge |-> 4, long |-> 3]
McLongTopic == {"long"}

\* QoS 0 deliveries, the only ones the subscriptions ask for, carry msg_id 0.
QosZeroIds == [m \in McMsg |-> 0]

=============================================================================
