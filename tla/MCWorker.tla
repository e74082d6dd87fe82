------------------------------ MODULE MCWorker ------------------------------
EXTENDS Worker

Packet(cmd, topic, retain, empty) ==
  [cmd |-> cmd, topic |-> topic, retain |-> retain, empty |-> empty]
Plain(cmds) == {Packet(c, "none", FALSE, FALSE) : c \in cmds}

ClientPackets ==
  {Packet("PUBLISH", "a", TRUE, FALSE)} \cup {Packet("PUBLISH", t, TRUE, TRUE) : t \in {"a", "b"}}
    \cup {Packet("SUBSCRIBE", "#", FALSE, FALSE)}
    \cup Plain({"CONNACK", "DISCONNECT", "UNSUBSCRIBE", "PUBACK"})

RemotePackets == {Packet("REMOTE", "none", FALSE, FALSE)}
=============================================================================
