----------------------------- MODULE MCStartup -----------------------------
(* Small worlds and command lines for TLC. *)
EXTENDS Startup

Texts == {"0", "1", "2", "4", "yes", "no", "TRUE", "true", "u1", "u2", "u3", "u4", "u5", "t1",
          "t2", "f1,f2", "anna", "ben", "pa", "pb", "n.conf", "b.conf", "missing", "--daemon", "stop",
          "STOP", ""}

MCAtoi == [x \in Texts |-> IF x = "1" THEN 1 ELSE IF x = "2" THEN 2 ELSE IF x = "4" THEN 4 ELSE 0]
MCLower == [x \in Texts |-> IF x = "TRUE" THEN "true" ELSE IF x = "STOP" THEN "stop" ELSE x]
MCSplit == [x \in Texts |-> IF x = "f1,f2" THEN <<"f1", "f2">> ELSE <<x>>]

L(k, v) == [key |-> k, index |-> 0, value |-> v]
N(k, i, v) == [key |-> k, index |-> i, value |-> v]

Default == CONF_PATH_NAME :>
  <<L("url", "u1"), L("num_taskq_thread", "4"), L("url", "u2"), L("url", ""),
    L("websocket.enable", "no")>>
Named == "n.conf" :> <<L("url", "u4"), L("http_server.enable", "TRUE"), L("parallel", "2")>>

\* The second file has a gap and its numbers are not in order.
Bridge == CONF_BRIDGE_PATH_NAME :>
  <<L("bridge_mode", "TRUE"), L("forwards", "f1,f2"), N("subscription.topic", 1, "t1"),
    N("subscription.qos", 1, "1"), N("subscription.qos", 2, "2"),
    N("subscription.topic", 2, "t2")>>
OtherBridge == "b.conf" :>
  <<N("subscription.qos", 2, "2"), N("subscription.qos", 1, "0"), N("subscription.topic", 1, "t2"),
    N("subscription.topic", 2, "t1"), N("subscription.qos", 3, "1")>>
AuthFile == CONF_AUTH_PATH_NAME :>
  <<N("login", 1, "anna"), N("login", 2, "ben"), N("password", 1, "pa"), N("password", 2, "pb"),
    N("login", 2, "anna")>>

W(files, env) == [files |-> files, env |-> env, writable |-> TRUE]
MCWorlds ==
  {W(<< >>, << >>), [W(<< >>, << >>) EXCEPT !.writable = FALSE],
   W(Default @@ Named, "url" :> "u3"),
   W((CONF_PATH_NAME :> Unreadable) @@ Named, ("conf_file" :> "n.conf") @@ ("max_taskq_thread" :> "2")),
   W(Default @@ Bridge @@ OtherBridge @@ AuthFile, "daemon" :> "yes")}

MCOptions ==
  {<<>>, <<"--conf", "n.conf", "--url", "u5">>, <<"--conf", "missing">>,
   <<"--daemon">>, <<"--http", "--daemon">>, <<"--bridge", "b.conf", "--url", "u5">>, <<"--unknown">>}

R(token, object, req, action) == [token |-> token, object |-> object, req |-> req, action |-> action]
MCRequests ==
  {R(<<"admin", "public">>, TRUE, REQ_CTRL, "STOP"), R(<<"admin", "pa">>, TRUE, REQ_CTRL, "stop"),
   R(NULL, TRUE, REQ_CTRL, "stop"), R(<<"admin", "public">>, TRUE, 4, ""),
   R(<<"admin", "public">>, FALSE, 0, "")}

OneByOne == {}
=============================================================================
