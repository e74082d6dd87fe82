-------------------------------- MODULE Conf --------------------------------
(***************************************************************************)
(* How the broker is configured: the files (nanolib/conf.c), the           *)
(* environment (nanolib/env.c) and the options of the command              *)
(* (apps/broker.c).                                                        *)
(*                                                                         *)
(* A configuration is a function from the names of its fields.  A line of  *)
(* a file is [key, index, value]: its blanks are gone, index is the number *)
(* in keys like auth.1.login and value is a text.  The keys of the bridge  *)
(* file are without bridge.mqtt.  What a text is to atoi, strcasecmp and   *)
(* strtok is given by constants.                                           *)
(***************************************************************************)
EXTENDS Integers, Sequences, SequencesExt, TLC

CONSTANTS Atoi,        \* text -> number
          Lower,       \* text -> the same in lower case
          Split,       \* text -> what is between its commas
          Unreadable,  \* the contents of a file that cannot be opened
          NULL

CONF_PATH_NAME == "nanomq.conf"
CONF_BRIDGE_PATH_NAME == "nanomq_bridge.conf"
CONF_AUTH_PATH_NAME == "nanomq_auth_username.conf"
CONF_TCP_URL_DEFAULT == "broker+tcp"
CONF_WS_URL_DEFAULT == "nmq+ws"

BoolKeys == {"daemon", "allow_anonymous", "websocket.enable", "http_server.enable"}
IntKeys == {"num_taskq_thread", "max_taskq_thread", "parallel", "property_size", "msq_len",
            "qos_duration", "http_server.port"}
StringKeys == {"url", "websocket.url", "http_server.username", "http_server.password"}
FileKeys == BoolKeys \cup IntKeys \cup StringKeys
PathKeys == {"conf_file", "bridge_file", "auth_file"}
Keys == FileKeys \cup PathKeys

conf_init ==
  [k \in {"num_taskq_thread", "max_taskq_thread"} |-> 10]
    @@ ("parallel" :> 30) @@ ("property_size" :> 32) @@ ("msq_len" :> 64)
    @@ ("qos_duration" :> 30) @@ ("http_server.port" :> 8081)
    @@ [k \in {"allow_anonymous", "websocket.enable"} |-> TRUE]
    @@ [k \in {"daemon", "http_server.enable"} |-> FALSE]
    @@ [k \in StringKeys \cup PathKeys |-> NULL]

\* The field k for a text; the port has 16 bits.
Value(k, text) ==
  IF k \in BoolKeys THEN Lower[text] \in {"yes", "true"}
  ELSE IF k = "http_server.port" THEN Atoi[text] % 2^16
  ELSE IF k \in IntKeys THEN Atoi[text]
  ELSE text

\* A line without a value does not count.
get_conf_value(line, k, i) ==
  IF line.key = k /\ line.index = i /\ line.value # "" THEN line.value ELSE NULL

\* The file that is read: the one named, if it is there, or the default.
DestPath(files, path, default) == IF path \in DOMAIN files THEN path ELSE default

Lines(files, path, default) ==
  LET dest == DestPath(files, path, default)
  IN  IF dest \in DOMAIN files /\ files[dest] # Unreadable THEN files[dest] ELSE <<>>

\* Mutant: the first line of a key counts.
SetLine_First(c, line) ==
  IF line.key \in FileKeys /\ get_conf_value(line, line.key, 0) # NULL
     /\ c[line.key] = conf_init[line.key]
  THEN [c EXCEPT ![line.key] = Value(line.key, line.value)] ELSE c

SetLine(c, line) ==
  IF line.key \in FileKeys /\ get_conf_value(line, line.key, 0) # NULL
  THEN [c EXCEPT ![line.key] = Value(line.key, line.value)] ELSE c

conf_parser(c, files) == FoldLeft(SetLine, c, Lines(files, c["conf_file"], CONF_PATH_NAME))
-----------------------------------------------------------------------------
(* Numbered pairs: subscriptions of the bridge, users. *)

\* Mutant: the second half is kept for the next pair.
NextPair_KeepsSecond(s) ==
  IF s.first = NULL \/ s.second = NULL THEN s
  ELSE [index |-> s.index + 1, first |-> NULL, second |-> s.second,
        list |-> Append(s.list, <<s.first, s.second>>)]

\* Both halves are there: the pair is added and the next number looked for.
NextPair(s) ==
  IF s.first = NULL \/ s.second = NULL THEN s
  ELSE [index |-> s.index + 1, first |-> NULL, second |-> NULL,
        list |-> Append(s.list, <<s.first, s.second>>)]

\* Lines of any other number, before or after, are passed over.
Pairs(lines, k1, k2) ==
  FoldLeft(LAMBDA s, line :
             LET a == get_conf_value(line, k1, s.index)
                 b == get_conf_value(line, k2, s.index)
             IN  NextPair(IF s.first = NULL /\ a # NULL THEN [s EXCEPT !.first = a]
                          ELSE IF s.second = NULL /\ b # NULL THEN [s EXCEPT !.second = b]
                          ELSE s),
           [index |-> 1, first |-> NULL, second |-> NULL, list |-> <<>>], lines).list

conf_auth_parser(c, files) ==
  Pairs(Lines(files, c["auth_file"], CONF_AUTH_PATH_NAME), "login", "password")

conf_bridge_parse_subs(lines) ==
  LET p == Pairs(lines, "subscription.topic", "subscription.qos")
  IN  [i \in DOMAIN p |-> [topic |-> p[i][1], qos |-> Atoi[p[i][2]] % 2^8]]
-----------------------------------------------------------------------------
(* The bridge. *)

\* What conf_init and nng_zalloc leave.
bridge_init ==
  [bridge_mode |-> FALSE, clean_start |-> FALSE, proto_ver |-> 0, keepalive |-> 0, parallel |-> 1,
   address |-> NULL, clientid |-> NULL, username |-> NULL, password |-> NULL,
   forwards |-> <<>>, sub_list |-> <<>>]

\* The forwards of a line are added to those there are.
SetBridge(b, line) ==
  LET k == line.key IN
  IF get_conf_value(line, k, 0) = NULL \/ k \notin DOMAIN b \/ k = "sub_list" THEN b
  ELSE [b EXCEPT ![k] =
    IF k \in {"bridge_mode", "clean_start"} THEN Lower[line.value] = "true"
    ELSE IF k = "proto_ver" THEN Atoi[line.value] % 2^8
    ELSE IF k = "keepalive" THEN Atoi[line.value] % 2^16
    ELSE IF k = "parallel" THEN Atoi[line.value]
    ELSE IF k = "forwards" THEN @ \o Split[line.value]
    ELSE line.value]

conf_bridge_parse(b, c, files) ==
  LET dest == DestPath(files, c["bridge_file"], CONF_BRIDGE_PATH_NAME)
  IN  IF dest \notin DOMAIN files THEN b
      ELSE IF files[dest] = Unreadable THEN [b EXCEPT !.bridge_mode = FALSE]
      ELSE [FoldLeft(SetBridge, b, files[dest])
              EXCEPT !.sub_list = conf_bridge_parse_subs(files[dest])]
-----------------------------------------------------------------------------
(* The environment and the options. *)

\* The variable of a field: NANOMQ_NUM_TASKQ_THREAD is defined as the name of the
\* other one.
EnvName(k) == IF k = "num_taskq_thread" THEN "max_taskq_thread" ELSE k

read_env_conf(c, env) ==
  [k \in Keys |-> IF EnvName(k) \in DOMAIN env THEN Value(k, env[EnvName(k)]) ELSE c[k]]

\* cmd_opts: the field an option sets.
OptKey ==
  ("--conf" :> "conf_file") @@ ("--bridge" :> "bridge_file") @@ ("--auth" :> "auth_file")
    @@ ("--daemon" :> "daemon") @@ ("--tq_thread" :> "num_taskq_thread")
    @@ ("--max_tq_thread" :> "max_taskq_thread") @@ ("--parallel" :> "parallel")
    @@ ("--property_size" :> "property_size") @@ ("--msq_len" :> "msq_len")
    @@ ("--qos_duration" :> "qos_duration") @@ ("--url" :> "url")
    @@ ("--http" :> "http_server.enable") @@ ("--port" :> "http_server.port")

Bad == "bad"
Help == "help"

\* nng_opts_parse: the options up to the first word that is none, each with the
\* word after it (all but --daemon take one), or what is wrong with them.
OptArgs(words) ==
  LET From[i \in 1 .. Len(words) + 3] ==
        IF i > Len(words) THEN <<>>
        ELSE IF words[i] = "--help" THEN <<[key |-> Help, text |-> ""]>>
        ELSE IF words[i] = "--daemon" THEN <<[key |-> "daemon", text |-> "true"]>> \o From[i + 1]
        ELSE IF words[i] \in DOMAIN OptKey
             THEN IF i = Len(words) THEN <<[key |-> Bad, text |-> ""]>>
                  ELSE <<[key |-> OptKey[words[i]], text |-> words[i + 1]]>> \o From[i + 2]
        ELSE IF words[i] = "--unknown" THEN <<[key |-> Bad, text |-> ""]>>
        ELSE <<>>
  IN  From[1]

Refused(args) == args # <<>> /\ Last(args).key \in {Bad, Help}

\* Whatever follows --http, the HTTP server is enabled.
broker_parse_opts(c, args) ==
  FoldLeft(LAMBDA d, a : [d EXCEPT ![a.key] = IF a.key \in BoolKeys THEN TRUE ELSE Value(a.key, a.text)],
           c, args)
-----------------------------------------------------------------------------
\* The order of broker_start.  A file that is named, by the environment or by an
\* option, is read last.  The users are read when the socket is opened.
Configure(files, env, args) ==
  LET c1 == conf_parser(conf_init, files)
      b1 == conf_bridge_parse(bridge_init, conf_init, files)
      c2 == broker_parse_opts(read_env_conf(c1, env), args)
      c3 == IF c2["conf_file"] # NULL THEN conf_parser(c2, files) ELSE c2
      b3 == IF c3["bridge_file"] # NULL THEN conf_bridge_parse(b1, c3, files) ELSE b1
      ws == IF c3["websocket.enable"] /\ c3["websocket.url"] = NULL
            THEN CONF_WS_URL_DEFAULT ELSE c3["websocket.url"]
  IN  [conf |-> [c3 EXCEPT !["url"] = IF @ = NULL THEN CONF_TCP_URL_DEFAULT ELSE @,
                           !["websocket.url"] = ws],
       bridge |-> b3, auths |-> <<>>]
=============================================================================
