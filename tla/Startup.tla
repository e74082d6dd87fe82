------------------------------ MODULE Startup ------------------------------
(***************************************************************************)
(* The commands `nanomq broker start', `stop' and `restart' (nanomq.c,     *)
(* apps/broker.c, process.c) as processes that share the pid file and the  *)
(* addresses to listen on, the bridge's connection to the remote broker    *)
(* (bridge.c), and the HTTP server (web_server.c, rest_api.c), which can   *)
(* stop the broker too.                                                    *)
(***************************************************************************)
EXTENDS Conf, FiniteSets

CONSTANTS Worlds,   \* what files and environment there may be: [files, env, writable],
                    \* writable: the pid file can be written
          Options,  \* what may be written after start and restart
          Requests, \* to the HTTP server: [token, object, req, action]
          MaxPid,   \* bound on the processes, pids are 1 .. MaxPid
          Allow     \* what the users may do, see Issue

ASSUME PidAssumption == MaxPid \in Nat

Pids == 1 .. MaxPid
NoPid == 0

VARIABLES
  world,       \* the files and the environment
  kind,        \* pid -> the command: "start", "stop", "restart", "wait" (restart
               \* after the first signal)
  args,        \* pid -> its options
  pc,          \* pid -> what it does next, "none" before and "exited" after
  seen,        \* pid -> the pid it has read
  set,         \* pid -> its configuration
  pid_file,    \* the pid in PID_PATH_NAME, or NoPid
  signalled,   \* the processes sent SIGTERM or SIGKILL
  bound,       \* address -> the process that listens on it
  asked        \* pid -> what the remote broker was sent: CONNECT and SUBSCRIBE

vars == <<world, kind, args, pc, seen, set, pid_file, signalled, bound, asked>>

Unset == [conf |-> conf_init, bridge |-> bridge_init, auths |-> <<>>]
Alive(p) == pc[p] \notin {"none", "exited"}
Unused == {p \in Pids : pc[p] = "none"}
NewPid == CHOOSE p \in Unused : \A q \in Unused : p <= q

\* The options in use, and those broker_parse_opts does not refuse.
AllArgs == {OptArgs(words) : words \in Options}
GoodArgs == {a \in AllArgs : ~Refused(a)}

\* Every configuration has the fields of struct conf.
ASSUME FieldsAssumption ==
  \A w \in Worlds : \A a \in GoodArgs : Keys \subseteq DOMAIN Configure(w.files, w.env, a).conf

\* A world with the configurations it leads to, which do not change with time.
Prepared(w) ==
  LET settings == [a \in GoodArgs |-> Configure(w.files, w.env, a)]
  IN  [files |-> w.files, env |-> w.env, writable |-> w.writable, settings |-> settings,
       users |-> [a \in GoodArgs |-> conf_auth_parser(settings[a].conf, w.files)]]

\* What broker listens on.
Urls(s) == {s.conf["url"]} \cup (IF s.conf["websocket.enable"] THEN {s.conf["websocket.url"]} ELSE {})

Init ==
  /\ world \in {Prepared(w) : w \in Worlds}
  /\ kind = [p \in Pids |-> "start"]
  /\ args = [p \in Pids |-> <<>>]
  /\ pc = [p \in Pids |-> "none"]
  /\ seen = [p \in Pids |-> NoPid]
  /\ set = [p \in Pids |-> Unset]
  /\ pid_file = NoPid
  /\ signalled = {}
  /\ bound = << >>
  /\ asked = [p \in Pids |-> NULL]

\* All that a process leaves is its pid file.
Exit(p) ==
  /\ pc' = [pc EXCEPT ![p] = "exited"]
  /\ kind' = [kind EXCEPT ![p] = "start"]
  /\ args' = [args EXCEPT ![p] = <<>>]
  /\ seen' = [seen EXCEPT ![p] = NoPid]
  /\ set' = [set EXCEPT ![p] = Unset]
  /\ signalled' = signalled \ {p}
  /\ bound' = [u \in {v \in DOMAIN bound : bound[v] # p} |-> bound[u]]
  /\ asked' = [asked EXCEPT ![p] = NULL]
-----------------------------------------------------------------------------
\* main: a command is given.  stop with options and restart without any only print
\* how they are used.
\* Commands are given one after the other, when the last has ended or serves, or,
\* if Allow has "daemon_return", as soon as the process started from the shell has
\* ended.
Issue(k, words) ==
  /\ Cardinality(Unused) >= 2
  /\ \A p \in Pids : Alive(p) => \/ pc[p] = "run"
                                 \/ "daemon_return" \in Allow /\ set[p].conf["daemon"]
                                                              /\ pc[p] # "daemonize"
  /\ k = "stop" => words = <<>>
  /\ k = "restart" => words # <<>>
  /\ pc' = [pc EXCEPT ![NewPid] = "read"]
  /\ kind' = [kind EXCEPT ![NewPid] = k]
  /\ args' = [args EXCEPT ![NewPid] = OptArgs(words)]
  /\ UNCHANGED <<world, seen, set, pid_file, signalled, bound, asked>>
-----------------------------------------------------------------------------
(* status_check *)

\* No instance is running: what the command does then.
NotRunning(p) ==
  \/ /\ kind[p] = "start"
     /\ pc' = [pc EXCEPT ![p] = "configure"]
     /\ UNCHANGED <<kind, args, seen, set, signalled, bound, asked>>
  \/ /\ kind[p] = "stop"
     /\ Exit(p)
  \/ /\ kind[p] \in {"restart", "wait"}   \* broker_start, which checks again
     /\ pc' = [pc EXCEPT ![p] = "read"]
     /\ kind' = [kind EXCEPT ![p] = "start"]
     /\ UNCHANGED <<args, seen, set, signalled, bound, asked>>

\* Mutant: restart does not wait until the instance is gone.
Running_NoWait(p) ==
  \/ /\ kind[p] = "start"
     /\ Exit(p)
  \/ /\ kind[p] = "stop"
     /\ pc' = [pc EXCEPT ![p] = "return"]
     /\ signalled' = signalled \cup {seen[p]}
     /\ UNCHANGED <<kind, args, seen, set, bound, asked>>
  \/ /\ kind[p] = "restart"
     /\ pc' = [pc EXCEPT ![p] = "read"]
     /\ kind' = [kind EXCEPT ![p] = "start"]
     /\ signalled' = signalled \cup {seen[p]}
     /\ UNCHANGED <<args, seen, set, bound, asked>>

\* Mutant: stop only looks.
Running_NoSignal(p) ==
  \/ /\ kind[p] \in {"start", "stop"}
     /\ Exit(p)
  \/ /\ kind[p] \in {"restart", "wait"}
     /\ pc' = [pc EXCEPT ![p] = "read"]
     /\ kind' = [kind EXCEPT ![p] = "wait"]
     /\ signalled' = signalled \cup {seen[p]}
     /\ UNCHANGED <<args, seen, set, bound, asked>>

\* The instance seen is running.  stop has signalled it before it ends; restart
\* signals until it is gone.
Running(p) ==
  \/ /\ kind[p] = "start"
     /\ Exit(p)
  \/ /\ kind[p] = "stop"
     /\ pc' = [pc EXCEPT ![p] = "return"]
     /\ signalled' = signalled \cup {seen[p]}
     /\ UNCHANGED <<kind, args, seen, set, bound, asked>>
  \/ /\ kind[p] \in {"restart", "wait"}
     /\ pc' = [pc EXCEPT ![p] = "read"]
     /\ kind' = [kind EXCEPT ![p] = "wait"]
     /\ signalled' = signalled \cup {seen[p]}
     /\ UNCHANGED <<args, seen, set, bound, asked>>

Read(p) ==
  /\ pc[p] = "read"
  /\ IF pid_file = NoPid THEN NotRunning(p)
     ELSE /\ seen' = [seen EXCEPT ![p] = pid_file]
          /\ pc' = [pc EXCEPT ![p] = "probe"]
          /\ UNCHANGED <<kind, args, set, signalled, bound, asked>>
  /\ UNCHANGED <<world, pid_file>>

\* kill(pid, 0)
Probe(p) ==
  /\ pc[p] = "probe"
  /\ IF Alive(seen[p]) THEN Running(p)
     ELSE /\ pc' = [pc EXCEPT ![p] = "delete"]
          /\ UNCHANGED <<kind, args, seen, set, signalled, bound, asked>>
  /\ UNCHANGED <<world, pid_file>>

\* Whether there was still a file to delete makes no difference.
Delete(p) ==
  /\ pc[p] = "delete"
  /\ pid_file' = NoPid
  /\ NotRunning(p)
  /\ UNCHANGED world

Return(p) ==
  /\ pc[p] = "return"
  /\ Exit(p)
  /\ UNCHANGED <<world, pid_file>>
-----------------------------------------------------------------------------
(* broker_start and broker *)

Configured(p) ==
  /\ pc[p] = "configure"
  /\ IF Refused(args[p]) THEN Exit(p)
     ELSE LET s == world.settings[args[p]]
          IN  /\ set' = [set EXCEPT ![p] = s]
              /\ pc' = [pc EXCEPT ![p] = IF s.conf["daemon"] THEN "daemonize" ELSE "rest"]
              /\ UNCHANGED <<kind, args, seen, signalled, bound, asked>>
  /\ UNCHANGED <<world, pid_file>>

\* Mutant: the pid is stored before the process becomes a daemon.
Daemonize_Stored(p) ==
  /\ pc[p] = "daemonize"
  /\ LET q == NewPid IN
     /\ pc' = [pc EXCEPT ![p] = "exited", ![q] = "listen"]
     /\ set' = [set EXCEPT ![p] = Unset, ![q] = set[p]]
     /\ args' = [args EXCEPT ![p] = <<>>, ![q] = args[p]]
     /\ seen' = [seen EXCEPT ![p] = NoPid]
     /\ signalled' = signalled \ {p}
     /\ pid_file' = p
  /\ UNCHANGED <<world, kind, bound, asked>>

\* process_daemonize: a child's child goes on and the process of the command ends.
Daemonize(p) ==
  /\ pc[p] = "daemonize"
  /\ LET q == NewPid IN
     /\ pc' = [pc EXCEPT ![p] = "exited", ![q] = "rest"]
     /\ set' = [set EXCEPT ![p] = Unset, ![q] = set[p]]
     /\ args' = [args EXCEPT ![p] = <<>>, ![q] = args[p]]
     /\ seen' = [seen EXCEPT ![p] = NoPid]
     /\ signalled' = signalled \ {p}
  /\ UNCHANGED <<world, kind, pid_file, bound, asked>>

\* One of the forks or setsid fails: nobody goes on.
DaemonizeFails(p) ==
  /\ pc[p] = "daemonize"
  /\ Exit(p)
  /\ UNCHANGED <<world, pid_file>>

HTTP_DEFAULT_USER == "admin"
HTTP_DEFAULT_PASSWORD == "public"
HTTP_DEFAULT_PORT == 8081

set_http_server_conf(c) ==
  [c EXCEPT !["http_server.username"] = IF @ = NULL THEN HTTP_DEFAULT_USER ELSE @,
            !["http_server.password"] = IF @ = NULL THEN HTTP_DEFAULT_PASSWORD ELSE @]

HttpUrl(s) ==
  LET port == s.conf["http_server.port"]
  IN  ToString(IF port = 0 THEN HTTP_DEFAULT_PORT ELSE port)

HttpUrls(s) == IF s.conf["http_server.enable"] THEN {HttpUrl(s)} ELSE {}

\* An address that is taken stays with its process.
Bind(p, urls) ==
  [u \in DOMAIN bound \cup urls |-> IF u \in DOMAIN bound THEN bound[u] ELSE p]

\* start_rest_server: here an address that is taken ends the process.
start_rest_server(p) ==
  /\ pc[p] = "rest"
  /\ \/ /\ ~set[p].conf["http_server.enable"]
        /\ pc' = [pc EXCEPT ![p] = "store"]
        /\ UNCHANGED <<kind, args, seen, set, signalled, bound, asked>>
     \/ /\ set[p].conf["http_server.enable"] /\ HttpUrl(set[p]) \in DOMAIN bound
        /\ Exit(p)
     \/ /\ set[p].conf["http_server.enable"] /\ HttpUrl(set[p]) \notin DOMAIN bound
        /\ set' = [set EXCEPT ![p].conf = set_http_server_conf(@)]
        /\ bound' = Bind(p, HttpUrls(set[p]))
        /\ pc' = [pc EXCEPT ![p] = "store"]
        /\ UNCHANGED <<kind, args, seen, signalled, asked>>
  /\ UNCHANGED <<world, pid_file>>

store_pid(p) ==
  /\ pc[p] = "store" /\ world.writable
  /\ pid_file' = p
  /\ pc' = [pc EXCEPT ![p] = "listen"]
  /\ UNCHANGED <<world, kind, args, seen, set, signalled, bound, asked>>

\* The pid file cannot be written: the broker starts all the same.
StoreFails(p) ==
  /\ pc[p] = "store" /\ ~world.writable
  /\ pc' = [pc EXCEPT ![p] = "listen"]
  /\ UNCHANGED <<world, kind, args, seen, set, pid_file, signalled, bound, asked>>

\* broker: opening the socket reads the users.  An address that is taken is
\* reported, and the process goes on without it (fatal only prints).
Listen(p) ==
  /\ pc[p] = "listen"
  /\ set' = [set EXCEPT ![p].auths = world.users[args[p]]]
  /\ bound' = Bind(p, Urls(set[p]))
  /\ pc' = [pc EXCEPT ![p] = "run"]
  /\ UNCHANGED <<world, kind, args, seen, pid_file, signalled, asked>>

\* bridge_client: what the CONNECT to the remote broker says.
ConnMsg(b) ==
  [k \in {"keepalive", "proto_ver", "clean_start", "clientid", "username", "password"} |-> b[k]]

\* bridge_connect_cb: on every connection that the remote broker accepts it is
\* asked for the subscriptions of the configuration.
Connected(p, accepted) ==
  /\ pc[p] = "run" /\ set[p].bridge.bridge_mode
  /\ asked' = [asked EXCEPT ![p] =
                 [connect |-> ConnMsg(set[p].bridge),
                  subscribe |-> IF accepted THEN set[p].bridge.sub_list
                                ELSE IF @ = NULL THEN <<>> ELSE @.subscribe]]
  /\ UNCHANGED <<world, kind, args, pc, seen, set, pid_file, signalled, bound>>

SUCCEED == 0
UNKNOWN_MISTAKE == 102
WRONG_USERNAME_OR_PASSWORD == 103
EMPTY_USERNAME_OR_PASSWORD == 104
REQ_PARAMS_JSON_FORMAT_ILLEGAL == 109
REQ_CTRL == 10

\* The name and password are compared with the byte after them too, which
\* base64_decode does not set unless the token is padded.
authorize(r, c) ==
  IF r.token = NULL THEN {EMPTY_USERNAME_OR_PASSWORD}
  ELSE IF r.token = <<c["http_server.username"], c["http_server.password"]>>
  THEN {SUCCEED, WRONG_USERNAME_OR_PASSWORD}
  ELSE {WRONG_USERNAME_OR_PASSWORD}

\* The codes a request may be answered with.
process_request(r, c) ==
  {IF code # SUCCEED THEN code
   ELSE IF ~r.object THEN REQ_PARAMS_JSON_FORMAT_ILLEGAL
   ELSE IF r.req \notin {2, 4, 5, REQ_CTRL} THEN UNKNOWN_MISTAKE
   ELSE SUCCEED : code \in authorize(r, c)}

\* post_ctrl: the process does what the command stop does.  (No other request
\* changes anything.  Bound: none comes before the broker listens, though the HTTP
\* server is there a few steps earlier: such a broker would end before it runs.)
post_ctrl(p, r) ==
  /\ pc[p] = "run" /\ set[p].conf["http_server.enable"]
  /\ SUCCEED \in process_request(r, set[p].conf)
  /\ r.req = REQ_CTRL /\ Lower[r.action] = "stop"
  /\ kind' = [kind EXCEPT ![p] = "stop"]
  /\ pc' = [pc EXCEPT ![p] = "read"]
  /\ UNCHANGED <<world, args, seen, set, pid_file, signalled, bound, asked>>

\* A process that was sent a signal ends, and a broker may end by itself.
Die(p) ==
  /\ Alive(p) /\ p \in signalled
  /\ Exit(p)
  /\ UNCHANGED <<world, pid_file>>

Crash(p) ==
  /\ pc[p] = "run" /\ p \notin signalled
  /\ Exit(p)
  /\ UNCHANGED <<world, pid_file>>
-----------------------------------------------------------------------------
ProcessStep(p) ==
  \/ Read(p) \/ Probe(p) \/ Delete(p) \/ Return(p)
  \/ Configured(p) \/ Daemonize(p) \/ DaemonizeFails(p)
  \/ start_rest_server(p) \/ store_pid(p) \/ StoreFails(p) \/ Listen(p) \/ Die(p)

Next ==
  \/ \E k \in {"start", "stop", "restart"}, words \in Options : Issue(k, words)
  \/ \E p \in Pids : \/ ProcessStep(p) \/ Crash(p)
                     \/ \E accepted \in BOOLEAN : Connected(p, accepted)
                     \/ \E r \in Requests : post_ctrl(p, r)

\* A process that can go on does, and one that was sent a signal ends.
Spec == Init /\ [][Next]_vars /\ \A p \in Pids : WF_vars(ProcessStep(p))
-----------------------------------------------------------------------------
(* What the commands are for. *)

\* broker_start promises "a new instance won't be started until the other one is
\* stopped": a broker that runs is the one the pid file names, so there is one and
\* stop finds it, and it listens on every address of its configuration.  (Where the
\* pid file cannot be written store_pid's failure is only logged, and none of this
\* holds.)
Serving == world.writable =>
  \A p \in Pids : pc[p] = "run" =>
    /\ pid_file = p
    /\ \A u \in Urls(set[p]) \cup HttpUrls(set[p]) : u \in DOMAIN bound /\ bound[u] = p

Given(lines, k, i) == {n \in DOMAIN lines : get_conf_value(lines[n], k, i) # NULL}
LastGiven(lines, k) == lines[CHOOSE n \in Given(lines, k, 0) : \A m \in Given(lines, k, 0) : m <= n].value
Opts(p, k) == {i \in DOMAIN args[p] : args[p][i].key = k}
LastOpt(p, k) ==
  IF k \in BoolKeys THEN TRUE
  ELSE Value(k, args[p][CHOOSE i \in Opts(p, k) : \A j \in Opts(p, k) : j <= i].text)

\* The file that is read again after the options: the one named, or the default one
\* if that is not there.
Reread(p) ==
  IF set[p].conf["conf_file"] = NULL THEN <<>>
  ELSE Lines(world.files, set[p].conf["conf_file"], CONF_PATH_NAME)

\* Where the code does not follow the order documented: the file that is read again
\* also gives a field that the options or the environment give, and
\* NANOMQ_NUM_TASKQ_THREAD is not read, the variable of the other threads is.
Disordered(p, k) ==
  \/ /\ k \in FileKeys /\ Given(Reread(p), k, 0) # {}
     /\ Opts(p, k) # {} \/ EnvName(k) \in DOMAIN world.env
  \/ k = "num_taskq_thread" /\ DOMAIN world.env \cap {"num_taskq_thread", "max_taskq_thread"} # {}

\* "Command-Line Arguments > Environment Variables > Config files" (README.md:383,
\* broker.c:884): a field of the configuration a broker starts with comes from the
\* options, else the environment, the file that is named, the default file and
\* conf_init, and in each the last mention counts; except where Disordered.
ConfigLayers ==
  \A p \in Pids : pc[p] \in {"daemonize", "rest", "store", "listen", "run"} => \A k \in Keys :
    LET c == set[p].conf
        default == Lines(world.files, NULL, CONF_PATH_NAME)
        value == IF Opts(p, k) # {} THEN LastOpt(p, k)
                 ELSE IF k \in DOMAIN world.env THEN Value(k, world.env[k])
                 ELSE IF k \in FileKeys /\ Given(Reread(p), k, 0) # {}
                 THEN Value(k, LastGiven(Reread(p), k))
                 ELSE IF k \in FileKeys /\ Given(default, k, 0) # {}
                 THEN Value(k, LastGiven(default, k))
                 ELSE conf_init[k]
    IN  ~Disordered(p, k) => c[k] = value \/ (value = NULL /\ k \in StringKeys)

\* Number i of a list of pairs comes from lines that have this number, and a list
\* whose numbers are in order is there as a whole.
Second(k2, text) == IF k2 = "subscription.qos" THEN Atoi[text] ELSE text
PairsOf(list, lines, k1, k2) ==
  LET Whole(i) == Given(lines, k1, i) # {} /\ Given(lines, k2, i) # {}
      Ordered == \A m, n \in DOMAIN lines :
                   m < n /\ {lines[m].key, lines[n].key} \subseteq {k1, k2}
                     => lines[m].index <= lines[n].index
  IN  /\ \A i \in DOMAIN list : /\ \E n \in Given(lines, k1, i) : lines[n].value = list[i][1]
                                /\ \E n \in Given(lines, k2, i) : Second(k2, lines[n].value) = list[i][2]
      /\ Ordered => \A i \in 1 .. Len(lines) : (\A j \in 1 .. i : Whole(j)) => i \in DOMAIN list

\* The remote broker is asked for what the last bridge file read lists and nothing
\* else (conf_bridge_parse_subs, bridge_connect_cb), and no user gets the password of
\* another (conf_auth_parser), whatever the order and the gaps of the numbers.
PairsMatch ==
  \A p \in Pids : pc[p] = "run" =>
    LET c == set[p].conf
        subs == set[p].bridge.sub_list
        sent == IF asked[p] = NULL THEN {} ELSE {asked[p].subscribe} \ {<<>>}
        file == Lines(world.files, c["bridge_file"], CONF_BRIDGE_PATH_NAME)
    IN  /\ \A list \in {subs} \cup sent :
             PairsOf([i \in DOMAIN list |-> <<list[i].topic, list[i].qos>>], file,
                     "subscription.topic", "subscription.qos")
        /\ PairsOf(set[p].auths, Lines(world.files, c["auth_file"], CONF_AUTH_PATH_NAME),
                   "login", "password")

\* Pids are given in order, and Latest is the last.
Latest == Cardinality(Pids \ Unused)

\* restart (broker_restart): with good options, and where no fork can fail and the
\* pid file can be written, there is a new broker in the end, whatever became of the
\* old one.
RestartStarts ==
  (\E p \in Pids : /\ world.writable /\ kind[p] = "restart" /\ ~Refused(args[p])
                   /\ ~world.settings[args[p]].conf["daemon"])
    ~> (Latest \in Pids /\ pc[Latest] = "run")

\* stop (broker_stop), as a command or by HTTP: the broker that runs gives up its
\* addresses, where the pid file can be written.
StopStops ==
  (world.writable /\ \E p \in Pids : kind[p] = "stop" /\ pc[p] = "read") ~> (DOMAIN bound = {})
=============================================================================
