--------------------------- MODULE StartupProofs ---------------------------
(***************************************************************************)
(* Serving of module Startup, for any number of processes and whatever the *)
(* files, environments, options and requests are, when commands are given  *)
(* one after the other (Allow is empty).                                   *)
(***************************************************************************)
EXTENDS Startup, FiniteSetTheorems, WellFoundedInduction, TLAPS

Places == {"none", "read", "probe", "delete", "return", "configure", "daemonize", "rest",
           "store", "listen", "run", "exited"}
Kinds == {"start", "stop", "restart", "wait"}

Types ==
  /\ pc \in [Pids -> Places]
  /\ kind \in [Pids -> Kinds]
  /\ seen \in [Pids -> Pids \cup {NoPid}]
  /\ pid_file \in Pids \cup {NoPid}
  /\ DOMAIN set = Pids
  /\ args \in [Pids -> AllArgs \cup {<<>>}]

\* What the proof needs to know of a configuration.
HasFields(s) == {"conf", "auths"} \subseteq DOMAIN s /\ Keys \subseteq DOMAIN s.conf

Configurations ==
  /\ \A a \in GoodArgs : HasFields(world.settings[a])
  /\ \A p \in Pids : /\ pc[p] = "configure" => args[p] \in AllArgs
                     /\ pc[p] \in {"read", "probe", "delete"} /\ kind[p] # "stop" => args[p] \in AllArgs
                     /\ pc[p] \in {"daemonize", "rest", "store", "listen", "run"} => HasFields(set[p])

\* A broker that runs, or is stopping itself on a request.
Up(p) == pc[p] = "run" \/ (Alive(p) /\ kind[p] = "stop" /\ pid_file = p)

\* There is at most one other process, and when it has found no broker it is the
\* only one there is.
Alone(p) == \A q \in Pids : Alive(q) => q = p
OneAtWork ==
  /\ \A p, q \in Pids : Alive(p) /\ Alive(q) => p = q \/ Up(p) \/ Up(q)
  /\ \A p \in Pids : pc[p] \in {"delete", "configure", "daemonize", "rest", "store", "listen"} => Alone(p)

\* What the process at work has seen is still so.
FileFresh ==
  /\ \A p \in Pids : pc[p] = "probe" => seen[p] = pid_file
  /\ \A p \in Pids : pc[p] \in {"listen", "run"} => pid_file = p

\* A process that may have to fork finds a pid.
CanFork ==
  \A p \in Pids :
    /\ pc[p] \in {"read", "probe", "delete"} /\ kind[p] # "stop" => Unused # {}
    /\ pc[p] \in {"configure", "daemonize"} => Unused # {}

\* Who listens, and on what.
Owners ==
  /\ \A u \in DOMAIN bound : bound[u] \in Pids /\ Alive(bound[u])
  /\ \A u \in DOMAIN bound : \/ kind[bound[u]] = "stop"
                              \/ pc[bound[u]] \in {"store", "listen", "run"}
  /\ \A p \in Pids : pc[p] \in {"configure", "daemonize"} => kind[p] = "start"
  /\ \A p \in Pids : pc[p] \in {"store", "listen", "run"} =>
       \A u \in HttpUrls(set[p]) : u \in DOMAIN bound /\ bound[u] = p
  /\ \A p \in Pids : pc[p] = "run" =>
       \A u \in Urls(set[p]) : u \in DOMAIN bound /\ bound[u] = p

IInv ==
  /\ Types /\ Configurations
  /\ world.writable => OneAtWork /\ FileFresh /\ CanFork /\ Owners

\* While there is an unused pid the next is one of them.
LEMMA NewPidUnused ==
  ASSUME Unused # {}
  PROVE  NewPid \in Unused
<1>1. Unused \subseteq Nat
  BY PidAssumption DEF Unused, Pids
<1> DEFINE R == {ss \in Nat \X Nat : ss[1] < ss[2]}
<1>2. IsWellFoundedOn(R, Nat)
  BY NatLessThanWellFounded DEF OpToRel
<1> HIDE DEF R
<1>3. PICK p \in Unused : \A q \in Unused : <<q, p>> \notin R
  BY <1>1, <1>2, WFMin, Zenon
<1>4. \A q \in Unused : p <= q
  <2> SUFFICES ASSUME NEW q \in Unused
               PROVE  p <= q
    OBVIOUS
  <2>1. q \in Nat /\ p \in Nat /\ <<q, p>> \notin R
    BY <1>1, <1>3, Zenon
  <2>2. ~(q < p)
    BY <2>1 DEF R
  <2> QED
    BY <2>1, <2>2
<1> QED
  BY <1>4 DEF NewPid

-----------------------------------------------------------------------------
\* No process exists, no file, no address: the invariant holds when the machine is up.
LEMMA InitIInv == Init => IInv
<1> SUFFICES ASSUME Init PROVE IInv
  OBVIOUS
<1>1. PICK w \in Worlds : world = Prepared(w)
  BY DEF Init
<1>2. \A a \in GoodArgs : world.settings[a] = Configure(w.files, w.env, a)
  BY <1>1 DEF Prepared
<1>3. \A a \in GoodArgs : {"conf", "auths"} \subseteq DOMAIN Configure(w.files, w.env, a)
  BY DEF Configure
<1>4. \A a \in GoodArgs : HasFields(world.settings[a])
  BY <1>2, <1>3, FieldsAssumption DEF HasFields
<1>5. Types
  BY PidAssumption DEF Init, Types, Places, Kinds
<1>6. Configurations
  BY <1>4 DEF Init, Configurations
<1>7. OneAtWork /\ FileFresh /\ CanFork /\ Owners
  BY DEF Init, OneAtWork, FileFresh, CanFork, Owners, Alive, Up, Alone
<1> QED
  BY <1>5, <1>6, <1>7 DEF IInv

\* A process that ends, with what it had, and its pid file as it is or deleted.
LEMMA ExitKeeps ==
  ASSUME IInv, NEW p \in Pids, Alive(p), Exit(p), UNCHANGED world,
         pid_file' = pid_file \/ (pid_file' = NoPid /\ pc[p] = "delete")
  PROVE  IInv'
<1>1. Types'
  BY DEF IInv, Types, Exit, Places, Kinds
<1>2. Configurations'
  BY DEF IInv, Types, Configurations, Exit
<1> SUFFICES ASSUME world.writable
             PROVE  (OneAtWork /\ FileFresh /\ CanFork /\ Owners)'
  BY <1>1, <1>2 DEF IInv
<1>3. Unused' = Unused
  BY DEF IInv, Types, Unused, Exit, Alive
<1>4. \A q \in Pids : q # p => /\ pc'[q] = pc[q] /\ kind'[q] = kind[q] /\ seen'[q] = seen[q]
                              /\ set'[q] = set[q] /\ (Alive(q))' = Alive(q)
  BY DEF IInv, Types, Exit, Alive
<1>5. pc'[p] = "exited" /\ ~(Alive(p))'
  BY DEF IInv, Types, Exit, Alive
<1>6. OneAtWork'
  BY <1>4, <1>5 DEF IInv, OneAtWork, Up, Alone
<1>7. FileFresh'
  BY <1>4, <1>5 DEF IInv, OneAtWork, FileFresh, Alone, Alive
<1>8. CanFork'
  BY <1>3, <1>4, <1>5 DEF IInv, CanFork
<1>9. Owners'
  BY <1>4, <1>5 DEF IInv, Owners, Exit, Urls, HttpUrls, HttpUrl
<1> QED
  BY <1>6, <1>7, <1>8, <1>9

\* No address, option or configuration changes, and other processes do not: what is
\* left to look at when process p goes on.
Step(p) ==
  /\ \A q \in Pids : q # p => /\ pc'[q] = pc[q] /\ kind'[q] = kind[q] /\ seen'[q] = seen[q]
                              /\ set'[q] = set[q] /\ (Alive(q))' = Alive(q)
  /\ Alive(p) /\ (Alive(p))'
  /\ Unused' = Unused

\* A command that has found no broker: stop ends, start and restart go on to start one.
LEMMA NotRunningKeeps ==
  ASSUME IInv, NEW p \in Pids, NotRunning(p), UNCHANGED world, pid_file' = NoPid,
         (pc[p] = "read" /\ pid_file = NoPid) \/ pc[p] = "delete"
  PROVE  IInv'
<1>1. Alive(p)
  BY DEF Alive
<1>2. CASE kind[p] = "stop"
  BY <1>1, <1>2, ExitKeeps DEF NotRunning
<1>3. CASE kind[p] # "stop"
  <2> DEFINE x == IF kind[p] = "start" THEN "configure" ELSE "read"
  <2>1. /\ pc' = [pc EXCEPT ![p] = x] /\ kind' = [kind EXCEPT ![p] = "start"]
        /\ UNCHANGED <<args, seen, set, bound>>
    BY <1>3 DEF NotRunning, IInv, Types
  <2>2. Types'
    BY <2>1 DEF IInv, Types, Places, Kinds
  <2>3. Configurations'
    BY <1>3, <2>1 DEF IInv, Types, Configurations
  <2> SUFFICES ASSUME world.writable
               PROVE  (OneAtWork /\ FileFresh /\ CanFork /\ Owners)'
    BY <2>2, <2>3 DEF IInv
  <2>4. Alone(p)
    BY <1>1, <1>3 DEF IInv, OneAtWork, FileFresh, Up, Alone, NoPid, Pids
  <2>5. Step(p)
    BY <1>1, <2>1 DEF IInv, Types, Step, Alive, Unused
  <2>6. OneAtWork'
    BY <2>4, <2>5 DEF OneAtWork, Alone, Step, Alive
  <2>7. FileFresh'
    BY <2>1, <2>4, <2>5 DEF IInv, Types, FileFresh, Alone, Step, Alive
  <2>8. CanFork'
    BY <1>3, <2>1, <2>4, <2>5 DEF IInv, Types, CanFork, Alone, Step, Alive
  <2>9. Owners'
    BY <1>3, <2>1, <2>4, <2>5 DEF IInv, Types, Owners, Alone, Step, Alive, Urls, HttpUrls, HttpUrl
  <2> QED
    BY <2>6, <2>7, <2>8, <2>9
<1> QED
  BY <1>2, <1>3

\* A command that has found a broker: start ends, the others send it a signal.
LEMMA RunningKeeps ==
  ASSUME IInv, NEW p \in Pids, Running(p), UNCHANGED <<world, pid_file>>, pc[p] = "probe"
  PROVE  IInv'
<1>1. Alive(p)
  BY DEF Alive
<1>2. CASE kind[p] = "start"
  BY <1>1, <1>2, ExitKeeps DEF Running
<1>3. CASE kind[p] # "start"
  <2> DEFINE x == IF kind[p] = "stop" THEN "return" ELSE "read"
             k == IF kind[p] = "stop" THEN "stop" ELSE "wait"
  <2>1. /\ pc' = [pc EXCEPT ![p] = x] /\ kind' = [kind EXCEPT ![p] = k]
        /\ UNCHANGED <<args, seen, set, bound>>
    BY <1>3 DEF Running, IInv, Types
  <2>2. Types'
    BY <2>1 DEF IInv, Types, Places, Kinds
  <2>3. Configurations'
    BY <1>3, <2>1 DEF IInv, Types, Configurations
  <2> SUFFICES ASSUME world.writable
               PROVE  (OneAtWork /\ FileFresh /\ CanFork /\ Owners)'
    BY <2>2, <2>3 DEF IInv
  <2>5. Step(p)
    BY <1>1, <2>1 DEF IInv, Types, Step, Alive, Unused
  <2>6. OneAtWork'
    BY <2>1, <2>5 DEF IInv, Types, OneAtWork, Alone, Step, Alive, Up
  <2>7. FileFresh'
    BY <2>1, <2>5 DEF IInv, Types, FileFresh, Step
  <2>8. CanFork'
    BY <1>3, <2>1, <2>5 DEF IInv, Types, CanFork, Step
  <2>9. Owners'
    BY <1>3, <2>1, <2>5 DEF IInv, Types, Owners, Step, Urls, HttpUrls, HttpUrl
  <2> QED
    BY <2>6, <2>7, <2>8, <2>9
<1> QED
  BY <1>2, <1>3

\* A command starts only when no other process is at work, so it is alone.
LEMMA IssueKeeps ==
  ASSUME IInv, Allow = {}, NEW k \in {"start", "stop", "restart"}, NEW words \in Options,
         Issue(k, words)
  PROVE  IInv'
<1>1. IsFiniteSet(Unused)
  <2>1. IsFiniteSet(Pids)
    BY PidAssumption, FS_Interval DEF Pids
  <2> QED
    BY <2>1, FS_Subset DEF Unused
<1>2. Cardinality(Unused) \in Nat /\ Cardinality(Unused) >= 2
  BY <1>1, FS_CardinalityType DEF Issue
<1>3. PICK n \in Unused : n = NewPid
  BY <1>2, NewPidUnused, FS_EmptySet
<1>4. Unused \ {n} # {}
  <2>1. Cardinality(Unused \ {n}) = Cardinality(Unused) - 1
    BY <1>1, FS_RemoveElement
  <2> QED
    BY <1>2, <2>1, FS_EmptySet
<1>5. n \in Pids /\ pc[n] = "none"
  BY DEF Unused
<1>6. /\ pc' = [pc EXCEPT ![n] = "read"] /\ kind' = [kind EXCEPT ![n] = k]
      /\ args' = [args EXCEPT ![n] = OptArgs(words)]
      /\ UNCHANGED <<world, seen, set, pid_file, bound>>
  BY <1>3 DEF Issue
<1>7. Types'
  BY <1>6, <1>5 DEF IInv, Types, Places, Kinds, AllArgs
<1>8. Configurations'
  BY <1>6, <1>5 DEF IInv, Types, Configurations, AllArgs
<1> SUFFICES ASSUME world.writable
             PROVE  (OneAtWork /\ FileFresh /\ CanFork /\ Owners)'
  BY <1>6, <1>7, <1>8 DEF IInv
<1>9. \A q \in Pids : Alive(q) => pc[q] = "run"
  BY DEF Issue
<1>10. \A q \in Pids : q # n => /\ pc'[q] = pc[q] /\ kind'[q] = kind[q] /\ (Alive(q))' = Alive(q)
  BY <1>6, <1>5 DEF IInv, Types, Alive
<1>11. Unused' = Unused \ {n}
  BY <1>6, <1>5 DEF IInv, Types, Unused
<1>12. pc'[n] = "read" /\ (Alive(n))' /\ ~Alive(n)
  BY <1>6, <1>5 DEF IInv, Types, Alive
<1>13. OneAtWork'
  BY <1>6, <1>9, <1>10, <1>12 DEF IInv, OneAtWork, Up, Alone, Alive
<1>14. FileFresh'
  BY <1>6, <1>10, <1>12 DEF IInv, FileFresh
<1>15. CanFork'
  BY <1>11, <1>4 DEF CanFork
<1>16. Owners'
  BY <1>6, <1>10, <1>12 DEF IInv, Owners, Urls, HttpUrls, HttpUrl
<1> QED
  BY <1>13, <1>14, <1>15, <1>16

\* status_check: a command learns the broker that runs, or that there is none.
LEMMA ReadKeeps ==
  ASSUME IInv, NEW p \in Pids, Read(p)
  PROVE  IInv'
<1>1. CASE pid_file = NoPid
  BY <1>1, NotRunningKeeps DEF Read
<1>2. CASE pid_file # NoPid
  <2>1. /\ pc[p] = "read" /\ pc' = [pc EXCEPT ![p] = "probe"] /\ seen' = [seen EXCEPT ![p] = pid_file]
        /\ UNCHANGED <<world, kind, args, set, bound, pid_file>>
    BY <1>2 DEF Read
  <2>2. Types'
    BY <2>1 DEF IInv, Types, Places
  <2>3. Configurations'
    BY <2>1 DEF IInv, Types, Configurations
  <2> SUFFICES ASSUME world.writable
               PROVE  (OneAtWork /\ FileFresh /\ CanFork /\ Owners)'
    BY <2>1, <2>2, <2>3 DEF IInv
  <2>4. Step(p)
    BY <2>1 DEF IInv, Types, Step, Alive, Unused
  <2>5. OneAtWork'
    BY <2>1, <2>4 DEF IInv, Types, OneAtWork, Alone, Step, Alive, Up
  <2>6. FileFresh'
    BY <2>1, <2>4 DEF IInv, Types, FileFresh, Step
  <2>7. CanFork'
    BY <2>1, <2>4 DEF IInv, Types, CanFork, Step
  <2>8. Owners'
    BY <2>1, <2>4 DEF IInv, Types, Owners, Step, Urls, HttpUrls, HttpUrl
  <2> QED
    BY <2>5, <2>6, <2>7, <2>8
<1> QED
  BY <1>1, <1>2

\* kill(pid, 0): the process a command finds alive is the broker, else it deletes the file.
LEMMA ProbeKeeps ==
  ASSUME IInv, NEW p \in Pids, Probe(p)
  PROVE  IInv'
<1>1. CASE Alive(seen[p])
  BY <1>1, RunningKeeps DEF Probe
<1>2. CASE ~Alive(seen[p])
  <2>1. /\ pc[p] = "probe" /\ pc' = [pc EXCEPT ![p] = "delete"]
        /\ UNCHANGED <<world, kind, args, seen, set, bound, pid_file>>
    BY <1>2 DEF Probe
  <2>2. Types'
    BY <2>1 DEF IInv, Types, Places
  <2>3. Configurations'
    BY <2>1 DEF IInv, Types, Configurations
  <2> SUFFICES ASSUME world.writable
               PROVE  (OneAtWork /\ FileFresh /\ CanFork /\ Owners)'
    BY <2>1, <2>2, <2>3 DEF IInv
  <2>4. Step(p)
    BY <2>1 DEF IInv, Types, Step, Alive, Unused
  <2>5. Alone(p)
    <3>1. ~Up(p)
      BY <1>2, <2>1 DEF IInv, FileFresh, Up
    <3>2. \A q \in Pids : Up(q) => pid_file = q /\ Alive(q)
      BY DEF IInv, FileFresh, Up, Alive
    <3> QED
      BY <1>2, <2>1, <2>4, <3>1, <3>2 DEF IInv, FileFresh, OneAtWork, Alone, Step
  <2>6. OneAtWork'
    BY <2>4, <2>5 DEF OneAtWork, Alone, Step, Alive
  <2>7. FileFresh'
    BY <2>1, <2>4 DEF IInv, Types, FileFresh, Step
  <2>8. CanFork'
    BY <2>1, <2>4 DEF IInv, Types, CanFork, Step
  <2>9. Owners'
    BY <2>1, <2>4 DEF IInv, Types, Owners, Step, Urls, HttpUrls, HttpUrl
  <2> QED
    BY <2>6, <2>7, <2>8, <2>9
<1> QED
  BY <1>1, <1>2

\* A configuration that is refused ends the process, an accepted one has all its keys.
LEMMA ConfiguredKeeps ==
  ASSUME IInv, NEW p \in Pids, Configured(p)
  PROVE  IInv'
<1>1. CASE Refused(args[p])
  BY <1>1, ExitKeeps DEF Configured, Alive
<1>2. CASE ~Refused(args[p])
  <2> DEFINE s == world.settings[args[p]]
             x == IF s.conf["daemon"] THEN "daemonize" ELSE "rest"
  <2>1. /\ pc[p] = "configure" /\ pc' = [pc EXCEPT ![p] = x] /\ set' = [set EXCEPT ![p] = s]
        /\ UNCHANGED <<world, kind, args, seen, bound, pid_file>>
    BY <1>2 DEF Configured
  <2>2. HasFields(s)
    BY <1>2, <2>1 DEF IInv, Configurations, GoodArgs
  <2> HIDE DEF s
  <2>3. Types'
    BY <2>1 DEF IInv, Types, Places
  <2>4. Configurations'
    BY <2>1, <2>2 DEF IInv, Types, Configurations
  <2> SUFFICES ASSUME world.writable
               PROVE  (OneAtWork /\ FileFresh /\ CanFork /\ Owners)'
    BY <2>1, <2>3, <2>4 DEF IInv
  <2>5. Step(p)
    BY <2>1 DEF IInv, Types, Step, Alive, Unused
  <2>6. Alone(p)
    BY <2>1 DEF IInv, OneAtWork
  <2>7. OneAtWork'
    BY <2>5, <2>6 DEF OneAtWork, Alone, Step, Alive
  <2>8. FileFresh'
    BY <2>1, <2>5 DEF IInv, Types, FileFresh, Step
  <2>9. CanFork'
    BY <2>1, <2>5 DEF IInv, Types, CanFork, Step
  <2>10. Owners'
    BY <2>1, <2>5 DEF IInv, Types, Owners, Step, Urls, HttpUrls, HttpUrl
  <2> QED
    BY <2>7, <2>8, <2>9, <2>10
<1> QED
  BY <1>1, <1>2

\* Without the pid file being writable NewPid may be any pid: then only types and
\* configurations matter.
LEMMA DaemonizeKeeps ==
  ASSUME IInv, NEW p \in Pids, Daemonize(p)
  PROVE  IInv'
<1>1. PICK n : n = NewPid
  OBVIOUS
<1>2. /\ pc[p] = "daemonize"
      /\ pc' = [pc EXCEPT ![p] = "exited", ![n] = "rest"]
      /\ set' = [set EXCEPT ![p] = Unset, ![n] = set[p]]
      /\ args' = [args EXCEPT ![p] = <<>>, ![n] = args[p]]
      /\ seen' = [seen EXCEPT ![p] = NoPid]
      /\ UNCHANGED <<world, kind, pid_file, bound>>
  BY <1>1 DEF Daemonize
<1>3. Types'
  <2>1. pc' \in [Pids -> Places]
    BY <1>2, Zenon DEF IInv, Types, Places
  <2>2. seen' \in [Pids -> Pids \cup {NoPid}] /\ DOMAIN set' = Pids
    BY <1>2 DEF IInv, Types
  <2>3. args' \in [Pids -> AllArgs \cup {<<>>}]
    BY <1>2, Zenon DEF IInv, Types
  <2> QED
    BY <1>2, <2>1, <2>2, <2>3 DEF IInv, Types
<1>4. Configurations'
  BY <1>2 DEF IInv, Types, Configurations
<1> SUFFICES ASSUME world.writable
             PROVE  (OneAtWork /\ FileFresh /\ CanFork /\ Owners)'
  BY <1>2, <1>3, <1>4 DEF IInv
<1>5. n \in Pids /\ pc[n] = "none" /\ n # p
  BY <1>1, <1>2, NewPidUnused DEF IInv, CanFork, Unused
<1>6. \A q \in Pids : (Alive(q))' => q = n
  BY <1>2, <1>5 DEF IInv, Types, OneAtWork, Alone, Alive
<1>7. pc'[n] = "rest"
  BY <1>2, <1>5 DEF IInv, Types
<1>8. OneAtWork'
  BY <1>6 DEF OneAtWork, Alone, Alive
<1>9. FileFresh' /\ CanFork'
  BY <1>6, <1>7 DEF FileFresh, CanFork, Alive
<1>10. DOMAIN bound = {}
  <2>1. \A u \in DOMAIN bound : bound[u] = p
    BY <1>2 DEF IInv, OneAtWork, Alone, Owners
  <2>2. kind[p] = "start"
    BY <1>2 DEF IInv, Owners
  <2>3. \A u \in DOMAIN bound : kind[bound[u]] = "stop" \/ pc[bound[u]] # "daemonize"
    BY DEF IInv, Owners
  <2>4. \A u \in DOMAIN bound : FALSE
    BY <1>2, <2>1, <2>2, <2>3
  <2> QED
    BY <2>4, Zenon
<1>11. DOMAIN bound' = {}
  BY <1>2, <1>10, Zenon
<1>12. \A q \in Pids : pc'[q] \notin {"configure", "daemonize", "store", "listen", "run"}
  BY <1>6, <1>7 DEF Alive
<1>13. Owners'
  BY <1>11, <1>12, Zenon DEF Owners
<1> QED
  BY <1>8, <1>9, <1>13

\* start_rest_server fills in a name and a password: not what the server listens on.
LEMMA HttpConfUrls ==
  ASSUME NEW s, HasFields(s), NEW t, t = [s EXCEPT !.conf = set_http_server_conf(@)]
  PROVE  HasFields(t) /\ HttpUrls(t) = HttpUrls(s)
<1>1. t.conf = set_http_server_conf(s.conf) /\ DOMAIN t = DOMAIN s
  BY DEF HasFields
<1>2. DOMAIN t.conf = DOMAIN s.conf
  BY <1>1 DEF set_http_server_conf
<1>3. {"http_server.enable", "http_server.port"} \subseteq DOMAIN s.conf
  BY DEF HasFields, Keys, FileKeys, BoolKeys, IntKeys
<1>4. /\ t.conf["http_server.enable"] = s.conf["http_server.enable"]
      /\ t.conf["http_server.port"] = s.conf["http_server.port"]
  BY <1>1, <1>3 DEF set_http_server_conf
<1> QED
  BY <1>1, <1>2, <1>4 DEF HasFields, HttpUrls, HttpUrl

\* The only process there is gets every address it asks for.
LEMMA BindGets ==
  ASSUME NEW p \in Pids, NEW urls, Alone(p), Owners, bound' = Bind(p, urls)
  PROVE  /\ DOMAIN bound' = DOMAIN bound \cup urls
         /\ \A u \in DOMAIN bound' : bound'[u] = p
BY DEF Alone, Owners, Bind

\* start_rest_server: a process alone at work finds no address taken.
LEMMA RestKeeps ==
  ASSUME IInv, NEW p \in Pids, start_rest_server(p)
  PROVE  IInv'
<1> DEFINE on == set[p].conf["http_server.enable"]
<1>1. pc[p] = "rest" /\ Alive(p)
  BY DEF start_rest_server, Alive
<1>2. CASE on /\ HttpUrl(set[p]) \in DOMAIN bound
  BY <1>1, <1>2, ExitKeeps DEF start_rest_server
<1>3. CASE ~(on /\ HttpUrl(set[p]) \in DOMAIN bound)
  <2> DEFINE s == IF on THEN [set[p] EXCEPT !.conf = set_http_server_conf(@)] ELSE set[p]
  <2>1. /\ pc' = [pc EXCEPT ![p] = "store"]
        /\ UNCHANGED <<world, kind, args, seen, pid_file>>
    BY <1>3 DEF start_rest_server
  <2>2. /\ DOMAIN set' = Pids /\ set'[p] = s
        /\ \A q \in Pids : q # p => set'[q] = set[q]
    BY <1>3 DEF start_rest_server, IInv, Types
  <2>3. HasFields(set[p])
    BY <1>1 DEF IInv, Configurations
  <2>4. HasFields(s) /\ HttpUrls(s) = HttpUrls(set[p])
    BY <2>3, HttpConfUrls
  <2>5. (bound' = bound /\ ~on) \/ bound' = Bind(p, HttpUrls(set[p]))
    BY <1>3 DEF start_rest_server
  <2>6. HttpUrls(set[p]) = {} \/ on
    BY DEF HttpUrls
  <2> HIDE DEF s, on
  <2>7. Types'
    BY <2>1, <2>2 DEF IInv, Types, Places
  <2>8. Configurations'
    BY <2>1, <2>2, <2>4 DEF IInv, Types, Configurations
  <2> SUFFICES ASSUME world.writable
               PROVE  (OneAtWork /\ FileFresh /\ CanFork /\ Owners)'
    BY <2>1, <2>7, <2>8 DEF IInv
  <2>9. Step(p)
    BY <1>1, <2>1, <2>2 DEF IInv, Types, Step, Alive, Unused
  <2>10. Alone(p) /\ \A q \in Pids : (Alive(q))' => q = p
    BY <1>1, <2>9 DEF IInv, OneAtWork, Alone, Step
  <2>11. pc'[p] = "store" /\ set'[p] = s
    BY <2>1, <2>2 DEF IInv, Types
  <2>12. OneAtWork'
    BY <2>10 DEF OneAtWork, Alone, Alive
  <2>13. FileFresh' /\ CanFork'
    BY <2>10, <2>11 DEF FileFresh, CanFork, Alive
  <2>14. /\ \A u \in DOMAIN bound' : bound'[u] = p
         /\ HttpUrls(s) \subseteq DOMAIN bound'
    <3>1. CASE bound' = Bind(p, HttpUrls(set[p]))
      <4>1. Owners
        BY DEF IInv
      <4>2. /\ DOMAIN bound' = DOMAIN bound \cup HttpUrls(set[p])
            /\ \A u \in DOMAIN bound' : bound'[u] = p
        BY <2>10, <3>1, <4>1, BindGets, Zenon
      <4> QED
        BY <2>4, <4>2
    <3>2. CASE bound' = bound /\ ~on
      BY <2>4, <2>6, <2>10, <3>2 DEF IInv, Owners, Alone
    <3> QED
      BY <2>5, <3>1, <3>2
  <2>15. HttpUrls(s) = (HttpUrls(set[p]))'
    BY <2>11 DEF HttpUrls, HttpUrl
  <2>16. Owners'
    BY <2>9, <2>10, <2>11, <2>14, <2>15 DEF Owners, Alive, Step
  <2> QED
    BY <2>12, <2>13, <2>16
<1> QED
  BY <1>2, <1>3

\* store_pid: from here on the file names the broker.
LEMMA StoreKeeps ==
  ASSUME IInv, NEW p \in Pids, store_pid(p) \/ StoreFails(p)
  PROVE  IInv'
<1>1. /\ pc[p] = "store" /\ pc' = [pc EXCEPT ![p] = "listen"]
      /\ pid_file' = IF world.writable THEN p ELSE pid_file
      /\ UNCHANGED <<world, kind, args, seen, set, bound>>
  BY DEF store_pid, StoreFails
<1>2. Types'
  BY <1>1 DEF IInv, Types, Places
<1>3. Configurations'
  BY <1>1 DEF IInv, Types, Configurations
<1> SUFFICES ASSUME world.writable
             PROVE  (OneAtWork /\ FileFresh /\ CanFork /\ Owners)'
  BY <1>1, <1>2, <1>3 DEF IInv
<1>4. Step(p)
  BY <1>1 DEF IInv, Types, Step, Alive, Unused
<1>5. \A q \in Pids : (Alive(q))' => q = p
  BY <1>1, <1>4 DEF IInv, OneAtWork, Alone, Step
<1>6. pc'[p] = "listen"
  BY <1>1 DEF IInv, Types
<1>7. OneAtWork'
  BY <1>5 DEF OneAtWork, Alone, Alive
<1>8. FileFresh' /\ CanFork'
  BY <1>1, <1>5, <1>6 DEF FileFresh, CanFork, Alive
<1>9. Owners'
  BY <1>1, <1>4, <1>6 DEF IInv, Owners, Step, Urls, HttpUrls, HttpUrl
<1> QED
  BY <1>7, <1>8, <1>9

\* The addresses of the broker are bound after its pid is stored.
LEMMA ListenKeeps ==
  ASSUME IInv, NEW p \in Pids, Listen(p)
  PROVE  IInv'
<1> DEFINE s == [set[p] EXCEPT !.auths = world.users[args[p]]]
<1>1. /\ pc[p] = "listen" /\ pc' = [pc EXCEPT ![p] = "run"]
      /\ bound' = Bind(p, Urls(set[p]))
      /\ UNCHANGED <<world, kind, args, seen, pid_file>>
  BY DEF Listen
<1>2. set' = [set EXCEPT ![p] = s]
  BY DEF Listen, IInv, Types
<1>3. HasFields(set[p])
  BY <1>1 DEF IInv, Configurations
<1>4. HasFields(s) /\ s.conf = set[p].conf
  BY <1>3 DEF HasFields
<1> HIDE DEF s
<1>5. Types'
  BY <1>1, <1>2 DEF IInv, Types, Places
<1>6. Configurations'
  BY <1>1, <1>2, <1>4 DEF IInv, Types, Configurations
<1> SUFFICES ASSUME world.writable
             PROVE  (OneAtWork /\ FileFresh /\ CanFork /\ Owners)'
  BY <1>1, <1>5, <1>6 DEF IInv
<1>7. Step(p)
  BY <1>1, <1>2 DEF IInv, Types, Step, Alive, Unused
<1>8. Alone(p) /\ \A q \in Pids : (Alive(q))' => q = p
  BY <1>1, <1>7 DEF IInv, OneAtWork, Alone, Step
<1>9. pc'[p] = "run" /\ set'[p] = s
  BY <1>1, <1>2 DEF IInv, Types
<1>10. OneAtWork'
  BY <1>8, <1>9 DEF OneAtWork, Alone, Alive
<1>11. FileFresh' /\ CanFork'
  BY <1>1, <1>8, <1>9 DEF IInv, FileFresh, CanFork, Alive
<1>12. (Urls(set[p]))' = Urls(set[p]) /\ (HttpUrls(set[p]))' = HttpUrls(set[p])
  BY <1>4, <1>9 DEF Urls, HttpUrls, HttpUrl
<1>13. /\ DOMAIN bound' = DOMAIN bound \cup Urls(set[p])
       /\ \A u \in DOMAIN bound' : bound'[u] = p
  <2>1. Owners
    BY DEF IInv
  <2> QED
    BY <1>1, <1>8, <2>1, BindGets, Zenon
<1>14. HttpUrls(set[p]) \subseteq DOMAIN bound
  BY <1>1 DEF IInv, Owners
<1>15. Owners'
  BY <1>7, <1>8, <1>9, <1>12, <1>13, <1>14 DEF Owners, Alive, Step
<1> QED
  BY <1>10, <1>11, <1>15

\* post_ctrl: the broker that runs takes the way of the command stop.
LEMMA ControlKeeps ==
  ASSUME IInv, NEW p \in Pids, NEW r \in Requests, post_ctrl(p, r)
  PROVE  IInv'
<1>1. /\ pc[p] = "run" /\ pc' = [pc EXCEPT ![p] = "read"] /\ kind' = [kind EXCEPT ![p] = "stop"]
      /\ UNCHANGED <<world, args, seen, set, pid_file, bound>>
  BY DEF post_ctrl
<1>2. Types'
  BY <1>1 DEF IInv, Types, Places, Kinds
<1>3. Configurations'
  BY <1>1 DEF IInv, Types, Configurations
<1> SUFFICES ASSUME world.writable
             PROVE  (OneAtWork /\ FileFresh /\ CanFork /\ Owners)'
  BY <1>1, <1>2, <1>3 DEF IInv
<1>4. Step(p)
  BY <1>1 DEF IInv, Types, Step, Alive, Unused
<1>5. pc'[p] = "read" /\ kind'[p] = "stop"
  BY <1>1 DEF IInv, Types
<1>6. OneAtWork'
  BY <1>1, <1>4, <1>5 DEF IInv, OneAtWork, FileFresh, Up, Alone, Step
<1>7. FileFresh'
  BY <1>1, <1>4, <1>5 DEF IInv, FileFresh, Step
<1>8. CanFork'
  BY <1>4, <1>5 DEF IInv, CanFork, Step
<1>9. Owners'
  BY <1>1, <1>4, <1>5 DEF IInv, Owners, Step, Urls, HttpUrls, HttpUrl
<1> QED
  BY <1>6, <1>7, <1>8, <1>9

\* Nothing changes.
LEMMA StutterKeeps ==
  ASSUME IInv, UNCHANGED <<world, kind, args, pc, seen, set, pid_file, bound>>
  PROVE  IInv'
<1>1. Types' /\ Configurations'
  BY DEF IInv, Types, Configurations
<1>2. Unused' = Unused
  BY DEF Unused
<1>3. world.writable => OneAtWork' /\ FileFresh'
  BY DEF IInv, OneAtWork, FileFresh, Up, Alone, Alive
<1>4. world.writable => CanFork' /\ Owners'
  BY <1>2 DEF IInv, CanFork, Owners, Alive, Urls, HttpUrls, HttpUrl
<1> QED
  BY <1>1, <1>3, <1>4 DEF IInv

\* Every step keeps the invariant, one case per action.
LEMMA NextIInv ==
  ASSUME Allow = {}, IInv, [Next]_vars
  PROVE  IInv'
<1>1. ASSUME NEW k \in {"start", "stop", "restart"}, NEW words \in Options, Issue(k, words)
      PROVE  IInv'
  BY <1>1, IssueKeeps
<1>2. ASSUME NEW p \in Pids, ProcessStep(p)
      PROVE  IInv'
  <2>1. CASE Read(p)
    BY <2>1, ReadKeeps
  <2>2. CASE Probe(p)
    BY <2>2, ProbeKeeps
  <2>3. CASE Delete(p)
    BY <2>3, NotRunningKeeps DEF Delete
  <2>4. CASE Return(p) \/ DaemonizeFails(p) \/ Die(p)
    BY <2>4, ExitKeeps DEF Return, DaemonizeFails, Die, Alive
  <2>5. CASE Configured(p)
    BY <2>5, ConfiguredKeeps
  <2>6. CASE Daemonize(p)
    BY <2>6, DaemonizeKeeps
  <2>7. CASE start_rest_server(p)
    BY <2>7, RestKeeps
  <2>8. CASE store_pid(p) \/ StoreFails(p)
    BY <2>8, StoreKeeps
  <2>9. CASE Listen(p)
    BY <2>9, ListenKeeps
  <2> QED
    BY <1>2, <2>1, <2>2, <2>3, <2>4, <2>5, <2>6, <2>7, <2>8, <2>9 DEF ProcessStep
<1>3. ASSUME NEW p \in Pids, Crash(p)
      PROVE  IInv'
  BY <1>3, ExitKeeps DEF Crash, Alive
<1>4. ASSUME NEW p \in Pids, NEW accepted \in BOOLEAN, Connected(p, accepted)
      PROVE  IInv'
  BY <1>4, StutterKeeps DEF Connected
<1>5. ASSUME NEW p \in Pids, NEW r \in Requests, post_ctrl(p, r)
      PROVE  IInv'
  BY <1>5, ControlKeeps
<1>6. CASE UNCHANGED vars
  BY <1>6, StutterKeeps DEF vars
<1> QED
  BY <1>1, <1>2, <1>3, <1>4, <1>5, <1>6 DEF Next

\* A broker that runs is the one the pid file names and listens on all its
\* addresses, for any number of commands, crashes, signals, failing forks and HTTP
\* requests, when each command is given once the one before has ended or serves
\* (broker_start, broker_stop, broker_restart, post_ctrl).
THEOREM BrokerServes ==
  ASSUME Allow = {}
  PROVE  Spec => []Serving
<1>1. Init => IInv
  BY InitIInv
<1>2. IInv /\ [Next]_vars => IInv'
  BY NextIInv
<1>3. IInv => Serving
  BY DEF IInv, FileFresh, Owners, Serving
<1> QED
  BY <1>1, <1>2, <1>3, PTL DEF Spec
============================================================================
