------------------------------- MODULE Config -------------------------------
(***************************************************************************)
(* Config (config.cpp, config.h): the command line, the configuration      *)
(* file, read line by line, and the look-up of hosts.  getopt and the      *)
(* extractions of istringstream are external.  An extraction that finds    *)
(* nothing but the end of the line leaves its variable as it was, and the  *)
(* port is not initialized; one that finds a number too large gives the    *)
(* largest port, and fails.                                                *)
(***************************************************************************)
EXTENDS Integers, Sequences

CONSTANTS Options,    \* options of a command line: opt, num and str
          Lines,      \* lines of a file: shape, id, host, port
          MaxPort,    \* the largest uint16_t, cut down
          NoHost,     \* the empty host name
          MaxOptions, \* bound: options of a command line
          MaxLines    \* bound: lines of a file

Ports == 0..MaxPort

VARIABLES phase,   \* "options", "file", "done" or "failed"
          cfg,     \* the settings
          given,   \* the options handled so far
          hosts,   \* _hosts
          seen     \* the lines read so far

vars == <<phase, cfg, given, hosts, seen>>

\* The constructor; 12345 is cut down with the ports.
Defaults == [verbosity |-> 0, cfgFile |-> "config.cfg", logFile |-> "", port |-> 5 % (MaxPort + 1),
             rmqStr |-> "amqp://localhost/", rmqQueueName |-> "proxyCtl",
             useSyslog |-> FALSE, useConsole |-> FALSE]

Init == /\ phase = "options" /\ cfg = Defaults
        /\ given = <<>> /\ hosts = <<>> /\ seen = <<>>

-----------------------------------------------------------------------------
(* parseCmdLine.                                                           *)

\* _port = atoi(...), a uint16_t.
asPort(n) == n % (MaxPort + 1)

\* Mutant: -l sets the configuration file.
SetWrong(c, o) ==
  CASE o.opt = "v" -> [c EXCEPT !.verbosity = o.num]
    [] o.opt = "c" -> [c EXCEPT !.cfgFile = o.str]
    [] o.opt = "l" -> [c EXCEPT !.cfgFile = o.str]
    [] o.opt = "p" -> [c EXCEPT !.port = asPort(o.num)]
    [] o.opt = "r" -> [c EXCEPT !.rmqStr = o.str]
    [] o.opt = "q" -> [c EXCEPT !.rmqQueueName = o.str]
    [] o.opt = "s" -> [c EXCEPT !.useSyslog = TRUE]
    [] o.opt = "o" -> [c EXCEPT !.useConsole = TRUE]
    [] OTHER       -> c

set(c, o) ==
  CASE o.opt = "v" -> [c EXCEPT !.verbosity = o.num]
    [] o.opt = "c" -> [c EXCEPT !.cfgFile = o.str]
    [] o.opt = "l" -> [c EXCEPT !.logFile = o.str]
    [] o.opt = "p" -> [c EXCEPT !.port = asPort(o.num)]
    [] o.opt = "r" -> [c EXCEPT !.rmqStr = o.str]
    [] o.opt = "q" -> [c EXCEPT !.rmqQueueName = o.str]
    [] o.opt = "s" -> [c EXCEPT !.useSyslog = TRUE]
    [] o.opt = "o" -> [c EXCEPT !.useConsole = TRUE]
    [] OTHER       -> c

\* -h and an unknown option end the program.
parseCmdLine(o) ==
  /\ phase = "options" /\ Len(given) < MaxOptions
  /\ given' = Append(given, o)
  /\ IF o.opt \in {"h", "?"} THEN phase' = "failed" /\ UNCHANGED cfg
     ELSE cfg' = set(cfg, o) /\ UNCHANGED phase
  /\ UNCHANGED <<hosts, seen>>

\* The end of the options; the file is opened, or not.
Open == /\ phase = "options"
        /\ phase' \in {"file", "failed"}
        /\ UNCHANGED <<cfg, given, hosts, seen>>

-----------------------------------------------------------------------------
(* read, one line at a time.                                               *)

\* is >> port and the test after it: the ports that may be stored, none if the line
\* is refused.
readPort(p) == CASE p.form = "number"  -> {p.value}
                 [] p.form = "missing" -> Ports
                 [] p.form = "large"   -> IF p.last THEN {MaxPort} ELSE {}
                 [] p.form = "text"    -> {}

Refused(l) == l.shape \in {"noid", "nohost"} \/ (l.shape = "full" /\ readPort(l.port) = {})

\* Mutant: the first line of an id stays.
StoreFirst(id, h) == hosts' = [i \in DOMAIN hosts \cup {id} |->
                                 IF i \in DOMAIN hosts THEN hosts[i] ELSE h]

Store(id, h) == hosts' = [i \in DOMAIN hosts \cup {id} |-> IF i = id THEN h ELSE hosts[i]]

read(l) == /\ phase = "file" /\ Len(seen) < MaxLines
           /\ seen' = Append(seen, l)
           /\ IF Refused(l) THEN phase' = "failed" /\ UNCHANGED hosts
              ELSE /\ UNCHANGED phase
                   /\ IF l.shape = "empty" THEN UNCHANGED hosts
                      ELSE \E p \in readPort(l.port) : Store(l.id, <<l.host, p>>)
           /\ UNCHANGED <<cfg, given>>

EndOfFile == /\ phase = "file" /\ phase' = "done"
             /\ UNCHANGED <<cfg, given, hosts, seen>>

getHostById(id) == IF id \in DOMAIN hosts THEN hosts[id] ELSE <<NoHost, 0>>

Next == \/ \E o \in Options : parseCmdLine(o)
        \/ Open \/ EndOfFile
        \/ \E l \in Lines : read(l)

Spec == Init /\ [][Next]_vars

-----------------------------------------------------------------------------
\* The type of the state.
TypeOK == /\ phase \in {"options", "file", "done", "failed"}
          /\ cfg.port \in Ports /\ cfg.verbosity \in Int
          /\ \A i \in DOMAIN hosts : hosts[i][2] \in Ports

\* Each setting is what its option said last, or the default, in whatever order and
\* however often the options come (config.cpp:61-117).
LastOptionWins ==
  LET last(c)  == {i \in 1..Len(given) : /\ given[i].opt = c
                                         /\ \A j \in (i + 1)..Len(given) : given[j].opt # c}
      str(c, d) == IF last(c) = {} THEN d ELSE given[CHOOSE i \in last(c) : TRUE].str
      num(c, d) == IF last(c) = {} THEN d ELSE given[CHOOSE i \in last(c) : TRUE].num
  IN  /\ cfg.cfgFile = str("c", Defaults.cfgFile) /\ cfg.logFile = str("l", Defaults.logFile)
      /\ cfg.rmqStr = str("r", Defaults.rmqStr)
      /\ cfg.rmqQueueName = str("q", Defaults.rmqQueueName)
      /\ cfg.verbosity = num("v", Defaults.verbosity)
      /\ cfg.port = asPort(num("p", Defaults.port))
      /\ cfg.useSyslog = (last("s") # {}) /\ cfg.useConsole = (last("o") # {})

Stored(id) == {i \in 1..Len(seen) : seen[i].shape = "full" /\ ~Refused(seen[i]) /\ seen[i].id = id}

Last(S) == CHOOSE i \in S : \A j \in S : j <= i

\* A look-up gives the host of the last line with the id and its port, if the line
\* had one, and the empty host for an id no line had (config.cpp:23-59, 120-132).
LastLineWins == \A id \in {l.id : l \in Lines} :
  IF Stored(id) = {} THEN getHostById(id)[1] = NoHost
  ELSE LET l == seen[Last(Stored(id))]
       IN  /\ getHostById(id)[1] = l.host
           /\ l.port.form = "number" => getHostById(id)[2] = l.port.value

=============================================================================
