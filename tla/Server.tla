------------------------------- MODULE Server -------------------------------
(***************************************************************************)
(* judged as a daemon: main() up to the loop of server_run_tcp() or        *)
(* server_run_unixsock(), and that loop - accept, one read, parse_task and *)
(* judge(), reply, close - against clients that send at once, in parts or  *)
(* not at all, and may leave.  Instances are processes, each started at    *)
(* most once: a restart is the start of another, and nothing keeps two     *)
(* from running at the same time.  No socket is closed on exec: a program  *)
(* an instance has started keeps what was open, and may outlive it.        *)
(***************************************************************************)
EXTENDS TaskParser

CONSTANTS
  Instances, Clients,
  Task,       \* Task[c]: what client c asks for, a task_t
  Fates,      \* Fates[c]: what may become of that task, see Fate
  Cuts,       \* Cuts[c]: the lengths at which c, or TCP, may cut its request
  Astray,     \* the verdicts on a text that the parser runs away on
  Exists,     \* the directories that exist
  Home,       \* the one judged is started in
  BufSize     \* TASK_JSON_BUF_SIZE, in tokens

None == "none"
Backlog == 1   \* BACKLOG: the kernel queues one connection more

\* Whether the source can be opened and its length, whether the compiler succeeds, how
\* run() ends - an error, a verdict, no verdict, or only by the limit of the real time -, what
\* compare() says, and the usage that is recorded.
Fate == [source : BOOLEAN, length : Nat, compiles : BOOLEAN,
         run : {"failed", "quiet", "endless", "TLE", "OLE", "MLE", "RE"},
         compared : {"AC", "PE", "WA", "SE"}, usage : Nat]

Verdicts == {"AC", "CE", "RE", "TLE", "MLE", "OLE", "PE", "WA", "SE"}
Reply == [result : Verdicts, length : Nat, usage : Nat]
NoReply == [result |-> None, length |-> 0, usage |-> 0]
Unjudged == [source |-> FALSE, length |-> 0, compiles |-> FALSE, run |-> "failed",
             compared |-> "SE", usage |-> 0]

ASSUME ServerAssumption ==
  /\ None \notin Instances \cup Clients
  /\ Fates \in [Clients -> SUBSET Fate]
  /\ Home \in Exists /\ Exists \subseteq Seq(Tokens)
  /\ Astray \subseteq Verdicts /\ BufSize \in Nat \ {0}

VARIABLES
  transport,  \* "tcp" or "unix", from the arguments
  fate,       \* fate[c]: what has become of the task of c, once it is judged
  pidfile,    \* whose pid is in koj.pid
  endpoint,   \* whose socket a connecting client reaches: the port, or the socket file
  pc,         \* where instance s stands
  backlog,    \* backlog[s]: the connections the kernel holds for accept
  conn,       \* conn[s]: the client of client_fd
  buf,        \* task_buf: <<c, n>> stands for the first n tokens of the text of c, which cover
              \* those of the pairs after it; every read of a text starts at its front
  result,     \* *result
  cwd,        \* the working directory
  phase,      \* phase[c]: the state of the connection of c
  left,       \* the clients that have closed their end
  sent, read, \* how much of its text c has sent, and the server read
  answer,     \* what c has been sent
  strays,     \* <<s, c>>: of what s started for c something runs that nobody waits for
  overlapped  \* history: the instances that have run beside another

kernelVars == <<pc, endpoint, phase, conn, backlog>>
judgeVars == <<buf, result, cwd>>
clientVars == <<left, sent, read, answer>>
otherVars == <<transport, fate, pidfile, strays, overlapped>>
vars == <<kernelVars, judgeVars, clientVars, otherVars>>

Texts == [c \in Clients |-> Text(Task[c])]

ASSUME TextAssumption ==
  /\ Texts \in [Clients -> Seq(Tokens)]
  /\ \A c \in Clients : Cuts[c] \subseteq 1..Len(Texts[c])

\* What a buffer may hold: the request it was sent last, and after it what that does not cover
\* of an earlier one.
Lengths(c) == {n \in Cuts[c] \cup {Len(Texts[c]), BufSize} : n <= Len(Texts[c]) /\ n <= BufSize}
Parts == UNION {{c} \X Lengths(c) : c \in Clients}
Buffers == {<<p>> : p \in Parts} \cup (Parts \X Parts)

\* The tokens in a buffer: the front of one text, and what of another is longer.
Content(b) ==
  LET front(i) == SubSeq(Texts[b[i][1]], 1, b[i][2])
  IN IF Len(b) = 1 THEN front(1) ELSE front(1) \o SubSeq(front(2), Len(front(1)) + 1, Len(front(2)))

\* What parse_task reads in them: a set of pairs, of which TLC computes each once.
Readings == {<<b, Scan(Content(b))>> : b \in Buffers}
Reading(b) == (CHOOSE r \in Readings : r[1] = b)[2]
Derails(b) == Reading(b).at = Lost
Parsed(b) == TaskOf(Reading(b).vals)

Starting == {"create_pid", "unlink", "bind"}
Serving == {"accept", "recv", "business", "run", "reply", "close"}
Alive(s) == pc[s] \in Starting \cup Serving

\* The clients that something runs for which s, in the world, has started and does not wait for.
StraysOf(s, world) == {c \in Clients : <<s, c>> \in world}

\* The socket of s accepts connections, be it for a program that has inherited it.
Listening(s) ==
  \/ pc[s] \in Serving
  \/ pc[s] = "ended" /\ StraysOf(s, strays) # {}

TypeOK ==
  /\ transport \in {"tcp", "unix"} /\ fate \in [Clients -> Fate]
  /\ pidfile \in Instances \cup {None} /\ endpoint \in Instances \cup {None}
  /\ pc \in [Instances -> Starting \cup Serving \cup {"off", "ended"}]
  /\ backlog \in [Instances -> Seq(Clients)] /\ conn \in [Instances -> Clients \cup {None}]
  /\ buf \in [Instances -> Buffers \cup {<<>>}]
  /\ result \in [Instances -> Reply] /\ cwd \in [Instances -> Exists]
  /\ phase \in [Clients -> {"idle", "queued", "held", "closed", "reset"}]
  /\ left \in SUBSET Clients /\ overlapped \in SUBSET Instances
  /\ strays \in SUBSET (Instances \X Clients)
  /\ sent \in [Clients -> Nat] /\ read \in [Clients -> 0..BufSize]
  /\ answer \in [Clients -> Reply \cup {NoReply}]

\* init_result
Fresh == [result |-> "SE", length |-> 0, usage |-> 0]

\* The memory of a process that has just been started.
Blank(s) ==
  /\ buf' = [buf EXCEPT ![s] = <<>>]
  /\ result' = [result EXCEPT ![s] = Fresh]
  /\ cwd' = [cwd EXCEPT ![s] = Home]

Init ==
  /\ transport \in {"tcp", "unix"}
  /\ fate = [c \in Clients |-> Unjudged]
  /\ pidfile = None /\ endpoint = None /\ strays = {} /\ overlapped = {}
  /\ pc = [s \in Instances |-> "off"] /\ conn = [s \in Instances |-> None]
  /\ backlog = [s \in Instances |-> <<>>] /\ buf = [s \in Instances |-> <<>>]
  /\ result = [s \in Instances |-> Fresh] /\ cwd = [s \in Instances |-> Home]
  /\ phase = [c \in Clients |-> "idle"] /\ left = {}
  /\ sent = [c \in Clients |-> 0] /\ read = [c \in Clients |-> 0]
  /\ answer = [c \in Clients |-> NoReply]

-----------------------------------------------------------------------------
Move(s, from, to) == pc[s] = from /\ pc' = [pc EXCEPT ![s] = to]

\* A step of the process that concerns nobody else.
Go(s, from, to) == Move(s, from, to) /\ UNCHANGED <<endpoint, phase, conn, backlog>>

\* What the kernel does when, of the processes that hold the sockets of s, only the programs
\* of the clients in kept are left: each of them has the connection of its own client, and the
\* listening socket with the port and the backlog is theirs together.  The socket file stays.
Release(s, kept) ==
  /\ endpoint' = IF transport = "tcp" /\ endpoint = s /\ kept = {} THEN None ELSE endpoint
  /\ phase' = [c \in Clients |->
                 IF \/ c = conn[s] /\ c \notin kept
                    \/ c \in Range(backlog[s]) /\ kept = {}
                 THEN "reset" ELSE phase[c]]
  /\ conn' = [conn EXCEPT ![s] = IF @ \in kept THEN @ ELSE None]
  /\ backlog' = [backlog EXCEPT ![s] = IF kept = {} THEN <<>> ELSE @]

\* The process ends: its memory is gone, and nobody ends what it has started.
Leaving(s, world) ==
  /\ Blank(s) /\ UNCHANGED <<clientVars, transport, fate, pidfile, overlapped>>
  /\ pc' = [pc EXCEPT ![s] = "ended"]
  /\ strays' = world /\ Release(s, StraysOf(s, world))

End(s) == Leaving(s, strays)

----------------------------- (* start-up *) -------------------------------
\* main: arguments and log.  An instance that only prints its usage, or runs the local
\* test, is not started.
Launch(s) ==
  /\ Go(s, "off", "create_pid")
  /\ LET others == {t \in Instances : Alive(t)}
     IN overlapped' = IF others = {} THEN overlapped ELSE overlapped \cup others \cup {s}
  /\ UNCHANGED <<judgeVars, clientVars, transport, fate, pidfile, strays>>

\* A pid file that is there is overwritten, whoever it names; then server_start, and a socket
\* with its options.
CreatePid(s) ==
  /\ Go(s, "create_pid", IF transport = "unix" THEN "unlink" ELSE "bind")
  /\ pidfile' = s
  /\ UNCHANGED <<judgeVars, clientVars, transport, fate, strays, overlapped>>

\* Mutant: the socket file is left where it is.
UnlinkNot(s) == Go(s, "unlink", "bind") /\ UNCHANGED <<judgeVars, clientVars, otherVars>>

\* unlink(sock_fn), whoever listens there.
Unlink(s) ==
  /\ Move(s, "unlink", "bind")
  /\ endpoint' = None
  /\ UNCHANGED <<phase, conn, backlog, judgeVars, clientVars, otherVars>>

\* bind, of a file that is not there or a port that nobody listens on (SO_REUSEADDR), listen,
\* and the buffers of the loop.
Bind(s) ==
  /\ Move(s, "bind", "accept")
  /\ endpoint = None /\ endpoint' = s
  /\ UNCHANGED <<phase, conn, backlog, judgeVars, clientVars, otherVars>>

\* create_pid fails, or SERVER_EXIT on a failure of socket, bind, listen or malloc.
StartFailed(s) == pc[s] \in Starting /\ End(s)

----------------------------- (* the loop *) -------------------------------
\* A connection that waits; an accept that fails is logged, and called again.
Accept(s) ==
  /\ backlog[s] # <<>>
  /\ Move(s, "accept", "recv")
  /\ conn' = [conn EXCEPT ![s] = Head(backlog[s])]
  /\ backlog' = [backlog EXCEPT ![s] = Tail(@)]
  /\ phase' = [phase EXCEPT ![Head(backlog[s])] = "held"]
  /\ UNCHANGED <<endpoint, judgeVars, clientVars, otherVars>>

\* What one recv takes: all that has arrived, up to the size of the buffer.
Arrived(c) == IF sent[c] < BufSize THEN sent[c] ELSE BufSize

Taken(c) == read' = [read EXCEPT ![c] = Arrived(c)]

\* Mutant: the count of recv is not limited.
RecvAll(s) ==
  /\ Go(s, "recv", "business") /\ sent[conn[s]] > 0
  /\ buf' = [buf EXCEPT ![s] = <<<<conn[s], sent[conn[s]]>>>>]
  /\ read' = [read EXCEPT ![conn[s]] = sent[conn[s]]]
  /\ UNCHANGED <<result, cwd, left, sent, answer, otherVars>>

\* Mutant: the buffer is not cleared, and keeps the tail of an earlier, longer request.
RecvOver(s) ==
  /\ Go(s, "recv", "business") /\ sent[conn[s]] > 0
  /\ buf' = [buf EXCEPT ![s] = <<<<conn[s], Arrived(conn[s])>>>> \o @]
  /\ Taken(conn[s])
  /\ UNCHANGED <<result, cwd, left, sent, answer, otherVars>>

\* memset, and recv of what has arrived.  Without data and without an end of file it waits,
\* for ever: the options of the server socket are given four bytes where a timeval is due.
Recv(s) ==
  /\ Go(s, "recv", "business") /\ sent[conn[s]] > 0
  /\ buf' = [buf EXCEPT ![s] = <<<<conn[s], Arrived(conn[s])>>>>]
  /\ Taken(conn[s])
  /\ UNCHANGED <<result, cwd, left, sent, answer, otherVars>>

\* Mutant: an empty read is tried again.
RecvAgain(s) ==
  /\ Go(s, "recv", "recv") /\ sent[conn[s]] = 0 /\ conn[s] \in left
  /\ buf' = [buf EXCEPT ![s] = <<>>]
  /\ UNCHANGED <<result, cwd, clientVars, otherVars>>

\* "bad data on recv()": the client is gone and has sent nothing.
BadData(s) ==
  /\ Go(s, "recv", "close") /\ sent[conn[s]] = 0 /\ conn[s] \in left
  /\ buf' = [buf EXCEPT ![s] = <<>>]
  /\ UNCHANGED <<result, cwd, clientVars, otherVars>>

-------------------------- (* judge, as functions *) -------------------------
\* chdir: where the task t is judged by a process in directory d.
Resolve(d, t) ==
  LET w == t.paths[1]
  IN IF w = <<>> \/ w[1] = "/" THEN w ELSE IF w = <<".">> THEN d ELSE d \o w

HasSource(t) == t.paths[2] # <<>>
HasCommand(t) == t.paths[3] # <<>>

\* compile: the length of the source, if there is one, and the command, if there is one,
\* which timeout ends after three seconds.
Compiled(t, f, r) ==
  IF HasSource(t) /\ ~f.source THEN [code |-> "BAD_SRC_FILE", res |-> r]
  ELSE LET sized == IF HasSource(t) THEN [r EXCEPT !.length = f.length] ELSE r
       IN IF HasCommand(t) /\ ~f.compiles
            THEN [code |-> "COMPILE_FAILED", res |-> [sized EXCEPT !.result = "CE"]]
            ELSE [code |-> "SUCCESS", res |-> sized]

\* run, as Runner has it.
Ran(f, r) ==
  LET used == [r EXCEPT !.usage = f.usage]
  IN CASE f.run = "failed"  -> [code |-> "FAILED", res |-> used]
       [] f.run = "quiet"   -> [code |-> "SUCCESS", res |-> used]
       [] f.run = "endless" -> [code |-> "SUCCESS", res |-> [used EXCEPT !.result = "TLE"]]
       [] OTHER             -> [code |-> "SUCCESS", res |-> [used EXCEPT !.result = f.run]]

\* judge after its chdir: compare is called on what run leaves without a verdict.
Judged(t, f, r) ==
  LET c == Compiled(t, f, r)
      x == Ran(f, c.res)
  IN IF c.code # "SUCCESS" THEN c.res
     ELSE IF x.code = "SUCCESS" /\ x.res.result = "SE" THEN [x.res EXCEPT !.result = f.compared]
     ELSE x.res

\* run does not return: nothing but a limit of the real time ends the program.
Endless(t, f) ==
  /\ Compiled(t, f, Fresh).code = "SUCCESS"
  /\ f.run = "endless" /\ t.limits[2] = "0"

\* A compiler or the program itself was started for c, and what it has started, or the program
\* that wait4 reported as stopped, may go on when judge is done with it.
MayStray(s, c, started) ==
  \/ UNCHANGED strays
  \/ started /\ strays' = strays \cup {<<s, c>>}

Spawns(t, f) == Compiled(t, f, Fresh).code # "BAD_SRC_FILE"

------------------------------------------------------------------------------
\* Mutant: the result is initialised once, before the loop.
JudgeStale(s) ==
  LET c == conn[s] t == Parsed(buf[s]) d == Resolve(cwd[s], t)
  IN /\ pc[s] = "business" /\ ~Derails(buf[s])
     /\ \E f \in Fates[c] :
          /\ fate' = [fate EXCEPT ![c] = f]
          /\ Go(s, "business", IF d \in Exists /\ Endless(t, f) THEN "run" ELSE "reply")
          /\ result' = [result EXCEPT ![s] = IF d \in Exists THEN Judged(t, f, @) ELSE @]
          /\ MayStray(s, c, d \in Exists /\ Spawns(t, f))
     /\ cwd' = IF d \in Exists THEN [cwd EXCEPT ![s] = d] ELSE cwd
     /\ UNCHANGED <<buf, clientVars, transport, pidfile, overlapped>>

\* parse_task of a text that it gets to the end of, init_result and judge, which never leaves
\* the directory again, or never ends.  The fate is that of the task of the client: see
\* ParsedAsSent.
Judge(s) ==
  LET c == conn[s] t == Parsed(buf[s]) d == Resolve(cwd[s], t)
  IN /\ pc[s] = "business" /\ ~Derails(buf[s])
     /\ \E f \in Fates[c] :
          /\ fate' = [fate EXCEPT ![c] = f]
          /\ Go(s, "business", IF d \in Exists /\ Endless(t, f) THEN "run" ELSE "reply")
          /\ result' = [result EXCEPT ![s] = IF d \in Exists THEN Judged(t, f, Fresh) ELSE Fresh]
          /\ MayStray(s, c, d \in Exists /\ Spawns(t, f))
     /\ cwd' = IF d \in Exists THEN [cwd EXCEPT ![s] = d] ELSE cwd
     /\ UNCHANGED <<buf, clientVars, transport, pidfile, overlapped>>

\* parse_task runs past the text: what it picks up is judged as it may, also without a limit
\* and without an end, ...
Derail(s) ==
  /\ pc[s] = "business" /\ Derails(buf[s])
  /\ \E to \in {"reply", "run"} : Go(s, "business", to)
  /\ \E v \in Astray : result' = [result EXCEPT ![s] = [Fresh EXCEPT !.result = v]]
  /\ \E d \in Exists : cwd' = [cwd EXCEPT ![s] = d]
  /\ MayStray(s, conn[s], TRUE)
  /\ UNCHANGED <<buf, clientVars, transport, fate, pidfile, overlapped>>

\* ... or the process faults.
Fault(s) == pc[s] = "business" /\ Derails(buf[s]) /\ End(s)

\* stringify_result and send: whoever has left does not get it.
Send(s) ==
  /\ Go(s, "reply", "close")
  /\ transport = "unix" => conn[s] \notin left
  /\ answer' = IF conn[s] \in left THEN answer ELSE [answer EXCEPT ![conn[s]] = result[s]]
  /\ UNCHANGED <<judgeVars, left, sent, read, otherVars>>

\* A Unix socket whose other end is closed answers with SIGPIPE, which nobody handles.
BrokenPipe(s) == pc[s] = "reply" /\ transport = "unix" /\ conn[s] \in left /\ End(s)

\* close: what the client has sent and the server not read makes it a reset over TCP, which
\* may overtake the answer.
Close(s) ==
  /\ Move(s, "close", "accept")
  /\ conn' = [conn EXCEPT ![s] = None]
  /\ phase' = [phase EXCEPT ![conn[s]] = "closed"]
  /\ \/ UNCHANGED answer
     \/ /\ transport = "tcp" /\ sent[conn[s]] > read[conn[s]]
        /\ answer' = [answer EXCEPT ![conn[s]] = NoReply]
  /\ UNCHANGED <<endpoint, backlog, judgeVars, left, sent, read, otherVars>>

\* Is there, or may there be, a program at work for the client of s?
AtWork(s) ==
  \/ pc[s] = "run"
  \/ pc[s] = "business" /\ (Derails(buf[s]) \/ Resolve(cwd[s], Parsed(buf[s])) \in Exists)

\* SIGINT and its like, handled by server_stop once it is installed, or SIGKILL: neither ends
\* the program that is being judged, which may have got the signal of its own.
Stop(s) ==
  /\ pc[s] \in Serving
  /\ \/ End(s)
     \/ AtWork(s) /\ Leaving(s, strays \cup {<<s, conn[s]>>})

\* What s has left running ends, with the last of its own sockets if s has ended before.
StrayEnds(s, c) ==
  /\ <<s, c>> \in strays /\ strays' = strays \ {<<s, c>>}
  /\ IF pc[s] = "ended"
       THEN Release(s, StraysOf(s, strays \ {<<s, c>>}))
       ELSE UNCHANGED <<endpoint, phase, conn, backlog>>
  /\ UNCHANGED <<pc, judgeVars, clientVars, transport, fate, pidfile, overlapped>>

----------------------------- (* the clients *) -----------------------------
\* The kernel takes the connection, for whoever has the socket.
Connect(c) ==
  /\ phase[c] = "idle" /\ endpoint # None
  /\ Listening(endpoint) /\ Len(backlog[endpoint]) <= Backlog
  /\ phase' = [phase EXCEPT ![c] = "queued"]
  /\ backlog' = [backlog EXCEPT ![endpoint] = Append(@, c)]
  /\ UNCHANGED <<pc, endpoint, conn, judgeVars, clientVars, otherVars>>

Connected(c) == phase[c] \in {"queued", "held"} /\ c \notin left

\* The rest of the request, or a part of it.
Write(c) ==
  /\ Connected(c)
  /\ \E n \in Cuts[c] \cup {Len(Texts[c])} : sent[c] < n /\ sent' = [sent EXCEPT ![c] = n]
  /\ UNCHANGED <<kernelVars, judgeVars, left, read, answer, otherVars>>

\* The client does not wait for its answer any longer.
Leave(c) ==
  /\ Connected(c) /\ answer[c] = NoReply
  /\ left' = left \cup {c}
  /\ UNCHANGED <<kernelVars, judgeVars, sent, read, answer, otherVars>>

-----------------------------------------------------------------------------
StartUp(s) ==
  CreatePid(s) \/ Unlink(s) \/ Bind(s) \/ StartFailed(s)

Serve(s) ==
  \/ Accept(s) \/ Recv(s) \/ BadData(s)
  \/ Judge(s) \/ Derail(s) \/ Fault(s)
  \/ Send(s) \/ BrokenPipe(s) \/ Close(s)

Next ==
  \/ \E s \in Instances : Launch(s) \/ StartUp(s) \/ Serve(s) \/ Stop(s)
  \/ \E s \in Instances, c \in Clients : StrayEnds(s, c)
  \/ \E c \in Clients : Connect(c) \/ Write(c) \/ Leave(c)

\* A process that serves is scheduled.  Nobody has to start or stop an instance, and no client
\* has to send anything or to leave, and no program has to end.
Fairness == \A s \in Instances : WF_vars(Serve(s))

Spec == Init /\ [][Next]_vars /\ Fairness

-----------------------------------------------------------------------------
\* The first n tokens of the text of c are a whole request: nobody looks for the closing brace.
Complete(c, n) == n + 1 >= Len(Texts[c])

\* A task is judged only for the client that sent all of it: a fragment is never completed by
\* what an earlier request left in the buffer (server.c:63-68, utils.c:99-174).
ParsedAsSent ==
  \A s \in Instances :
    pc[s] = "business" /\ ~Derails(buf[s]) => Parsed(buf[s]) = Task[conn[s]]

\* The parser finds the end of a request that has arrived as a whole, whatever colons, commas
\* and brackets are in its strings, for tasks as the README of judged describes them and, where
\* the run has such a task, with a list that is empty: "argv" and "envp" are lists of strings
\* (README.md of judged, conf/languages/README:27-28, utils.c:132-160).
WholeNeverDerails ==
  \A s \in Instances :
    pc[s] = "business" /\ Complete(conn[s], read[conn[s]]) => ~Derails(buf[s])

\* What is to be said of the task t, its work_dir being absolute, when f becomes of it.
Due(t, f) ==
  LET opened == t.paths[1] \in Exists /\ (HasSource(t) => f.source)
      compiled == opened /\ (HasCommand(t) => f.compiles)
  IN [result |-> IF opened /\ ~compiled THEN "CE"
                 ELSE IF ~compiled \/ f.run = "failed" THEN "SE"
                 ELSE IF f.run = "quiet" THEN f.compared
                 ELSE IF f.run = "endless" THEN "TLE" ELSE f.run,
      length |-> IF opened /\ HasSource(t) THEN f.length ELSE 0,
      usage |-> IF compiled THEN f.usage ELSE 0]

Absolute(c) == Task[c].paths[1] # <<>> /\ Task[c].paths[1][1] = "/"

\* The answer to a complete request with an absolute work_dir, which the README of judged asks
\* for, depends on that request alone and not on the requests before it: not on their results,
\* their directories or their texts (server.c:67-72, judge.c:10, compiler.c:12).
AnswerIsOwn ==
  \A c \in Clients :
    answer[c] # NoReply /\ Complete(c, read[c]) /\ Absolute(c) => answer[c] = Due(Task[c], fate[c])

\* An instance that runs beside no other is where clients and operators look for it: a pid
\* file or a socket file that instances before it left does not keep it from binding, and the
\* pid file names it.  The port does, as long as a program that an instance before it has
\* started runs on with the listening socket in its hands, and only that long (main.c:31-47,
\* server.c:25, 28, 89-91, runner.c:32, 252).
SoleInstance ==
  \A s \in Instances \ overlapped :
    /\ pc[s] = "bind" =>
         \/ endpoint = None
         \/ transport = "tcp" /\ pc[endpoint] = "ended" /\ StraysOf(endpoint, strays) # {}
    /\ pc[s] \in Serving => pidfile = s /\ endpoint = s

\* Nothing happens in s: its client is silent, the program it judges does not end, or it has
\* itself ended and a program it left behind keeps its sockets.
Stuck(s) ==
  \/ pc[s] = "recv" /\ sent[conn[s]] = 0 /\ conn[s] \notin left
  \/ pc[s] \in {"run", "ended"}

\* c has sent a complete request that the server has still to read.
Asks(c) ==
  /\ phase[c] \in {"queued", "held"} /\ read[c] = 0
  /\ Complete(c, sent[c]) /\ sent[c] <= BufSize

\* Whoever has sent a complete request is answered, also by an instance whose socket another one
\* has taken over, unless it leaves, goes on sending, or the instance ends or is stuck
\* for ever with a client before it (server.c:55-75, 106-125).
Served ==
  \A c \in Clients :
    Asks(c) ~>
      \/ answer[c] # NoReply
      \/ c \in left \/ phase[c] = "reset" \/ sent[c] > Arrived(c)
      \/ [](\E s \in Instances : Stuck(s) /\ (conn[s] = c \/ c \in Range(backlog[s])))
=============================================================================
