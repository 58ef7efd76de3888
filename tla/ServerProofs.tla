---------------------------- MODULE ServerProofs ----------------------------
(***************************************************************************)
(* Proofs about the daemon, for any number of instances and clients, any   *)
(* tasks, any cuts and any fates.  What a client is told is proved for the *)
(* tasks the parser is made for, PlainTask, of which TaskParserProofs has  *)
(* that parse_task reads them right.                                       *)
(***************************************************************************)
EXTENDS Server, TaskParserProofs

USE DEF None

\* What has been sent is nothing, a part up to a cut, or all.
SentOK == \A c \in Clients : sent[c] \in {0} \cup Cuts[c] \cup {Len(Texts[c])}

\* Whoever is past accept has a client.
Busy == Serving \ {"accept"}
Held == \A s \in Instances : pc[s] \in Busy => conn[s] \in Clients

TInv == TypeOK /\ SentOK /\ Held

LEMMA HeadTail ==
  ASSUME NEW S, NEW q \in Seq(S), q # <<>>
  PROVE  /\ Head(q) \in S /\ Tail(q) \in Seq(S)
         /\ Head(q) \in Range(q) /\ Range(Tail(q)) \subseteq Range(q)
         /\ Range(Tail(q)) = {Tail(q)[i] : i \in 1..Len(Tail(q))}
  <1>1. q \in Seq(S) /\ Len(q) \in Nat /\ Len(q) > 0 /\ Head(q) = q[1]
    OBVIOUS
  <1>2. /\ Head(q) \in S /\ Tail(q) \in Seq(S) /\ Len(Tail(q)) = Len(q) - 1
        /\ \A i \in 1..Len(Tail(q)) : Tail(q)[i] = q[i + 1]
    BY HeadTailProperties
  <1>3. Range(q) = {q[i] : i \in 1..Len(q)} /\ Range(Tail(q)) = {Tail(q)[i] : i \in 1..Len(Tail(q))}
    BY <1>2, RangeEquality
  <1>. QED  BY <1>1, <1>2, <1>3

LEMMA AppendRange ==
  ASSUME NEW S, NEW q \in Seq(S), NEW c \in S
  PROVE  Append(q, c) \in Seq(S) /\ Range(Append(q, c)) = Range(q) \cup {c}
  <1>1. /\ Append(q, c) \in Seq(S) /\ Len(Append(q, c)) = Len(q) + 1 /\ Len(q) \in Nat
        /\ Append(q, c)[Len(q) + 1] = c /\ \A i \in 1..Len(q) : Append(q, c)[i] = q[i]
    BY AppendProperties
  <1>2. Range(q) = {q[i] : i \in 1..Len(q)}
        /\ Range(Append(q, c)) = {Append(q, c)[i] : i \in 1..Len(q) + 1}
    BY <1>1, RangeEquality
  <1>. QED  BY <1>1, <1>2

\* What recv takes is the whole of a buffer that the type allows.
LEMMA ArrivedType ==
  ASSUME TInv, NEW c \in Clients, sent[c] > 0
  PROVE  Arrived(c) \in 0..BufSize /\ Arrived(c) \in Lengths(c) /\ <<<<c, Arrived(c)>>>> \in Buffers
  <1>1. Len(Texts[c]) \in Nat /\ Cuts[c] \subseteq 1..Len(Texts[c]) /\ BufSize \in Nat \ {0}
    BY TextAssumption, ServerAssumption
  <1>2. sent[c] \in Cuts[c] \cup {Len(Texts[c])} /\ sent[c] \in Nat /\ sent[c] <= Len(Texts[c])
    BY <1>1 DEF TInv, SentOK, TypeOK
  <1>3. Arrived(c) \in Lengths(c) /\ Arrived(c) \in 0..BufSize
    BY <1>1, <1>2 DEF Arrived, Lengths
  <1>4. <<c, Arrived(c)>> \in Parts
    BY <1>3 DEF Parts
  <1>. QED  BY <1>3, <1>4 DEF Buffers

LEMMA JudgedType ==
  ASSUME NEW t, NEW f \in Fate
  PROVE  Judged(t, f, Fresh) \in Reply
  <1> DEFINE c == Compiled(t, f, Fresh)
             x == Ran(f, c.res)
  <1>1. Fresh \in Reply
    BY DEF Fresh, Reply, Verdicts
  <1>2. c.res \in Reply
    BY <1>1 DEF Compiled, Reply, Verdicts, Fate
  <1> HIDE DEF c
  <1>3. x.res \in Reply
    BY <1>2 DEF Ran, Reply, Verdicts, Fate
  <1> HIDE DEF x
  <1>4. [x.res EXCEPT !.result = f.compared] \in Reply
    BY <1>3 DEF Reply, Verdicts, Fate
  <1>. QED  BY <1>2, <1>3, <1>4 DEF Judged, c, x

Worlds == SUBSET (Instances \X Clients)

LEMMA ReleaseType ==
  ASSUME TypeOK, NEW s \in Instances, NEW kept \in SUBSET Clients, Release(s, kept)
  PROVE  /\ endpoint' \in Instances \cup {None} /\ conn' \in [Instances -> Clients \cup {None}]
         /\ backlog' \in [Instances -> Seq(Clients)]
         /\ phase' \in [Clients -> {"idle", "queued", "held", "closed", "reset"}]
  BY SMTT(30) DEF TypeOK, Release

LEMMA LeavingType ==
  ASSUME TypeOK, NEW s \in Instances, NEW w \in Worlds, Leaving(s, w)
  PROVE  TypeOK'
  <1>1. Fresh \in Reply /\ Home \in Exists
    BY ServerAssumption DEF Fresh, Reply, Verdicts
  <1>2. StraysOf(s, w) \in SUBSET Clients /\ Release(s, StraysOf(s, w))
    BY DEF StraysOf, Leaving
  <1>3. /\ endpoint' \in Instances \cup {None} /\ conn' \in [Instances -> Clients \cup {None}]
        /\ backlog' \in [Instances -> Seq(Clients)]
        /\ phase' \in [Clients -> {"idle", "queued", "held", "closed", "reset"}]
    BY <1>2, ReleaseType
  <1>4. /\ buf' \in [Instances -> Buffers \cup {<<>>}] /\ result' \in [Instances -> Reply]
        /\ cwd' \in [Instances -> Exists] /\ strays' \in SUBSET (Instances \X Clients)
        /\ pc' \in [Instances -> Starting \cup Serving \cup {"off", "ended"}]
    BY <1>1, SMTT(30) DEF TypeOK, Leaving, Blank, Worlds
  <1>5. UNCHANGED <<transport, fate, pidfile, overlapped, left, sent, read, answer>>
    BY DEF Leaving, clientVars
  <1>. QED  BY <1>3, <1>4, <1>5, SMTT(30) DEF TypeOK

\* However an instance ends, what it had started before is not ended by that.
LEMMA Leaves ==
  ASSUME TInv, NEW s \in Instances, StartFailed(s) \/ Fault(s) \/ BrokenPipe(s) \/ Stop(s)
  PROVE  \E w \in Worlds : strays \subseteq w /\ Leaving(s, w)
  <1>1. strays \in Worlds
    BY DEF TInv, TypeOK, Worlds
  <1>2. CASE End(s)
    BY <1>1, <1>2 DEF End
  <1>3. CASE AtWork(s) /\ Leaving(s, strays \cup {<<s, conn[s]>>})
    <2>1. conn[s] \in Clients
      BY <1>3 DEF TInv, Held, AtWork, Busy, Serving
    <2>. QED  BY <1>1, <1>3, <2>1 DEF Worlds
  <1>. QED  BY <1>2, <1>3 DEF StartFailed, Fault, BrokenPipe, Stop

LEMMA StrayType ==
  ASSUME TypeOK, NEW s \in Instances, NEW c \in Clients, NEW started, MayStray(s, c, started)
  PROVE  strays' \in SUBSET (Instances \X Clients) /\ strays \subseteq strays'
  BY DEF TypeOK, MayStray

\* Init and every step keep the types (main.c:49-95, server.c:18-143).
LEMMA TypeInit == Init => TInv
  BY ServerAssumption DEF Init, TInv, TypeOK, SentOK, Held, Busy, Fate, Unjudged, Fresh, Reply,
       NoReply, Verdicts, Starting, Serving

LEMMA TypeStep == TInv /\ [Next]_vars => TInv'
<1> USE DEF TInv
<1>1. ASSUME TInv, [Next]_vars
      PROVE  TypeOK'
  <2> USE <1>1
  <2>1. ASSUME NEW s \in Instances, Launch(s) \/ CreatePid(s) \/ Unlink(s) \/ Bind(s)
        PROVE  TypeOK'
    BY <2>1 DEF TypeOK, Launch, CreatePid, Unlink, Bind, Go, Move, judgeVars, clientVars, otherVars,
                Starting, Serving
  <2>2. ASSUME NEW s \in Instances, StartFailed(s) \/ Fault(s) \/ BrokenPipe(s) \/ Stop(s)
        PROVE  TypeOK'
    BY <2>2, Leaves, LeavingType
  <2>3. ASSUME NEW s \in Instances, Accept(s)
        PROVE  TypeOK'
    <3>1. backlog[s] \in Seq(Clients)
      BY DEF TypeOK
    <3>2. Head(backlog[s]) \in Clients /\ Tail(backlog[s]) \in Seq(Clients)
      BY <2>3, <3>1, HeadTail DEF Accept
    <3>. QED  BY <2>3, <3>2 DEF TypeOK, Accept, Move, judgeVars, clientVars, otherVars, Starting, Serving
  <2>4. ASSUME NEW s \in Instances, Recv(s) \/ BadData(s)
        PROVE  TypeOK'
    <3>1. conn[s] \in Clients
      BY <2>4 DEF Held, Busy, Serving, Recv, BadData, Go, Move
    <3>2. CASE Recv(s)
      <4>1. Arrived(conn[s]) \in 0..BufSize /\ <<<<conn[s], Arrived(conn[s])>>>> \in Buffers
        BY <3>1, <3>2, ArrivedType DEF Recv
      <4>. QED  BY <3>1, <3>2, <4>1 DEF TypeOK, Recv, Taken, Go, Move, otherVars, Starting, Serving
    <3>3. CASE BadData(s)
      BY <3>1, <3>3 DEF TypeOK, BadData, Go, Move, clientVars, otherVars, Starting, Serving
    <3>. QED  BY <2>4, <3>2, <3>3
  <2>5. ASSUME NEW s \in Instances, Judge(s)
        PROVE  TypeOK'
    <3> DEFINE c == conn[s]  t == Parsed(buf[s])  d == Resolve(cwd[s], t)
    <3>1. c \in Clients
      BY <2>5 DEF Held, Busy, Serving, Judge
    <3>2. PICK f \in Fates[c] :
            /\ fate' = [fate EXCEPT ![c] = f]
            /\ Go(s, "business", IF d \in Exists /\ Endless(t, f) THEN "run" ELSE "reply")
            /\ result' = [result EXCEPT ![s] = IF d \in Exists THEN Judged(t, f, Fresh) ELSE Fresh]
      BY <2>5 DEF Judge
    <3>3. f \in Fate
      BY <3>1, <3>2, ServerAssumption
    <3>4. Judged(t, f, Fresh) \in Reply /\ Fresh \in Reply
      BY <3>3, JudgedType DEF Fresh, Reply, Verdicts
    <3>6. strays' \in SUBSET (Instances \X Clients)
      BY <2>5, <3>1, StrayType DEF Judge
    <3>5. UNCHANGED <<buf, clientVars, transport, pidfile, overlapped>>
          /\ cwd' = IF d \in Exists THEN [cwd EXCEPT ![s] = d] ELSE cwd
      BY <2>5 DEF Judge
    <3> HIDE DEF t, d
    <3>. QED  BY <3>1, <3>2, <3>3, <3>4, <3>5, <3>6
           DEF TypeOK, Go, Move, clientVars, Starting, Serving
  <2>6. ASSUME NEW s \in Instances, Derail(s)
        PROVE  TypeOK'
    <3>1. \A v \in Astray : [Fresh EXCEPT !.result = v] \in Reply
      BY ServerAssumption DEF Fresh, Reply
    <3>2. strays' \in SUBSET (Instances \X Clients)
      <4>1. conn[s] \in Clients
        BY <2>6 DEF Held, Busy, Serving, Derail
      <4>. QED  BY <2>6, <4>1, StrayType DEF Derail
    <3>. QED  BY <2>6, <3>1, <3>2 DEF TypeOK, Derail, Go, Move, clientVars, Starting, Serving
  <2>7. ASSUME NEW s \in Instances, Send(s) \/ Close(s)
        PROVE  TypeOK'
    <3>1. conn[s] \in Clients
      BY <2>7 DEF Held, Busy, Serving, Send, Close, Go, Move
    <3>. QED  BY <2>7, <3>1 DEF TypeOK, Send, Close, Go, Move, judgeVars, clientVars, otherVars, Starting, Serving
  <2>8. ASSUME NEW c \in Clients, Connect(c)
        PROVE  TypeOK'
    <3>1. endpoint \in Instances /\ backlog[endpoint] \in Seq(Clients)
      BY <2>8 DEF Connect, TypeOK
    <3>2. Append(backlog[endpoint], c) \in Seq(Clients)
      BY <3>1, AppendProperties
    <3>. QED  BY <2>8, <3>1, <3>2 DEF TypeOK, Connect, judgeVars, clientVars, otherVars
  <2>9. ASSUME NEW c \in Clients, Write(c) \/ Leave(c)
        PROVE  TypeOK'
    <3>1. Cuts[c] \cup {Len(Texts[c])} \subseteq Nat
      BY TextAssumption
    <3>. QED  BY <2>9, <3>1 DEF TypeOK, Write, Leave, kernelVars, judgeVars, otherVars
  <2>10. CASE UNCHANGED vars
    BY <2>10 DEF TypeOK, vars, kernelVars, judgeVars, clientVars, otherVars
  <2>11. ASSUME NEW s \in Instances, NEW c \in Clients, StrayEnds(s, c)
         PROVE  TypeOK'
    <3> DEFINE kept == StraysOf(s, strays \ {<<s, c>>})
    <3>1. kept \in SUBSET Clients
      BY DEF StraysOf
    <3> HIDE DEF kept
    <3>2. /\ endpoint' \in Instances \cup {None} /\ conn' \in [Instances -> Clients \cup {None}]
          /\ backlog' \in [Instances -> Seq(Clients)]
          /\ phase' \in [Clients -> {"idle", "queued", "held", "closed", "reset"}]
      <4>1. CASE Release(s, kept)
        BY <3>1, <4>1, ReleaseType
      <4>2. CASE UNCHANGED <<endpoint, phase, conn, backlog>>
        BY <4>2 DEF TypeOK
      <4>. QED  BY <2>11, <4>1, <4>2 DEF StrayEnds, kept
    <3>. QED  BY <2>11, <3>2 DEF TypeOK, StrayEnds, judgeVars, clientVars
  <2>. QED
    BY <2>1, <2>2, <2>3, <2>4, <2>5, <2>6, <2>7, <2>8, <2>9, <2>10, <2>11
    DEF Next, StartUp, Serve
<1>2. ASSUME TInv, [Next]_vars
      PROVE  SentOK'
  <2> USE <1>2
  <2>1. ASSUME NEW c \in Clients, Write(c)
        PROVE  SentOK'
    BY <2>1 DEF SentOK, Write, TypeOK
  <2>2. ASSUME UNCHANGED sent
        PROVE  SentOK'
    BY <2>2 DEF SentOK
  <2>. QED
    BY <2>1, <2>2
    DEF Next, StartUp, Serve, Launch, CreatePid, Unlink, Bind, StartFailed, Accept, Recv, BadData, Judge,
        Derail, Fault, Send, BrokenPipe, Close, Stop, End, Leaving, StrayEnds, Connect, Leave, vars,
        clientVars
<1>3. ASSUME TInv, [Next]_vars
      PROVE  Held'
  <2> USE <1>3 DEF Held, Busy, Serving
  <2>1. ASSUME NEW s \in Instances, Launch(s) \/ CreatePid(s) \/ Unlink(s) \/ Bind(s)
        PROVE  Held'
    BY <2>1, ZenonT(60) DEF TypeOK, Launch, CreatePid, Unlink, Bind, Go, Move
  <2>2. ASSUME NEW s \in Instances, Close(s)
        PROVE  Held'
    BY <2>2, ZenonT(60) DEF TypeOK, Close, Move
  <2>6. ASSUME NEW s \in Instances, StartFailed(s) \/ Fault(s) \/ BrokenPipe(s) \/ Stop(s)
        PROVE  Held'
    <3>1. PICK w \in Worlds : Leaving(s, w)
      BY <2>6, Leaves
    <3>2. /\ pc'[s] = "ended"
          /\ \A t \in Instances \ {s} : pc'[t] = pc[t] /\ conn'[t] = conn[t]
      BY <3>1 DEF TypeOK, Leaving, Release
    <3>. QED  BY <3>2
  <2>7. ASSUME NEW s \in Instances, NEW c \in Clients, StrayEnds(s, c)
        PROVE  Held'
    <3>1. /\ UNCHANGED pc
          /\ \A t \in Instances : pc[t] \in Serving => conn'[t] = conn[t]
      BY <2>7, ZenonT(60) DEF TypeOK, StrayEnds, Release
    <3>. QED  BY <3>1
  <2>3. ASSUME NEW s \in Instances, Accept(s)
        PROVE  Held'
    <3>1. Head(backlog[s]) \in Clients
      BY <2>3, HeadTail DEF Accept, TypeOK
    <3>. QED  BY <2>3, <3>1 DEF TypeOK, Accept, Move
  <2>4. ASSUME NEW s \in Instances, Recv(s) \/ BadData(s) \/ Judge(s) \/ Derail(s) \/ Send(s)
        PROVE  Held'
    BY <2>4 DEF TypeOK, Recv, BadData, Judge, Derail, Send, Go, Move
  <2>5. ASSUME UNCHANGED <<pc, conn>>
        PROVE  Held'
    BY <2>5
  <2>. QED
    BY <2>1, <2>2, <2>3, <2>4, <2>5, <2>6, <2>7
    DEF Next, StartUp, Serve, Connect, Write, Leave, vars, kernelVars
<1>. QED  BY <1>1, <1>2, <1>3

\* The daemon is type correct, its buffer never overrun by recv (server.c:18-126).
THEOREM TypeCorrect == Spec => []TypeOK
<1>1. TInv => TypeOK
  BY DEF TInv
<1>. QED  BY TypeInit, TypeStep, <1>1, PTL DEF Spec

-----------------------------------------------------------------------------
\* Why an instance that runs beside no other owns the pid file and the endpoint: whoever runs
\* with it would be in overlapped; a port is freed with its process and the programs that have it
\* from there, a file unlinked before bind.
SoleInv ==
  /\ \A s \in Instances \ overlapped : \A t \in Instances \ {s} : ~(Alive(s) /\ Alive(t))
  /\ \A s \in Instances \ overlapped : pc[s] \in {"unlink", "bind"} \cup Serving => pidfile = s
  /\ \A s \in Instances : pc[s] = "unlink" => transport = "unix"
  /\ transport = "tcp" /\ endpoint # None => Listening(endpoint)
  /\ \A s \in Instances \ overlapped :
       /\ pc[s] = "bind" /\ transport = "unix" => endpoint = None
       /\ pc[s] \in Serving => endpoint = s

LEMMA SoleInit == Init => SoleInv
  BY ServerAssumption DEF Init, SoleInv, Alive, Starting, Serving

\* The port stays with somebody who listens, whatever becomes of one s.
LEMMA PortHeld ==
  ASSUME TypeOK, NEW s \in Instances,
         transport = "tcp" /\ endpoint # None => Listening(endpoint), transport' = transport,
         \A t \in Instances \ {s} :
           pc'[t] = pc[t] /\ StraysOf(t, strays) \subseteq StraysOf(t, strays'),
         \/ pc[s] # "ended" /\ pc'[s] = pc[s] /\ endpoint' = endpoint
         \/ pc'[s] \in Serving /\ endpoint' = endpoint
         \/ /\ pc'[s] = "ended"
            /\ endpoint' = IF transport = "tcp" /\ endpoint = s /\ StraysOf(s, strays') = {}
                           THEN None ELSE endpoint
  PROVE  transport' = "tcp" /\ endpoint' # None => Listening(endpoint)'
<1> SUFFICES ASSUME transport = "tcp", endpoint' # None
             PROVE  \/ pc'[endpoint'] \in Serving
                    \/ pc'[endpoint'] = "ended" /\ StraysOf(endpoint', strays') # {}
  BY DEF Listening, StraysOf
<1>1. endpoint' = endpoint /\ endpoint # None
  OBVIOUS
<1>2. endpoint \in Instances
  BY <1>1 DEF TypeOK
<1>3. pc[endpoint] \in Serving \/ (pc[endpoint] = "ended" /\ StraysOf(endpoint, strays) # {})
  BY <1>1 DEF Listening
<1>4. CASE endpoint # s
  BY <1>1, <1>2, <1>3, <1>4
<1>5. CASE endpoint = s
  BY <1>1, <1>3, <1>5
<1>. QED  BY <1>4, <1>5

LEMMA SoleStep == TInv /\ SoleInv /\ [Next]_vars => SoleInv'
<1> SUFFICES ASSUME TInv, SoleInv, [Next]_vars
             PROVE  SoleInv'
  OBVIOUS
<1>0. TypeOK
  BY DEF TInv
<1> USE ServerAssumption, <1>0 DEF SoleInv, TypeOK, Alive, Starting, Serving, Listening
<1>1. ASSUME NEW s \in Instances, Launch(s)
      PROVE  SoleInv'
  <2> DEFINE others == {t \in Instances : Alive(t)}
  <2>1. /\ pc[s] = "off" /\ pc' = [pc EXCEPT ![s] = "create_pid"]
        /\ overlapped' = IF others = {} THEN overlapped ELSE overlapped \cup others \cup {s}
        /\ UNCHANGED <<endpoint, pidfile, transport, strays>>
    BY <1>1 DEF Launch, Go, Move
  <2>2. CASE others = {}
    BY <2>1, <2>2
  <2>3. CASE others # {}
    BY <2>1, <2>3
  <2>. QED  BY <2>2, <2>3
<1>2. ASSUME NEW s \in Instances, CreatePid(s)
      PROVE  SoleInv'
  BY <1>2 DEF CreatePid, Go, Move
<1>3. ASSUME NEW s \in Instances, Unlink(s)
      PROVE  SoleInv'
  BY <1>3 DEF Unlink, Move, otherVars
<1>4. ASSUME NEW s \in Instances, Bind(s)
      PROVE  SoleInv'
  BY <1>4 DEF Bind, Move, otherVars
<1>5. ASSUME NEW s \in Instances, StartFailed(s) \/ Fault(s) \/ BrokenPipe(s) \/ Stop(s)
      PROVE  SoleInv'
  <2>1. PICK w \in Worlds : strays \subseteq w /\ Leaving(s, w)
    BY <1>5, Leaves
  <2>2. /\ pc' = [pc EXCEPT ![s] = "ended"] /\ UNCHANGED <<transport, pidfile, overlapped>>
        /\ strays' = w
        /\ endpoint' = IF transport = "tcp" /\ endpoint = s /\ StraysOf(s, w) = {}
                       THEN None ELSE endpoint
    BY <2>1 DEF Leaving, Release
  <2>3. \A t \in Instances : StraysOf(t, strays) \subseteq StraysOf(t, w)
    BY <2>1 DEF StraysOf
  <2>4. transport' = "tcp" /\ endpoint' # None => Listening(endpoint)'
    <3>1. /\ transport = "tcp" /\ endpoint # None => Listening(endpoint)
          /\ pc'[s] = "ended" /\ \A t \in Instances \ {s} : pc'[t] = pc[t]
      BY <2>2
    <3> HIDE DEF SoleInv, TypeOK, Alive, Starting, Serving, Listening
    <3>. QED  BY <2>2, <2>3, <3>1, PortHeld
  <2>. QED  BY <2>2, <2>4, ZenonT(60)
<1>9. ASSUME NEW s \in Instances, NEW c \in Clients, StrayEnds(s, c)
      PROVE  SoleInv'
  <2> DEFINE w == strays \ {<<s, c>>}
  <2>1. /\ UNCHANGED <<pc, transport, pidfile, overlapped>> /\ strays' = w
        /\ endpoint' = IF pc[s] = "ended" /\ transport = "tcp" /\ endpoint = s /\ StraysOf(s, w) = {}
                       THEN None ELSE endpoint
    BY <1>9 DEF StrayEnds, Release
  <2>2. \A t \in Instances \ {s} : StraysOf(t, w) = StraysOf(t, strays)
    BY DEF StraysOf
  <2> HIDE DEF w
  <2>3. transport' = "tcp" /\ endpoint' # None => Listening(endpoint)'
    <3>1. transport = "tcp" /\ endpoint # None => Listening(endpoint)
      OBVIOUS
    <3>2. \/ pc[s] # "ended" /\ endpoint' = endpoint
          \/ /\ pc'[s] = "ended"
             /\ endpoint' = IF transport = "tcp" /\ endpoint = s /\ StraysOf(s, w) = {}
                            THEN None ELSE endpoint
      BY <2>1
    <3> HIDE DEF SoleInv, TypeOK, Alive, Starting, Serving, Listening
    <3>. QED  BY <2>1, <2>2, <3>1, <3>2, PortHeld
  <2>. QED  BY <2>1, <2>3
<1>6. ASSUME NEW s \in Instances, NEW p \in Serving, pc[s] \in Serving, pc' = [pc EXCEPT ![s] = p],
             UNCHANGED <<endpoint, pidfile, transport, overlapped>>, strays \subseteq strays'
      PROVE  SoleInv'
  <2>1. \A t \in Instances : \/ t # s /\ pc'[t] = pc[t]
                             \/ t = s /\ pc[t] \in Serving /\ pc'[t] \in Serving
    BY <1>6
  <2>2. \A t \in Instances : StraysOf(t, strays) \subseteq StraysOf(t, strays')
    BY <1>6 DEF StraysOf
  <2>3. transport' = "tcp" /\ endpoint' # None => Listening(endpoint)'
    <3>1. /\ transport = "tcp" /\ endpoint # None => Listening(endpoint)
          /\ pc'[s] \in Serving /\ \A t \in Instances \ {s} : pc'[t] = pc[t]
      BY <1>6, <2>1
    <3> HIDE DEF SoleInv, TypeOK, Alive, Starting, Serving, Listening
    <3>. QED  BY <1>6, <2>2, <3>1, PortHeld
  <2>. QED  BY <1>6, <2>1, <2>3
<1>7. ASSUME NEW s \in Instances,
             Accept(s) \/ Recv(s) \/ BadData(s) \/ Judge(s) \/ Derail(s) \/ Send(s) \/ Close(s)
      PROVE  SoleInv'
  <2>1. PICK p \in Serving : pc[s] \in Serving /\ pc' = [pc EXCEPT ![s] = p]
    BY <1>7 DEF Accept, Recv, BadData, Judge, Derail, Send, Close, Go, Move
  <2>2. UNCHANGED <<endpoint, pidfile, transport, overlapped>>
    BY <1>7 DEF Accept, Recv, BadData, Judge, Derail, Send, Close, Go, Move, otherVars
  <2>3. strays \subseteq strays'
    BY <1>7 DEF Accept, Recv, BadData, Judge, Derail, MayStray, Send, Close, otherVars
  <2>. QED  BY <2>1, <2>2, <2>3, <1>6
<1>8. ASSUME UNCHANGED <<pc, endpoint, pidfile, transport, strays, overlapped>>
      PROVE  SoleInv'
  BY <1>8 DEF StraysOf
<1>. QED
  BY <1>1, <1>2, <1>3, <1>4, <1>5, <1>7, <1>8, <1>9
  DEF Next, StartUp, Serve, Connect, Write, Leave, vars, kernelVars, otherVars

\* An instance that has run beside no other is the one the pid file names and clients reach,
\* and nothing keeps it from binding but a program of an instance before it that still runs with
\* the listening socket it inherited (main.c:31-47, server.c:25, 28, 89-91, runner.c:32, 252).
THEOREM SoleInstanceHolds == Spec => []SoleInstance
<1>1. TypeOK /\ SoleInv => SoleInstance
  BY ServerAssumption
  DEF SoleInv, SoleInstance, TypeOK, Alive, Starting, Serving, Listening
<1>2. TInv => TypeOK
  BY DEF TInv
<1>. QED  BY TypeInit, TypeStep, SoleInit, SoleStep, <1>1, <1>2, PTL DEF Spec

-----------------------------------------------------------------------------
\* parse_task gets to the end of a whole request, and a request it gets to the end of is the
\* task that was sent.
ParserRight ==
  \A c \in Clients : \A n \in Lengths(c) :
    /\ Complete(c, n) => ~Derails(<<<<c, n>>>>)
    /\ ~Derails(<<<<c, n>>>>) => Parsed(<<<<c, n>>>>) = Task[c]

\* What the model looks up in its table is what the scan of the buffer gives.
LEMMA ReadingIs ==
  ASSUME NEW b \in Buffers
  PROVE  Reading(b) = Scan(Content(b))
<1> DEFINE R == {<<x, Scan(Content(x))>> : x \in Buffers}
           r == CHOOSE y \in R : y[1] = b
<1>1. <<b, Scan(Content(b))>> \in R /\ <<b, Scan(Content(b))>>[1] = b
  OBVIOUS
<1>2. r \in R /\ r[1] = b
  <2> HIDE DEF R
  <2>. QED  BY <1>1, Zenon
<1>3. \A y \in R : y[2] = Scan(Content(y[1]))
  OBVIOUS
<1>4. Reading(b) = r[2]
  BY Zenon DEF Reading, Readings
<1> HIDE DEF R, r
<1>. QED  BY <1>2, <1>3, <1>4, Zenon

\* A buffer that one request has been read into holds the front of its text.
LEMMA ContentFront ==
  ASSUME NEW c \in Clients, NEW n \in Lengths(c)
  PROVE  /\ <<<<c, n>>>> \in Buffers /\ n \in Nat /\ Texts[c] = Text(Task[c])
         /\ FrontOf(Content(<<<<c, n>>>>), Texts[c]) /\ Len(Content(<<<<c, n>>>>)) = n
<1> DEFINE w == Texts[c]  L == Len(w)
<1>1. /\ w \in Seq(Tokens) /\ Cuts[c] \subseteq 1..L /\ BufSize \in Nat \ {0}
      /\ w = Text(Task[c])
  BY TextAssumption, ServerAssumption DEF Texts
<1>2. L \in Nat
  BY <1>1
<1>3. n \in Nat /\ 0 + n <= L
  <2> HIDE DEF w, L
  <2>1. n \in Cuts[c] \cup {L, BufSize} /\ n <= L
    BY DEF Lengths, L, w
  <2>2. n \in Nat
    BY <1>1, <1>2, <2>1
  <2>. QED  BY <2>1, <2>2
<1>4. <<<<c, n>>>> \in Buffers
  BY DEF Buffers, Parts
<1> DEFINE p == <<c, n>>  b == <<p>>
<1>5. Content(b) = SubSeq(w, 0 + 1, 0 + n)
  <2>1. Len(b) = 1 /\ b[1] = p /\ p[1] = c /\ p[2] = n /\ 0 + 1 = 1 /\ 0 + n = n
    BY <1>3
  <2> HIDE DEF b, p
  <2>. QED  BY <2>1 DEF Content, w
<1> HIDE DEF b
<1> DEFINE x == Content(b)
<1>6. PartBehind(Tokens, w, 0, n, x)
  <2>1. 0 \in Nat
    OBVIOUS
  <2> HIDE DEF w
  <2>2. PartBehind(Tokens, w, 0, n, SubSeq(w, 0 + 1, 0 + n))
    BY <1>1, <1>3, <2>1, PartOf, Zenon DEF L
  <2>. QED  BY <1>5, <2>2, Zenon DEF x
<1> HIDE DEF w, x
<1>7. x \in Seq(Tokens) /\ Len(x) = n /\ \A k \in 1..n : x[k] = w[0 + k]
  BY <1>6, Zenon DEF PartBehind
<1>8. Len(x) <= L /\ \A k \in 1..Len(x) : x[k] = w[k]
  BY <1>3, <1>7
<1>9. FrontOf(x, w)
  BY <1>1, <1>7, <1>8 DEF FrontOf, L
<1>. QED  BY <1>1, <1>3, <1>4, <1>7, <1>9, Zenon DEF x, b, w

\* So the parser is right about every buffer that holds one request, and what it reads to the
\* end of a part of one it would have read in all of it.
LEMMA ParserIsRight ==
  ASSUME \A c \in Clients : Task[c] \in PlainTask
  PROVE  ParserRight
<1> SUFFICES ASSUME NEW c \in Clients, NEW n \in Lengths(c)
             PROVE  /\ Complete(c, n) => ~Derails(<<<<c, n>>>>)
                    /\ ~Derails(<<<<c, n>>>>) => Parsed(<<<<c, n>>>>) = Task[c]
  BY DEF ParserRight
<1> DEFINE b == <<<<c, n>>>>  x == Content(b)  t == Task[c]
<1>1. b \in Buffers /\ n \in Nat /\ Texts[c] = Text(t) /\ FrontOf(x, Text(t)) /\ Len(x) = n /\ t \in PlainTask
  BY ContentFront
<1> HIDE DEF b, x, t
<1>2. Reading(b) = Scan(x)
  BY <1>1, ReadingIs, Zenon DEF x
<1>3. Complete(c, n) => Scan(x).at # 0
  <2>1. SUFFICES ASSUME n + 1 >= Len(Text(t)) PROVE Scan(x).at # 0
    BY <1>1 DEF Complete
  <2>2. Begins(x, t)
    BY <1>1, <2>1, FrontBegins, Zenon
  <2>. QED  BY <1>1, <2>2, WholeRead, Zenon
<1>4. Scan(x).at # 0 => TaskOf(Scan(x).vals) = t
  BY <1>1, FrontRead, Zenon DEF Lost
<1>. QED  BY <1>2, <1>3, <1>4, Zenon DEF Derails, Parsed, Lost, b, t

-----------------------------------------------------------------------------
\* judge, from a fresh result, comes to what is due, whatever compile, run and compare do.
LEMMA JudgedIsDue ==
  ASSUME NEW t, NEW f \in Fate, t.paths[1] \in Exists
  PROVE  Judged(t, f, Fresh) = Due(t, f)
  <1>1. CASE HasSource(t) /\ ~f.source
    BY <1>1 DEF Judged, Due, Compiled, Fresh
  <1>2. CASE ~(HasSource(t) /\ ~f.source) /\ HasCommand(t) /\ ~f.compiles
    BY <1>2 DEF Judged, Due, Compiled, Fresh
  <1>3. CASE ~(HasSource(t) /\ ~f.source) /\ ~(HasCommand(t) /\ ~f.compiles)
    <2> DEFINE sized == [result |-> "SE", length |-> IF HasSource(t) THEN f.length ELSE 0, usage |-> 0]
               ran(v) == [result |-> v, length |-> IF HasSource(t) THEN f.length ELSE 0, usage |-> f.usage]
    <2>1. Compiled(t, f, Fresh) = [code |-> "SUCCESS", res |-> sized]
      BY <1>3 DEF Compiled, Fresh
    <2>2. Ran(f, sized) = [code |-> IF f.run = "failed" THEN "FAILED" ELSE "SUCCESS",
                           res |-> ran(IF f.run \in {"failed", "quiet"} THEN "SE"
                                       ELSE IF f.run = "endless" THEN "TLE" ELSE f.run)]
      BY DEF Ran, Fate
    <2>3. Due(t, f) = ran(IF f.run = "failed" THEN "SE" ELSE IF f.run = "quiet" THEN f.compared
                          ELSE IF f.run = "endless" THEN "TLE" ELSE f.run)
      BY <1>3 DEF Due
    <2>4. f.run \in {"failed", "quiet", "endless", "TLE", "OLE", "MLE", "RE"}
      BY DEF Fate
    <2>. QED  BY <2>1, <2>2, <2>3, <2>4 DEF Judged
  <1>. QED  BY <1>1, <1>2, <1>3

-----------------------------------------------------------------------------
\* A connection is in one place: it waits in one backlog, once, or one instance holds it, at
\* work or through what it has left behind.
Places ==
  /\ \A s \in Instances : conn[s] # None => pc[s] \in Busy \cup {"ended"}
  /\ \A s \in Instances : conn[s] # None => phase[conn[s]] = "held"
  /\ \A s \in Instances : \A c \in Range(backlog[s]) : phase[c] = "queued"
  /\ \A s, t \in Instances : s # t /\ conn[s] # None => conn[s] # conn[t]
  /\ \A s, t \in Instances : s # t => Range(backlog[s]) \cap Range(backlog[t]) = {}
  /\ \A s \in Instances : \A i, j \in 1..Len(backlog[s]) : backlog[s][i] = backlog[s][j] => i = j

LEMMA PlacesInit == Init => Places
  BY ServerAssumption DEF Init, Places, Busy, Serving, Range

LEMMA NotHeld ==
  ASSUME Places, NEW c \in Clients, phase[c] # "held"
  PROVE  \A t \in Instances : conn[t] # c
  <1>1. c # None
    BY ServerAssumption
  <1>. QED  BY <1>1 DEF Places

LEMMA PlacesStep == TInv /\ Places /\ [Next]_vars => Places'
<1> SUFFICES ASSUME TInv, Places, [Next]_vars
             PROVE  Places'
  OBVIOUS
<1> USE ServerAssumption DEF TInv
<1>0. \A s \in Instances : backlog[s] \in Seq(Clients) /\ Range(backlog[s]) \subseteq Clients
  <2>1. ASSUME NEW s \in Instances
        PROVE  backlog[s] \in Seq(Clients) /\ Range(backlog[s]) \subseteq Clients
    <3>1. backlog[s] \in Seq(Clients)
      BY DEF TypeOK
    <3>. QED  BY <3>1, RangeOfSeq
  <2>. QED  BY <2>1
<1>1. ASSUME UNCHANGED <<phase, conn, backlog>>,
             \A s \in Instances : pc[s] \in Busy \cup {"ended"} => pc'[s] \in Busy \cup {"ended"}
      PROVE  Places'
  BY <1>1, SMTT(60) DEF Places
<1>2. ASSUME NEW s \in Instances,
             Launch(s) \/ CreatePid(s) \/ Unlink(s) \/ Bind(s) \/ Recv(s) \/ BadData(s)
               \/ Judge(s) \/ Derail(s) \/ Send(s)
      PROVE  Places'
  <2>1. UNCHANGED <<phase, conn, backlog>>
    BY <1>2 DEF Launch, CreatePid, Unlink, Bind, Recv, BadData, Judge, Derail, Send, Go
  <2>2. \A t \in Instances : pc[t] \in Busy \cup {"ended"} => pc'[t] \in Busy \cup {"ended"}
    <3>1. PICK p : /\ pc[s] \notin Busy \cup {"ended"} \/ p \in Busy
                   /\ pc' = [pc EXCEPT ![s] = p]
      <4>1. CASE Launch(s) \/ CreatePid(s) \/ Unlink(s) \/ Bind(s)
        BY <4>1 DEF Busy, Serving, Launch, CreatePid, Unlink, Bind, Go, Move
      <4>2. CASE Recv(s) \/ BadData(s) \/ Judge(s) \/ Send(s)
        BY <4>2 DEF Busy, Serving, Recv, BadData, Judge, Send, Go, Move
      <4>3. CASE Derail(s)
        BY <4>3 DEF Busy, Serving, Derail, Go, Move
      <4>. QED  BY <1>2, <4>1, <4>2, <4>3
    <3>. QED  BY <3>1 DEF TypeOK
  <2>. QED  BY <2>1, <2>2, <1>1
<1>3. ASSUME NEW s \in Instances, Accept(s)
      PROVE  Places'
  <2> DEFINE c == Head(backlog[s])  rest == Tail(backlog[s])
  <2>1. /\ backlog[s] \in Seq(Clients) /\ backlog[s] # <<>> /\ pc[s] = "accept"
        /\ pc' = [pc EXCEPT ![s] = "recv"] /\ conn' = [conn EXCEPT ![s] = c]
        /\ backlog' = [backlog EXCEPT ![s] = rest] /\ phase' = [phase EXCEPT ![c] = "held"]
    BY <1>3, <1>0 DEF Accept, Move
  <2>2. c \in Clients /\ c \in Range(backlog[s]) /\ Range(rest) \subseteq Range(backlog[s])
    BY <2>1, HeadTail
  <2>3. /\ rest \in Seq(Clients) /\ Len(rest) = Len(backlog[s]) - 1 /\ Len(backlog[s]) \in Nat
        /\ \A i \in 1..Len(rest) : rest[i] = backlog[s][i + 1]
        /\ c = backlog[s][1]
    BY <2>1, HeadTailProperties
  <2>4. c \notin Range(rest)
    <3>1. Range(rest) = {rest[i] : i \in 1..Len(rest)}
      BY <2>1, HeadTail
    <3>2. \A i \in 1..Len(rest) : 1 \in 1..Len(backlog[s]) /\ i + 1 \in 1..Len(backlog[s]) /\ i + 1 # 1
      BY <2>3
    <3>3. \A i \in 1..Len(rest) : backlog[s][i + 1] # backlog[s][1]
      BY <3>2 DEF Places
    <3>. QED  BY <2>3, <3>1, <3>3
  <2>5. \A i, j \in 1..Len(rest) : rest[i] = rest[j] => i = j
    BY <2>3 DEF Places
  <2>6. \A t \in Instances : /\ Range(backlog'[t]) \subseteq Range(backlog[t])
                            /\ c \notin Range(backlog'[t])
    BY <2>1, <2>2, <2>4 DEF TypeOK, Places
  <2> HIDE DEF c, rest
  <2>7. \A t \in Instances : conn[t] # c
    <3>1. phase[c] # "held"
      BY <2>2 DEF Places
    <3>. QED  BY <2>2, <3>1, NotHeld
  <2>8. \A t \in Instances : conn'[t] # None => pc'[t] \in Busy \cup {"ended"}
    BY <2>1, <2>2 DEF Places, TypeOK, Busy, Serving
  <2>9. \A t \in Instances : conn'[t] # None => phase'[conn'[t]] = "held"
    BY <2>1, <2>2, <2>7, SMTT(60) DEF Places, TypeOK
  <2>10. \A t \in Instances : \A d \in Range(backlog'[t]) : phase'[d] = "queued"
    BY <2>1, <2>2, <2>6, <1>0 DEF Places, TypeOK
  <2>11. \A t, u \in Instances : t # u /\ conn'[t] # None => conn'[t] # conn'[u]
    BY <2>1, <2>2, <2>7, SMTT(60) DEF Places, TypeOK
  <2>12. \A t, u \in Instances : t # u => Range(backlog'[t]) \cap Range(backlog'[u]) = {}
    BY <2>6 DEF Places
  <2>13. \A t \in Instances : \A i, j \in 1..Len(backlog'[t]) : backlog'[t][i] = backlog'[t][j] => i = j
    BY <2>1, <2>5 DEF Places, TypeOK
  <2>. QED  BY <2>8, <2>9, <2>10, <2>11, <2>12, <2>13 DEF Places
<1>4. ASSUME NEW s \in Instances, Close(s)
      PROVE  Places'
  <2>1. /\ pc[s] = "close" /\ pc' = [pc EXCEPT ![s] = "accept"] /\ conn' = [conn EXCEPT ![s] = None]
        /\ phase' = [phase EXCEPT ![conn[s]] = "closed"] /\ UNCHANGED backlog
    BY <1>4 DEF Close, Move
  <2>2. conn[s] \in Clients /\ phase[conn[s]] = "held"
    BY <2>1 DEF Held, Places, Busy, Serving, TypeOK
  <2>. QED  BY <2>1, <2>2, <1>0 DEF Places, TypeOK, Busy, Serving
<1>5. ASSUME NEW s \in Instances, NEW kept \in SUBSET Clients, Release(s, kept), pc'[s] = "ended",
             \A t \in Instances \ {s} : pc'[t] = pc[t]
      PROVE  Places'
  <2>1. /\ conn' = [conn EXCEPT ![s] = IF @ \in kept THEN @ ELSE None]
        /\ backlog' = [backlog EXCEPT ![s] = IF kept = {} THEN <<>> ELSE @]
        /\ phase' = [c \in Clients |->
                       IF (c = conn[s] /\ c \notin kept) \/ (c \in Range(backlog[s]) /\ kept = {})
                       THEN "reset" ELSE phase[c]]
    BY <1>5 DEF Release
  <2>2. Range(<<>>) = {} /\ Len(<<>>) = 0
    BY DEF Range
  <2>3. \A t \in Instances \ {s} : conn'[t] = conn[t] /\ backlog'[t] = backlog[t]
    BY <2>1 DEF TypeOK
  <2>4. /\ conn'[s] = IF conn[s] \in kept THEN conn[s] ELSE None
        /\ backlog'[s] = IF kept = {} THEN <<>> ELSE backlog[s]
    BY <2>1 DEF TypeOK
  <2>5. ASSUME NEW t \in Instances, conn'[t] # None
        PROVE  conn'[t] = conn[t] /\ conn[t] \in Clients /\ phase'[conn[t]] = "held"
    <3>1. conn'[t] = conn[t] /\ conn[t] \in Clients /\ phase[conn[t]] = "held"
      BY <2>3, <2>4, <2>5, SMTT(60) DEF Places, TypeOK
    <3>2. \A c \in Range(backlog[s]) : conn[t] # c
      BY <3>1 DEF Places
    <3>3. conn[t] = conn[s] => conn[t] \in kept
      BY <2>4, <2>5, <3>1 DEF Places
    <3>. QED  BY <2>1, <3>1, <3>2, <3>3
  <2>6. ASSUME NEW t \in Instances, NEW c \in Range(backlog'[t])
        PROVE  c \in Range(backlog[t]) /\ phase'[c] = "queued"
    <3>1. c \in Range(backlog[t])
      BY <2>2, <2>3, <2>4, <2>6
    <3>2. c \in Clients /\ phase[c] = "queued"
      BY <3>1, <1>0 DEF Places
    <3>3. c # conn[s]
      BY <3>2, NotHeld
    <3>4. c \in Range(backlog[s]) => kept # {}
      BY <2>2, <2>4, <2>6, <3>1 DEF Places
    <3>. QED  BY <2>1, <3>1, <3>2, <3>3, <3>4
  <2>8. \A t \in Instances : conn'[t] # None => pc'[t] \in Busy \cup {"ended"}
    BY <1>5, <2>5 DEF Places
  <2>9. \A t \in Instances : conn'[t] # None => phase'[conn'[t]] = "held"
    BY <2>5
  <2>10. \A t \in Instances : \A c \in Range(backlog'[t]) : phase'[c] = "queued"
    BY <2>6
  <2>11. \A t, u \in Instances : t # u /\ conn'[t] # None => conn'[t] # conn'[u]
    BY <2>5 DEF Places
  <2>12. \A t, u \in Instances : t # u => Range(backlog'[t]) \cap Range(backlog'[u]) = {}
    BY <2>6 DEF Places
  <2>13. \A t \in Instances : \A i, j \in 1..Len(backlog'[t]) : backlog'[t][i] = backlog'[t][j] => i = j
    BY <2>2, <2>3, <2>4 DEF Places
  <2>. QED  BY <2>8, <2>9, <2>10, <2>11, <2>12, <2>13 DEF Places
<1>8. ASSUME NEW s \in Instances, StartFailed(s) \/ Fault(s) \/ BrokenPipe(s) \/ Stop(s)
      PROVE  Places'
  <2>1. PICK w \in Worlds : Leaving(s, w)
    BY <1>8, Leaves
  <2>2. /\ Release(s, StraysOf(s, w)) /\ StraysOf(s, w) \in SUBSET Clients
        /\ pc'[s] = "ended" /\ \A t \in Instances \ {s} : pc'[t] = pc[t]
    BY <2>1 DEF Leaving, StraysOf, TypeOK
  <2>. QED  BY <2>2, <1>5
<1>9. ASSUME NEW s \in Instances, NEW c \in Clients, StrayEnds(s, c)
      PROVE  Places'
  <2> DEFINE kept == StraysOf(s, strays \ {<<s, c>>})
  <2>1. UNCHANGED pc /\ kept \in SUBSET Clients
    BY <1>9 DEF StrayEnds, StraysOf
  <2>2. CASE pc[s] = "ended" /\ Release(s, kept)
    <3> HIDE DEF kept
    <3>. QED  BY <2>1, <2>2, <1>5
  <2>3. CASE UNCHANGED <<endpoint, phase, conn, backlog>>
    BY <2>1, <2>3, <1>1
  <2>. QED  BY <1>9, <2>2, <2>3 DEF StrayEnds
<1>6. ASSUME NEW c \in Clients, Connect(c)
      PROVE  Places'
  <2> DEFINE e == endpoint  longer == Append(backlog[endpoint], c)
  <2>1. /\ e \in Instances /\ phase[c] = "idle" /\ UNCHANGED <<pc, conn>>
        /\ phase' = [phase EXCEPT ![c] = "queued"] /\ backlog' = [backlog EXCEPT ![e] = longer]
    BY <1>6 DEF Connect, TypeOK
  <2>2. longer \in Seq(Clients) /\ Range(longer) = Range(backlog[e]) \cup {c}
    BY <2>1, <1>0, AppendRange
  <2>3. /\ Len(longer) = Len(backlog[e]) + 1 /\ longer[Len(backlog[e]) + 1] = c
        /\ \A i \in 1..Len(backlog[e]) : longer[i] = backlog[e][i]
        /\ Len(backlog[e]) \in Nat
    BY <2>1, <1>0, AppendProperties
  <2>4. Range(backlog[e]) = {backlog[e][i] : i \in 1..Len(backlog[e])}
    BY <2>1, <1>0, RangeEquality
  <2>5. \A t \in Instances : c \notin Range(backlog[t]) /\ conn[t] # c
    BY <2>1, NotHeld DEF Places
  <2>6. \A i, j \in 1..Len(longer) : longer[i] = longer[j] => i = j
    BY <2>1, <2>3, <2>4, <2>5 DEF Places
  <2> HIDE DEF longer
  <2>7. \A t \in Instances : backlog'[t] = IF t = e THEN longer ELSE backlog[t]
    BY <2>1 DEF TypeOK
  <2>. QED  BY <2>1, <2>2, <2>5, <2>6, <2>7, <1>0, SMTT(60) DEF Places, TypeOK
<1>7. ASSUME UNCHANGED <<pc, phase, conn, backlog>>
      PROVE  Places'
  BY <1>7 DEF Places
<1>. QED
  BY <1>2, <1>3, <1>4, <1>6, <1>7, <1>8, <1>9
  DEF Next, StartUp, Serve, Write, Leave, vars, kernelVars

-----------------------------------------------------------------------------
\* Nobody is answered before its turn; the buffer and the result are those of the client held.
Working == {"recv", "business", "run", "reply"}
OwnWork ==
  /\ \A c \in Clients : phase[c] \in {"idle", "queued"} => answer[c] = NoReply
  /\ \A s \in Instances : pc[s] \in Working => answer[conn[s]] = NoReply
  /\ \A s \in Instances : pc[s] = "business" =>
       /\ buf[s] = <<<<conn[s], read[conn[s]]>>>>
       /\ read[conn[s]] \in Lengths(conn[s])
  /\ \A s \in Instances :
       pc[s] = "reply" /\ Complete(conn[s], read[conn[s]]) /\ Absolute(conn[s])
         => result[s] = Due(Task[conn[s]], fate[conn[s]])
  /\ AnswerIsOwn

LEMMA OwnInit == Init => OwnWork
  BY DEF Init, OwnWork, AnswerIsOwn, Working

LEMMA OwnStep ==
  ASSUME ParserRight, TInv, Places, OwnWork, [Next]_vars
  PROVE  OwnWork'
<1> USE ServerAssumption DEF TInv, Working
<1>1. ASSUME UNCHANGED <<phase, conn, buf, result, read, answer, fate>>,
             \A s \in Instances : pc'[s] \in Working => pc'[s] = pc[s]
      PROVE  OwnWork'
  BY <1>1 DEF OwnWork, AnswerIsOwn
<1>2. ASSUME NEW s \in Instances, Launch(s) \/ CreatePid(s) \/ Unlink(s) \/ Bind(s)
      PROVE  OwnWork'
  <2>1. UNCHANGED <<phase, conn, buf, result, read, answer, fate>>
    BY <1>2 DEF Launch, CreatePid, Unlink, Bind, Go, judgeVars, clientVars, otherVars
  <2>2. \A t \in Instances : pc'[t] \in Working => pc'[t] = pc[t]
    BY <1>2 DEF Launch, CreatePid, Unlink, Bind, Go, Move, TypeOK
  <2>. QED  BY <2>1, <2>2, <1>1
\* A step of a busy s that changes only what belongs to its client.
<1>3. ASSUME NEW s \in Instances, pc[s] \in Busy
      PROVE  /\ conn[s] \in Clients /\ phase[conn[s]] = "held"
             /\ \A t \in Instances \ {s} : pc[t] \in Busy => conn[t] \in Clients /\ conn[t] # conn[s]
  BY <1>3 DEF Places, Held
<1>4. Working \subseteq Busy
  BY DEF Busy, Serving
<1>5. ASSUME NEW s \in Instances, Accept(s)
      PROVE  OwnWork'
  <2> DEFINE c == Head(backlog[s])
  <2>1. /\ backlog[s] \in Seq(Clients) /\ backlog[s] # <<>>
        /\ pc' = [pc EXCEPT ![s] = "recv"] /\ conn' = [conn EXCEPT ![s] = c]
        /\ phase' = [phase EXCEPT ![c] = "held"] /\ UNCHANGED <<buf, result, read, answer, fate>>
    BY <1>5 DEF Accept, Move, TypeOK, judgeVars, clientVars, otherVars
  <2>2. c \in Clients /\ c \in Range(backlog[s])
    BY <2>1, HeadTail
  <2>3. answer[c] = NoReply
    BY <2>2 DEF Places, OwnWork
  <2> HIDE DEF c
  <2>. QED  BY <2>1, <2>2, <2>3 DEF OwnWork, AnswerIsOwn, TypeOK
<1>6. ASSUME NEW s \in Instances, Recv(s)
      PROVE  OwnWork'
  <2> DEFINE c == conn[s]
  <2>1. /\ pc[s] = "recv" /\ sent[c] > 0 /\ pc' = [pc EXCEPT ![s] = "business"]
        /\ buf' = [buf EXCEPT ![s] = <<<<c, Arrived(c)>>>>] /\ read' = [read EXCEPT ![c] = Arrived(c)]
        /\ UNCHANGED <<phase, conn, result, answer, fate>>
    BY <1>6 DEF Recv, Taken, Go, Move, otherVars
  <2>2. c \in Clients /\ \A t \in Instances \ {s} : pc[t] \in Busy => conn[t] \in Clients /\ conn[t] # c
    BY <2>1, <1>3, <1>4
  <2>3. Arrived(c) \in Lengths(c)
    BY <2>1, <2>2, ArrivedType
  <2>4. answer[c] = NoReply
    BY <2>1 DEF OwnWork
  <2>5. read'[c] = Arrived(c) /\ \A d \in Clients \ {c} : read'[d] = read[d]
    BY <2>1, <2>2 DEF TypeOK
  <2> HIDE DEF c
  <2>6. AnswerIsOwn'
    BY <2>1, <2>4, <2>5 DEF OwnWork, AnswerIsOwn
  <2>7. \A t \in Instances : pc'[t] = "business" =>
          buf'[t] = <<<<conn'[t], read'[conn'[t]]>>>> /\ read'[conn'[t]] \in Lengths(conn'[t])
    BY <2>1, <2>2, <2>3, <2>5, <1>4 DEF OwnWork, TypeOK, c
  <2>8. \A t \in Instances :
          pc'[t] = "reply" /\ Complete(conn'[t], read'[conn'[t]]) /\ Absolute(conn'[t])
            => result'[t] = Due(Task[conn'[t]], fate'[conn'[t]])
    <3>1. ASSUME NEW t \in Instances, pc'[t] = "reply"
          PROVE  /\ pc[t] = "reply" /\ conn'[t] = conn[t] /\ read'[conn[t]] = read[conn[t]]
                 /\ result'[t] = result[t] /\ fate' = fate
      <4>1. t # s /\ pc[t] = "reply"
        BY <2>1, <3>1 DEF TypeOK
      <4>2. conn[t] \in Clients \ {c}
        BY <2>2, <4>1, <1>4
      <4>. QED  BY <2>1, <2>5, <4>1, <4>2
    <3>. QED  BY <3>1 DEF OwnWork
  <2>. QED  BY <2>1, <2>6, <2>7, <2>8, SMTT(60) DEF OwnWork, TypeOK
<1>7. ASSUME NEW s \in Instances, BadData(s)
      PROVE  OwnWork'
  <2>1. /\ pc' = [pc EXCEPT ![s] = "close"] /\ buf' = [buf EXCEPT ![s] = <<>>]
        /\ UNCHANGED <<phase, conn, result, read, answer, fate>>
    BY <1>7 DEF BadData, Go, Move, clientVars, otherVars
  <2>. QED  BY <2>1 DEF OwnWork, AnswerIsOwn, TypeOK
<1>8. ASSUME NEW s \in Instances, Judge(s)
      PROVE  OwnWork'
  <2> DEFINE c == conn[s]  t == Parsed(buf[s])  d == Resolve(cwd[s], t)
  <2>1. pc[s] = "business" /\ ~Derails(buf[s]) /\ UNCHANGED <<phase, conn, buf, read, answer>>
    BY <1>8 DEF Judge, Go, clientVars
  <2>2. PICK f \in Fates[c] :
          /\ fate' = [fate EXCEPT ![c] = f]
          /\ pc' = [pc EXCEPT ![s] = IF d \in Exists /\ Endless(t, f) THEN "run" ELSE "reply"]
          /\ result' = [result EXCEPT ![s] = IF d \in Exists THEN Judged(t, f, Fresh) ELSE Fresh]
    BY <1>8 DEF Judge, Go, Move
  <2>3. c \in Clients /\ \A u \in Instances \ {s} : pc[u] \in Busy => conn[u] \in Clients /\ conn[u] # c
    BY <2>1, <1>3, <1>4
  <2>4. t = Task[c]
    BY <2>1, <2>3, ZenonT(60) DEF OwnWork, ParserRight
  <2>5. answer[c] = NoReply /\ f \in Fate
    BY <2>1, <2>2, <2>3 DEF OwnWork
  <2>6. ASSUME Absolute(c)
        PROVE  (IF d \in Exists THEN Judged(t, f, Fresh) ELSE Fresh) = Due(Task[c], f)
    <3>1. d = Task[c].paths[1]
      BY <2>4, <2>6 DEF Absolute, Resolve
    <3>2. CASE d \in Exists
      BY <2>4, <2>5, <3>1, <3>2, JudgedIsDue
    <3>3. CASE d \notin Exists
      BY <3>1, <3>3 DEF Due, Fresh
    <3>. QED  BY <3>2, <3>3
  <2>7. fate'[c] = f /\ \A e \in Clients \ {c} : fate'[e] = fate[e]
    BY <2>2, <2>3 DEF TypeOK
  <2>8. result'[s] = IF d \in Exists THEN Judged(t, f, Fresh) ELSE Fresh
    BY <2>2 DEF TypeOK
  <2>9. \A u \in Instances \ {s} : pc'[u] = pc[u] /\ result'[u] = result[u]
    BY <2>2 DEF TypeOK
  <2>10. pc'[s] \in {"run", "reply"}
    BY <2>2 DEF TypeOK
  <2> HIDE DEF t, d
  <2>11. AnswerIsOwn'
    BY <2>1, <2>5, <2>7 DEF OwnWork, AnswerIsOwn
  <2>12. \A u \in Instances :
           pc'[u] = "reply" /\ Complete(conn'[u], read'[conn'[u]]) /\ Absolute(conn'[u])
             => result'[u] = Due(Task[conn'[u]], fate'[conn'[u]])
    <3>1. Absolute(c) => result'[s] = Due(Task[c], fate'[c])
      BY <2>6, <2>7, <2>8
    <3>. QED  BY <3>1, <2>1, <2>3, <2>7, <2>9, <1>4 DEF OwnWork
  <2>. QED  BY <2>1, <2>5, <2>9, <2>10, <2>11, <2>12 DEF OwnWork
<1>9. ASSUME NEW s \in Instances, Derail(s)
      PROVE  OwnWork'
  <2>1. /\ pc[s] = "business" /\ Derails(buf[s])
        /\ \E to \in {"reply", "run"} : pc' = [pc EXCEPT ![s] = to]
        /\ UNCHANGED <<phase, conn, buf, read, answer, fate>>
        /\ \A u \in Instances \ {s} : result'[u] = result[u]
    BY <1>9, ZenonT(60) DEF Derail, Go, Move, TypeOK, clientVars, otherVars
  <2>2. conn[s] \in Clients
    BY <2>1, <1>3, <1>4
  <2>3. ~Complete(conn[s], read[conn[s]])
    BY <2>1, <2>2 DEF OwnWork, ParserRight
  <2>. QED  BY <2>1, <2>3 DEF OwnWork, AnswerIsOwn, TypeOK
<1>10. ASSUME NEW s \in Instances, Send(s)
       PROVE  OwnWork'
  <2> DEFINE c == conn[s]
  <2>1. /\ pc[s] = "reply" /\ pc' = [pc EXCEPT ![s] = "close"]
        /\ UNCHANGED <<phase, conn, buf, result, read, fate>>
        /\ answer' = IF c \in left THEN answer ELSE [answer EXCEPT ![c] = result[s]]
    BY <1>10 DEF Send, Go, Move, judgeVars, otherVars
  <2>2. /\ c \in Clients /\ phase[c] = "held"
        /\ \A t \in Instances \ {s} : pc[t] \in Busy => conn[t] # c
    BY <2>1, <1>3, <1>4
  <2>3. /\ \A d \in Clients \ {c} : answer'[d] = answer[d]
        /\ answer'[c] \in {answer[c], result[s]}
    BY <2>1, <2>2 DEF TypeOK
  <2>4. Complete(c, read[c]) /\ Absolute(c) => result[s] = Due(Task[c], fate[c])
    BY <2>1 DEF OwnWork
  <2> HIDE DEF c
  <2>5. AnswerIsOwn'
    BY <2>1, <2>2, <2>3, <2>4 DEF OwnWork, AnswerIsOwn
  <2>6. \A t \in Instances : pc'[t] \in Working => answer'[conn'[t]] = NoReply
    <3>1. \A t \in Instances : pc'[t] \in Working => t # s /\ pc[t] \in Working
      BY <2>1 DEF TypeOK
    <3>2. \A t \in Instances \ {s} : pc[t] \in Busy => conn[t] \in Clients
      BY DEF Held
    <3>. QED  BY <2>1, <2>2, <2>3, <3>1, <3>2, <1>4 DEF OwnWork
  <2>. QED  BY <2>1, <2>2, <2>3, <2>5, <2>6 DEF OwnWork, TypeOK
<1>11. ASSUME NEW s \in Instances, Close(s)
       PROVE  OwnWork'
  <2> DEFINE c == conn[s]
  <2>1. /\ pc[s] = "close" /\ pc' = [pc EXCEPT ![s] = "accept"] /\ conn' = [conn EXCEPT ![s] = None]
        /\ phase' = [phase EXCEPT ![c] = "closed"]
        /\ answer' = answer \/ answer' = [answer EXCEPT ![c] = NoReply]
        /\ UNCHANGED <<buf, result, read, fate>>
    BY <1>11 DEF Close, Move, judgeVars, otherVars
  <2>2. /\ c \in Clients
        /\ \A t \in Instances \ {s} : pc[t] \in Busy => conn[t] \in Clients /\ conn[t] # c
    BY <2>1, <1>3 DEF Busy, Serving
  <2>3. \A d \in Clients : answer'[d] \in {answer[d], NoReply}
    BY <2>1, <2>2 DEF TypeOK
  <2>4. \A t \in Instances : pc'[t] \in Working => t # s /\ pc[t] = pc'[t] /\ conn'[t] = conn[t]
    BY <2>1 DEF TypeOK
  <2>5. \A t \in Instances : pc'[t] \in Working => answer'[conn'[t]] = NoReply
    BY <2>2, <2>3, <2>4, <1>4 DEF OwnWork
  <2>6. \A d \in Clients : phase'[d] \in {"idle", "queued"} => answer'[d] = NoReply
    BY <2>1, <2>2, <2>3 DEF OwnWork, TypeOK
  <2>7. AnswerIsOwn'
    BY <2>1, <2>3 DEF OwnWork, AnswerIsOwn
  <2>. QED  BY <2>1, <2>4, <2>5, <2>6, <2>7 DEF OwnWork
<1>12. ASSUME NEW s \in Instances, pc'[s] = "ended",
              \A t \in Instances \ {s} :
                conn'[t] = conn[t] /\ buf'[t] = buf[t] /\ result'[t] = result[t] /\ pc'[t] = pc[t],
              \A c \in Clients : phase'[c] \in {"reset", phase[c]}, UNCHANGED <<read, answer, fate>>
       PROVE  OwnWork'
  <2>1. \A c \in Clients : phase'[c] \in {"idle", "queued"} => answer'[c] = NoReply
    BY <1>12 DEF OwnWork
  <2>2. AnswerIsOwn'
    BY <1>12 DEF OwnWork, AnswerIsOwn
  <2>. QED  BY <1>12, <2>1, <2>2 DEF OwnWork
<1>15. ASSUME NEW s \in Instances, StartFailed(s) \/ Fault(s) \/ BrokenPipe(s) \/ Stop(s)
       PROVE  OwnWork'
  <2>1. PICK w \in Worlds : Leaving(s, w)
    BY <1>15, Leaves
  <2>2. /\ pc'[s] = "ended" /\ UNCHANGED <<read, answer, fate>>
        /\ \A c \in Clients : phase'[c] \in {"reset", phase[c]}
        /\ \A t \in Instances \ {s} :
             conn'[t] = conn[t] /\ buf'[t] = buf[t] /\ result'[t] = result[t] /\ pc'[t] = pc[t]
    BY <2>1 DEF Leaving, Release, Blank, TypeOK, clientVars
  <2>. QED  BY <2>2, <1>12
<1>16. ASSUME NEW s \in Instances, NEW c \in Clients, StrayEnds(s, c)
       PROVE  OwnWork'
  <2>1. CASE pc[s] = "ended"
    <3>1. /\ pc'[s] = "ended" /\ UNCHANGED <<read, answer, fate>>
          /\ \A d \in Clients : phase'[d] \in {"reset", phase[d]}
          /\ \A t \in Instances \ {s} :
               conn'[t] = conn[t] /\ buf'[t] = buf[t] /\ result'[t] = result[t] /\ pc'[t] = pc[t]
      BY <1>16, <2>1 DEF StrayEnds, Release, TypeOK, judgeVars, clientVars
    <3>. QED  BY <3>1, <1>12
  <2>2. CASE pc[s] # "ended"
    <3>1. UNCHANGED <<pc, phase, conn, buf, result, read, answer, fate>>
      BY <1>16, <2>2 DEF StrayEnds, judgeVars, clientVars
    <3>. QED  BY <3>1 DEF OwnWork, AnswerIsOwn
  <2>. QED  BY <2>1, <2>2
<1>13. ASSUME NEW c \in Clients, Connect(c)
       PROVE  OwnWork'
  <2>1. /\ phase[c] = "idle" /\ phase' = [phase EXCEPT ![c] = "queued"]
        /\ UNCHANGED <<pc, conn, buf, result, read, answer, fate>>
    BY <1>13 DEF Connect, judgeVars, clientVars, otherVars
  <2>. QED  BY <2>1 DEF OwnWork, AnswerIsOwn, TypeOK
<1>14. ASSUME UNCHANGED <<pc, phase, conn, buf, result, read, answer, fate>>
       PROVE  OwnWork'
  BY <1>14 DEF OwnWork, AnswerIsOwn
<1>. QED
  BY <1>2, <1>5, <1>6, <1>7, <1>8, <1>9, <1>10, <1>11, <1>13, <1>14, <1>15, <1>16
  DEF Next, StartUp, Serve, Write, Leave,
      vars, kernelVars, judgeVars, clientVars, otherVars

LEMMA OwnAlways ==
  ASSUME ParserRight
  PROVE  Spec => [](TInv /\ OwnWork)
<1>1. Init => TInv /\ Places /\ OwnWork
  BY TypeInit, PlacesInit, OwnInit
<1>2. TInv /\ Places /\ OwnWork /\ [Next]_vars => (TInv /\ Places /\ OwnWork)'
  BY TypeStep, PlacesStep, OwnStep
<1>. QED  BY <1>1, <1>2, PTL DEF Spec

\* What an instance takes for a task was sent as such by the client it holds: the buffer has
\* nothing of another one in it, and no part of a text is taken for another task
\* (server.c:55-75, utils.c:99-174).
THEOREM ParsedAsSentHolds ==
  ASSUME \A c \in Clients : Task[c] \in PlainTask
  PROVE  Spec => []ParsedAsSent
<1>1. ParserRight
  BY ParserIsRight
<1>2. TInv /\ OwnWork => ParsedAsSent
  BY <1>1 DEF OwnWork, ParsedAsSent, ParserRight, TInv, Held, Busy, Serving
<1>. QED  BY OwnAlways, <1>1, <1>2, PTL

\* A request that arrives as a whole is parsed to its end, in any company (utils.c:99-174).
THEOREM WholeNeverDerailsHolds ==
  ASSUME \A c \in Clients : Task[c] \in PlainTask
  PROVE  Spec => []WholeNeverDerails
<1>1. ParserRight
  BY ParserIsRight
<1>2. TInv /\ OwnWork => WholeNeverDerails
  BY <1>1 DEF OwnWork, WholeNeverDerails, ParserRight, TInv, Held, Busy, Serving
<1>. QED  BY OwnAlways, <1>1, <1>2, PTL

\* Nobody is told what another one's task came to: the answer to a complete request with an
\* absolute work_dir is the one a fresh judged would give (server.c:67-72, judge.c:9-19).
THEOREM AnswerIsOwnHolds ==
  ASSUME \A c \in Clients : Task[c] \in PlainTask
  PROVE  Spec => []AnswerIsOwn
<1>1. OwnWork => AnswerIsOwn
  BY DEF OwnWork
<1>. QED  BY OwnAlways, ParserIsRight, <1>1, PTL
=============================================================================
