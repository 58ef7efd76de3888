------------------------------ MODULE MCServer ------------------------------
(* The daemon on small instances: tasks, fates and directories. *)
EXTENDS Server

CONSTANTS c1, c2, c3

Asked(real, dir, src, cmd, argv, envp) ==
  [limits |-> <<"1000", real, "4096", "4096", "4096", "10">>, argv |-> argv, envp |-> envp,
   paths |-> <<dir, src, cmd, <<"./main">>, <<"1.in">>, <<"1.out">>, <<"null">>, <<"ans">>>>]

AllWords == STRING \ Marks

Env == <<<<"PATH=/bin", ":", "/usr/bin">>>>

\* A compiled program in an absolute directory, an interpreted one without a limit of the real
\* time in a relative one, and one that inherits no environment; colons, commas and brackets
\* where they may be.
Tasks ==
  [c \in Clients |->
    CASE c = c1 -> Asked("3000", <<"/", "a">>, <<"main.c">>, <<"gcc", ",", ":", "main.c">>,
                         <<<<"./main">>, <<"-x", "[", "]">>>>, Env)
      [] c = c2 -> Asked("0", <<"sub">>, <<>>, <<>>, <<<<"lua">>, <<"main.lua">>, <<"-">>, <<"-", ",">>>>, Env)
      [] c = c3 -> Asked("3000", <<"/", "a">>, <<"main.c">>, <<"cc">>, <<<<"./main">>>>, <<>>)]

F(source, compiles, run, compared) ==
  [source |-> source, length |-> 7, compiles |-> compiles, run |-> run, compared |-> compared, usage |-> 5]

\* The tasks of c1 and c2 are such as the proofs are about.
ASSUME PlainAssumption == \A c \in Clients \ {c3} : Tasks[c] \in PlainTask

TaskFates ==
  [c \in Clients |->
    CASE c = c1 -> {F(FALSE, TRUE, "quiet", "AC"), F(TRUE, FALSE, "quiet", "AC"),
                    F(TRUE, TRUE, "failed", "AC"), F(TRUE, TRUE, "quiet", "AC")}
      [] c = c2 -> {F(TRUE, TRUE, "RE", "WA"), F(TRUE, TRUE, "endless", "WA")}
      [] c = c3 -> {F(TRUE, TRUE, "failed", "AC")}]

TaskCuts == [c \in Clients |-> IF c = c2 THEN {60} ELSE {}]

Root == <<"/", "home">>
Dirs == {Root, Root \o <<"sub">>, <<"/", "a">>}
=============================================================================
