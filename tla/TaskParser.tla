----------------------------- MODULE TaskParser -----------------------------
(***************************************************************************)
(* A task as text: the compact JSON with a fixed order of keys that the    *)
(* clients of judged write (judger.rb, example/testd.rb), and parse_task() *)
(* (utils.c), which scans for the next colon, comma, quote or bracket and  *)
(* looks at nothing else.  A text is a sequence of tokens: these marks,    *)
(* and words, the runs of other characters between them.  No string of a   *)
(* task has a quote or a backslash in it: the escapes of JSON are not      *)
(* undone.                                                                 *)
(***************************************************************************)
EXTENDS Naturals, SequencesExt

CONSTANTS
  Words,      \* the tokens that are no mark
  Numerals,   \* the words that strtoul reads as numbers
  ExecArgc    \* EXEC_ARGC, the room for argv and for envp with their final NULL

\* The characters the parser looks for.
Marks == {"quote", "[", "]", ",", ":"}

Tokens == Marks \cup Words

ASSUME ParserAssumption ==
  /\ \A m \in Marks : m \notin Words
  /\ Numerals \cup {"{", "}", "key", "null"} \subseteq Words
  /\ ExecArgc \in Nat

\* A task the parser is made for: no string has a quote in it, and no element of a list, of
\* which there is one at least and not too many, begins with a closing bracket.
Plain == {s \in Seq(Tokens) : "quote" \notin Range(s)}

PlainList ==
  {l \in Seq(Plain) : /\ Len(l) \in 1..(ExecArgc - 1)
                      /\ \A i \in DOMAIN l : l[i] # <<>> => l[i][1] # "]"}

PlainTask ==
  [limits : [1..6 -> Numerals], paths : [1..8 -> Plain], argv : PlainList, envp : PlainList]

--------------------------- (* what clients write *) -------------------------
String(s) == <<"quote">> \o s \o <<"quote">>

\* Ruby's array with the nil that stands for NULL.
List(l) ==
  <<"[">> \o FlattenSeq([i \in DOMAIN l |-> String(l[i]) \o <<",">>]) \o <<"null", "]">>

\* The values in the order of judger.rb.
Members(t) ==
  [i \in 1..6 |-> <<t.limits[i]>>] \o [i \in 1..4 |-> String(t.paths[i])]
    \o <<List(t.argv), List(t.envp)>> \o [i \in 1..4 |-> String(t.paths[i + 4])]

Text(t) ==
  LET member(i) == String(<<"key">>) \o <<":">> \o Members(t)[i]
  IN FlattenSeq([i \in 1..16 |-> <<IF i = 1 THEN "{" ELSE ",">> \o member(i)]) \o <<"}">>

------------------------- (* what parse_task reads *) -------------------------
\* The cursor after a scan that found nothing before the end of the buffer: what it
\* goes on to read, and to write over, is undefined.
Lost == 0

\* The position n after the first token of S in b at or after p.
Past(b, p, S, n) ==
  LET hits == {i \in p..Len(b) : b[i] \in S}
  IN IF p = Lost \/ hits = {} THEN Lost
     ELSE n + CHOOSE i \in hits : \A j \in hits : i <= j

\* p++ over whatever character is there: of a run of others, the rest is left.
Skip(b, p) == IF p \in 1..Len(b) /\ b[p] \in Marks THEN p + 1 ELSE p

\* strtoul: anything that is not a number is 0, which is UNLIMITED.
Strtoul(s) == IF \E n \in Numerals : s = <<n>> THEN s[1] ELSE "0"

ReadNumber(b, p) ==
  LET from == Past(b, p, {":"}, 1)
      to == Past(b, from, {","}, 0)
  IN [at |-> to, val |-> Strtoul(SubSeq(b, from, to - 1))]

ReadString(b, p) ==
  LET from == Skip(b, Past(b, p, {":"}, 1))
      to == Past(b, from, {"quote"}, 0)
  IN [at |-> to, val |-> SubSeq(b, from, to - 1)]

\* Mutant: the bracket is not looked for behind an element.
ReadListUnended(b, p) ==
  LET items[q \in 0..Len(b) + 2] ==
        IF q = Lost \/ q > Len(b) THEN [at |-> Lost, val |-> <<>>]
        ELSE IF b[q] = "]" THEN [at |-> q, val |-> <<>>]
        ELSE LET after == Past(b, q, {"quote"}, 1)
                 rest == items[Past(b, after, {"quote"}, 1)]
             IN [at |-> rest.at, val |-> <<SubSeq(b, q, after - 2)>> \o rest.val]
      all == items[Skip(b, Past(b, p, {"["}, 1))]
  IN [at |-> IF Len(all.val) < ExecArgc THEN all.at ELSE Lost, val |-> all.val]

\* An element ends at a quote, and the next quote or bracket starts another or ends the list.
Items(b) ==
  LET items[q \in 0..Len(b) + 2] ==
        IF q = Lost \/ q > Len(b) THEN [at |-> Lost, val |-> <<>>]
        ELSE IF b[q] = "]" THEN [at |-> q, val |-> <<>>]
        ELSE LET after == Past(b, q, {"quote"}, 1)
                 stop == Past(b, after, {"quote", "]"}, 0)
                 rest == items[IF stop # Lost /\ b[stop] = "quote" THEN stop + 1 ELSE stop]
             IN [at |-> rest.at, val |-> <<SubSeq(b, q, after - 2)>> \o rest.val]
  IN items

\* The opening bracket and the quote after it are skipped, whatever that quote is.  More
\* elements than there is room for are written behind it.
ReadList(b, p) ==
  LET all == Items(b)[Skip(b, Past(b, p, {"["}, 1))]
  IN [at |-> IF Len(all.val) < ExecArgc THEN all.at ELSE Lost, val |-> all.val]

Script == [i \in 1..16 |-> IF i <= 6 THEN "number" ELSE IF i \in {11, 12} THEN "list" ELSE "string"]

Read(b, p, kind) ==
  CASE kind = "number" -> ReadNumber(b, p)
    [] kind = "string" -> ReadString(b, p)
    [] kind = "list"   -> ReadList(b, p)

\* parse_task on the buffer b after each of its statements: where it is and what it has read.
Progress(b) ==
  LET state[i \in 0..16] ==
        IF i = 0 THEN [at |-> 1, vals |-> <<>>]
        ELSE LET next == Read(b, state[i - 1].at, Script[i])
             IN [at |-> next.at, vals |-> Append(state[i - 1].vals, next.val)]
  IN state

Scan(b) == Progress(b)[16]

\* The assignments to *task.
TaskOf(v) ==
  [limits |-> SubSeq(v, 1, 6), paths |-> SubSeq(v, 7, 10) \o SubSeq(v, 13, 16),
   argv |-> v[11], envp |-> v[12]]
=============================================================================
