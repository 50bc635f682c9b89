------------------------- MODULE MCTerminatingCalls -------------------------
(***************************************************************************)
(* Small decoded modules for TerminatingCalls: one-byte instructions at    *)
(* 1..N, functions that begin at starts, Exit, which is known not to       *)
(* return, and Puts, which returns.                                        *)
(***************************************************************************)
EXTENDS TerminatingCalls

N == 6
MCImage == 1..N
Exit == N + 1
Puts == N + 2

\* A family of programs: the addresses of their functions, the instructions,
\* those at the end of a function, the functions that are called, whether
\* conditional branches may go back, the number of calls and branches.
Family(starts, ops, lastOps, callees, back, maxFlow) ==
  [starts |-> starts, ops |-> ops, lastOps |-> lastOps, callees |-> callees,
   back |-> back, maxFlow |-> maxFlow]

\* Three functions of two instructions that call each other.
Three == Family({1, 3, 5}, {"op", "ccall"}, {"ret", "tail"}, {1, 3, 5, Exit}, FALSE, 4)

\* One function of five instructions and one of one; with loops or without.
Two(back) ==
  Family({1, 6}, {"op", "nop", "call", "br", "cond", "ccall"}, {"call", "br", "ret"},
         {6, Exit}, back, 3)

PlainOps == {"op", "nop", "ret"}
InsnsOfOps(ops, callees) ==
  [op : ops \cap PlainOps, t : {NoAddr}]
    \cup [op : ops \cap {"br", "cond"}, t : MCImage]
    \cup [op : ops \cap CallKinds, t : callees]

Ends(i) == i.op \in {"ret", "br", "tail"} \/ (i.op = "call" /\ i.t = Exit)

\* Jumps go into their own function, not to its first block; a function ends
\* where the flow does, but for the last, behind which nothing can be decoded.
InsnsAt(fam, a) ==
  LET f    == Max({s \in fam.starts : s <= a})
      last == a = N \/ a + 1 \in fam.starts
      own  == {x \in (f + 1)..N : \A s \in fam.starts : s > f => x < s} \ {a + 1}
  IN  {i \in InsnsOfOps(IF last THEN fam.lastOps ELSE fam.ops, fam.callees) :
         /\ i.op \in {"br", "cond"} => i.t \in own
         /\ i.op = "cond" => fam.back \/ i.t > a
         /\ last /\ a # N => Ends(i)}

FlowIn(code) == Cardinality({a \in 1..Len(code) : code[a].op \notin PlainOps})

Codes(fam) ==
  FoldLeft(LAMBDA codes, a : {code \in {Append(c, i) : c \in codes, i \in InsnsAt(fam, a)} :
                                FlowIn(code) <= fam.maxFlow},
           {<<>>}, [a \in MCImage |-> a])

Leaders(i, starts) ==
  starts \cup {i[a].t : a \in {a \in MCImage : i[a].op \in {"br", "cond"}}}
    \cup {a \in MCImage \ {1} : Ends(i[a - 1]) \/ i[a - 1].op \in {"cond", "ccall"}}

Kind(i, a) ==
  CASE i[a].op = "ccall" -> {[at |-> a, to |-> a + 1, kind |-> "condcall"]}
    [] i[a].op = "br"    -> {[at |-> a, to |-> i[a].t, kind |-> "br"]}
    [] i[a].op = "cond"  -> {[at |-> a, to |-> i[a].t, kind |-> "true"],
                             [at |-> a, to |-> a + 1, kind |-> "false"]}
    [] OTHER             -> {[at |-> a, to |-> a + 1, kind |-> "br"]}

\* The module that decoding leaves: a block at every leader, in the order of
\* the addresses.
Module(i, starts, leaders) ==
  [fncs  |-> [f \in starts \cup {Exit, Puts} |->
                IF f \notin starts THEN <<>>
                ELSE SetToSortSeq({b \in leaders : f <= b /\ \A s \in starts : s > f => b < s}, <)],
   bbOf  |-> [a \in MCImage |-> Max({b \in leaders : b <= a})],
   end   |-> [a \in MCImage |-> a + 1],
   edges |-> UNION {Kind(i, a) : a \in
               {a \in MCImage :
                  \/ i[a].op \in {"br", "cond", "ccall"}
                  \/ ~Ends(i[a]) /\ a + 1 \in leaders}},
   fncSz |-> <<>>]

\* Every block is met by the flow from the start of its function: other code
\* would be a function of its own.
Flows(m) ==
  \A S \in SUBSET {m.bbOf[a] : a \in MCImage} :
    (\A f \in DOMAIN m.fncs : m.fncs[f] = <<>> \/ f \in S)
      /\ (\A e \in m.edges : m.bbOf[e.at] \in S => e.to \in S)
    => \A a \in MCImage : m.bbOf[a] \in S

Program(i, starts) ==
  [insn |-> i, ir |-> Module(i, starts, Leaders(i, starts)),
   returns |-> {a \in MCImage : i[a].op \in {"ret", "tail"} \/ (a = N /\ ~Ends(i[a]))},
   terminating |-> {Exit}]

\* Programs in which Exit is called, and a function that may turn out not to
\* return.
Calls(code, gs) ==
  \E a \in MCImage : code[a].op \in CallKinds /\ code[a].t \in gs

ProgramsOf(fam) ==
  {p \in {Program(i, fam.starts) :
            i \in {i \in Codes(fam) : Calls(i, {Exit}) /\ Calls(i, fam.starts)}} : Flows(p.ir)}

MCPrograms == ProgramsOf(Three) \cup ProgramsOf(Two(FALSE))

ASSUME ProgramsAreWellDecoded ==
  \A p \in MCPrograms : WellDecoded(p) /\ CondsLeadForward(p)
=============================================================================
