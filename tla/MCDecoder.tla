----------------------------- MODULE MCDecoder ------------------------------
(***************************************************************************)
(* Small binaries for Decoder, in three families: jumps and calls among    *)
(* five instructions of one byte; instructions that overlap, in four       *)
(* bytes; and code mixed with data, in four bytes.                         *)
(***************************************************************************)
EXTENDS Decoder

MCImage == 1..5
Import == 6                 \* An import, at an address without data.

Plain(ops) == [op : ops, sz : {1}, t : {NoAddr}]
Flow(ops, sizes, targets) == [op : ops, sz : sizes, t : targets]
Jumps == {"br", "cond", "call"}

Layout(prim, alt, strict, targets, entry, imports, term) ==
  [primary |-> prim, alternative |-> alt, strict |-> strict,
   targets |-> targets, entry |-> entry, imports |-> imports,
   terminating |-> term]

EntryTarget == JumpTarget(ENTRY_POINT, 1, NoAddr, 0)
Symbol(a, sz) == JumpTarget(SYMBOL, a, NoAddr, sz)

\* The entry point only, or also a function symbol, without and with a size.
Entry(n) == Layout(1..n, {}, FALSE, {EntryTarget}, 1, {}, {})
Unsized(n) == Layout(1..n, {}, FALSE, {EntryTarget, Symbol(2, 0)}, 1, {}, {})
Sized(n) == Layout(1..n, {}, FALSE, {EntryTarget, Symbol(3, 2)}, 1, {}, {})

\* Data from 3 on, with a symbol; an import that does not return.
Data == Layout(1..2, 3..4, FALSE, {EntryTarget, Symbol(4, 0)}, 1, {Import}, {Import})
\* No code section: the data ranges are promoted, and strict.
Strict == Layout(1..4, {}, TRUE, {EntryTarget}, 1, {Import}, {})
\* No entry point: leftovers only.
Leftovers ==
  Layout(1..4, {}, FALSE, {JumpTarget(IMPORT, Import, NoAddr, 0)}, NoAddr, {Import}, {})

\* The addresses of the instructions of code that have a target.
HasTarget(code) == {a \in DOMAIN code : code[a].t # NoAddr}

\* Behind the code of a binary of four bytes there is nothing to decode.
Nothing == [op |-> "bad", sz |-> 1, t |-> NoAddr]
Padded(codes) == {Append(code, Nothing) : code \in codes}

Binaries(codes, layouts) == [insn : codes, conf : layouts]

\* The entry is a jump, one that does nothing there shows little, and the last
\* instruction is a return.
Return == [op |-> "ret", sz |-> 1, t |-> NoAddr]
FlowCodes ==
  {Append(code, Return) :
     code \in {c \in [1..4 -> {Return} \cup Flow(Jumps, {1}, 1..4)] :
                 1 \in HasTarget(c) /\ Cardinality(HasTarget(c)) = 3}}

OverlapCodes ==
  {code \in [1..4 -> Plain({"op", "ret"}) \cup Flow(Jumps, {1, 2}, 1..4)] :
     1 \in HasTarget(code) /\ Cardinality(HasTarget(code)) <= 2}

\* At most two of the instructions that a dry run or the data is about, one of
\* them with a target.
Common == {"op", "ret"}
DataCodes ==
  {code \in [1..4 -> Plain(Common \cup {"bad", "nop", "hlt", "mov1", "int80", "syscall"})
                       \cup Flow(Jumps \cup {"load"}, {1}, (1..4) \cup {Import})] :
     /\ Cardinality(HasTarget(code)) <= 1
     /\ Cardinality({a \in 1..4 : code[a].op \notin Common}) <= 2}

MCInputs ==
  Binaries(FlowCodes, {Unsized(5), Sized(5)})
    \cup Binaries(Padded(OverlapCodes), {Entry(4), Sized(4)})
    \cup Binaries(Padded(DataCodes), {Data, Strict, Leftovers})

-----------------------------------------------------------------------------
(* A binary with a function that begins inside of the code of a block *)

SplitImage == 1..30

\* The jump at 3 is given up, because 20 is in a symbol with a size; it leaves the
\* block 4 behind, and the code goes on in block 3.  The loop to 5 puts 4 out of
\* order, and the call of 8 moves it to the function at 8, together with the
\* block 9, which the jump at 10 had kept in the function around it.  Then 4 is
\* called.
SplitCode ==
  LET Br(t) == [op |-> "br", sz |-> 1, t |-> t]
      Cond(t) == [op |-> "cond", sz |-> 1, t |-> t]
      Call(t) == [op |-> "call", sz |-> 1, t |-> t]
      Plain1(op) == [op |-> op, sz |-> 1, t |-> NoAddr]
      Ret == Plain1("ret")
  IN  <<Br(17), Br(10), Cond(20), Plain1("op"), Cond(5), Br(8), Nothing, Cond(1),
        Ret, Cond(2), Call(23), Call(24), Call(26), Call(27), Call(29), Ret,
        Cond(2), Ret, Nothing, Nothing, Nothing, Nothing,
        Br(9), Call(2), Ret, Br(3), Call(8), Ret, Call(4), Ret>>

SplitInputs ==
  Binaries({SplitCode},
           {Layout(SplitImage, {}, FALSE, {EntryTarget, Symbol(18, 5)}, 1, {}, {})})
=============================================================================
