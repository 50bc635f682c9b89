----------------------------- MODULE MCArmMode ------------------------------
(***************************************************************************)
(* Small binaries for ArmMode: the halfwords at Slots, an instruction of   *)
(* interest in one mode, first or after others; instructions that go on up *)
(* to a return at the end around it and in the other mode; a symbol.       *)
(***************************************************************************)
EXTENDS ArmMode

CONSTANTS Slots, Places, Kinds, Ops, Conds, Targets, Imports

First == Min(Slots)

\* In THUMB mode BL has 4 bytes, the others have 2.
Sized(m, op) == IF m = "ARM" \/ op = "bl" THEN 4 ELSE 2

Plain(m) == [op |-> "plain", cond |-> FALSE, t |-> 0, size |-> Sized(m, "plain")]
Return(m) == [op |-> "ret", cond |-> FALSE, t |-> 0, size |-> Sized(m, "ret")]

Flows(m) ==
  {i \in [op : Ops, cond : Conds, t : Targets, size : {2, 4}] :
     /\ i.size = Sized(m, i.op)
     /\ i.op \in {"b", "bl", "ldr"} => i.t % 2 = 0
     /\ i.op \in {"bad", "ret"} => i.t = Min(Targets)
     /\ i.op \in {"bad", "ldr"} => ~i.cond}

\* The instruction i at place p in mode m.
CodeWith(m, p, i) ==
  [x \in Modes |-> [a \in Slots |->
     IF x = m /\ a = p THEN i
     ELSE IF a = Max(Slots) THEN Return(x) ELSE Plain(x)]]

Symbols == {NoTarget} \cup [type : {"SYMBOL"}, addr : {First}, mode : Modes]

\* A symbol has a size in the second.
Layouts == {[primary |-> Slots, alternative |-> {}, size |-> 0],
            [primary |-> {Max(Slots)}, alternative |-> Slots \ {Max(Slots)}, size |-> 8]}

\* The first halfword looks like any kind in either mode, the others all alike.
Dries ==
  {[m \in Modes |-> [a \in Slots |-> IF a = First THEN f[m] ELSE r]] :
     f \in [Modes -> Kinds], r \in {"push", "none"}}

MCInputs ==
  {[primary |-> l.primary, alternative |-> l.alternative, strict |-> s,
    symbol |-> y, size |-> l.size, imports |-> Imports, dry |-> d, code |-> c] :
      l \in Layouts, s \in BOOLEAN, y \in Symbols, d \in Dries,
      c \in UNION {{CodeWith(m, p, i) : i \in Flows(m), p \in Places} : m \in Modes}}
=============================================================================
