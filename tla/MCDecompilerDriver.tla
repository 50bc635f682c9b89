------------------------- MODULE MCDecompilerDriver -------------------------
(***************************************************************************)
(* Options and files for DecompilerDriver: at most two packers are         *)
(* detected, "other" is one that no plugin is for.                         *)
(***************************************************************************)
EXTENDS DecompilerDriver

MaxPackers == 2

Packers == Plugins \cup {"other"}

MCOptions ==
  [timeout : BOOLEAN, cleanup : BOOLEAN, dash : BOOLEAN,
   fat : {"no", "ok", "bad"}, ar : {"no", "ok", "bad", "archive"},
   packers : UNION {[1..n -> Packers] : n \in 0..MaxPackers}]
=============================================================================
