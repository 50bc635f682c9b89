---------------------------- MODULE DriverProofs ----------------------------
(***************************************************************************)
(* What main and the decompilation thread of retdec-decompiler guarantee,  *)
(* for every set of options and of unpacking plugins and any number of     *)
(* packers detected.                                                       *)
(***************************************************************************)
EXTENDS DecompilerDriver, TLAPS

(***************************************************************************)
(* The inductive invariant.  Each part is about one handover between main  *)
(* and the thread.                                                         *)
(***************************************************************************)

Outcomes == {"ok", "failure", "runtime_error", "bad_alloc", "other"}

BeforeUnpacked ==
  {"none", "macho", "macho_done", "ar", "ar_done", "unpack", "unpack_done"}

TypeOK ==
  /\ main \in {"start", "run", "wait", "cleanup", "exited", "aborted"}
  /\ ret \in {"ok", "failure", "bad_alloc", "other", "timeout"}
  /\ w \in BeforeUnpacked \cup {"decompile", "finished"}
  /\ result \in Outcomes \cup {"none"}
  /\ input \in Temps \cup {"user"}
  /\ files \in [Temps -> {"none", "partial", "complete"}]
  /\ toClean \subseteq Temps
  /\ visited \subseteq Temps
  /\ raced \in BOOLEAN

\* The thread runs once main has started it, and has a result once it is over.
\* Until main stops waiting nothing is cleaned and the exit code is not set.
Waiting ==
  /\ main = "start" <=> w = "none"
  /\ w = "finished" <=> result # "none"
  /\ main \in {"start", "run", "wait"} => ret = "ok" /\ visited = {} /\ ~raced
  /\ main = "wait" => opt.timeout

\* main stops waiting with the answer of the thread, or with the timeout.
Answered ==
  main \in {"cleanup", "exited"} =>
    \/ ret = "timeout" /\ opt.timeout
    \/ /\ w = "finished" /\ result # "other" /\ ~raced
       /\ ret = IF result = "runtime_error" THEN "failure" ELSE result

\* A finished file is registered, but for the one that was written last.
Registered ==
  \A f \in Temps :
    files[f] = "complete" =>
      \/ f \in toClean
      \/ <<w, f>> \in {<<"macho_done", "extracted_m">>, <<"ar_done", "extracted">>,
                       <<"unpack_done", "unpacked">>}

\* Until main stops waiting, the file that is to become the input, and the one
\* that is, are finished; what a plugin writes into is not yet the input.
Inputs ==
  main \in {"start", "run", "wait"} =>
    /\ w = "macho_done" => files["extracted_m"] = "complete"
    /\ w = "ar_done" => files["extracted"] = "complete"
    /\ w = "unpack_done" /\ ~opt.dash => files["unpacked"] = "complete"
    /\ w \in BeforeUnpacked => input # "unpacked"
    /\ \/ input = "user"
       \/ files[input] = "complete"
       \/ opt.dash /\ input = "unpacked"

\* The loop of cleanup has removed what it has visited and, at its end,
\* everything that is registered, unless the thread may still be running.
Cleaned ==
  main \in {"cleanup", "exited"} /\ ret # "timeout" =>
    /\ \A f \in visited : files[f] = "none"
    /\ main = "exited" /\ opt.cleanup => toClean \subseteq visited

IInv ==
  /\ TypeOK
  /\ Waiting
  /\ Answered
  /\ Registered
  /\ Inputs
  /\ Cleaned

-----------------------------------------------------------------------------
(* Steps of the thread *)


\* Making a file and registering it keep the invariant.
LEMMA ExtractionKeepsIt ==
  ASSUME IInv, ExtractMachO \/ RegisterMachO \/ ExtractArchive \/ RegisterArchive
  PROVE  IInv'
<1>1. CASE ExtractMachO
  <2>1. TypeOK'
    BY <1>1 DEF IInv, TypeOK, ExtractMachO, Goto, Leave, BeforeUnpacked, Outcomes, Temps
  <2>2. Waiting' /\ Answered'
    BY <1>1 DEF IInv, TypeOK, Waiting, Answered, ExtractMachO, At, Goto, Leave
  <2>3. Registered'
    BY <1>1 DEF IInv, TypeOK, Registered, ExtractMachO, At, Goto, Leave, Temps
  <2>4. Inputs'
    BY <1>1 DEF IInv, TypeOK, Inputs, ExtractMachO, At, Goto, Leave, Temps, BeforeUnpacked
  <2>5. Cleaned'
    BY <1>1 DEF IInv, TypeOK, Waiting, Answered, Cleaned, ExtractMachO, At, Goto, Leave, Temps
  <2> QED
    BY <2>1, <2>2, <2>3, <2>4, <2>5 DEF IInv
<1>2. CASE RegisterMachO
  <2>1. TypeOK'
    BY <1>2 DEF IInv, TypeOK, RegisterMachO, Register, Goto, BeforeUnpacked, Temps
  <2>2. Waiting' /\ Answered'
    BY <1>2 DEF IInv, TypeOK, Waiting, Answered, RegisterMachO, Register, At, Goto
  <2>3. Registered'
    BY <1>2 DEF IInv, TypeOK, Registered, RegisterMachO, Register, At, Goto, Temps
  <2>4. Inputs'
    BY <1>2 DEF IInv, TypeOK, Inputs, RegisterMachO, Register, At, Goto, Temps, BeforeUnpacked
  <2>5. Cleaned'
    BY <1>2 DEF IInv, TypeOK, Waiting, Answered, Cleaned, RegisterMachO, Register, At, Goto
  <2> QED
    BY <2>1, <2>2, <2>3, <2>4, <2>5 DEF IInv
<1>3. CASE ExtractArchive
  <2>1. TypeOK'
    BY <1>3 DEF IInv, TypeOK, ExtractArchive, Goto, Leave, BeforeUnpacked, Outcomes, Temps
  <2>2. Waiting' /\ Answered'
    BY <1>3 DEF IInv, TypeOK, Waiting, Answered, ExtractArchive, At, Goto, Leave
  <2>3. Registered'
    BY <1>3 DEF IInv, TypeOK, Registered, ExtractArchive, At, Goto, Leave, Temps
  <2>4. Inputs'
    BY <1>3 DEF IInv, TypeOK, Inputs, ExtractArchive, At, Goto, Leave, Temps, BeforeUnpacked
  <2>5. Cleaned'
    BY <1>3 DEF IInv, TypeOK, Waiting, Answered, Cleaned, ExtractArchive, At, Goto, Leave, Temps
  <2> QED
    BY <2>1, <2>2, <2>3, <2>4, <2>5 DEF IInv
<1>4. CASE RegisterArchive
  <2>1. TypeOK'
    BY <1>4 DEF IInv, TypeOK, RegisterArchive, Register, Goto, BeforeUnpacked, Temps
  <2>2. Waiting' /\ Answered'
    BY <1>4 DEF IInv, TypeOK, Waiting, Answered, RegisterArchive, Register, At, Goto
  <2>3. Registered'
    BY <1>4 DEF IInv, TypeOK, Registered, RegisterArchive, Register, At, Goto, Temps
  <2>4. Inputs'
    BY <1>4 DEF IInv, TypeOK, Inputs, RegisterArchive, Register, At, Goto, Temps, BeforeUnpacked
  <2>5. Cleaned'
    BY <1>4 DEF IInv, TypeOK, Waiting, Answered, Cleaned, RegisterArchive, Register, At, Goto
  <2> QED
    BY <2>1, <2>2, <2>3, <2>4, <2>5 DEF IInv
<1> QED
  BY <1>1, <1>2, <1>3, <1>4
\* Plugins that write while they unpack, skipped packers and a name that the
\* unpacker does not take keep the invariant.
LEMMA UnpackingKeepsIt ==
  ASSUME IInv, RunPlugin \/ SkipPacker \/ PrintHelp \/ RegisterUnpacked \/ NotUnpacked
  PROVE  IInv'
<1>1. CASE RunPlugin
  <2>1. TypeOK'
    BY <1>1 DEF IInv, TypeOK, RunPlugin, At, Goto, BeforeUnpacked, Outcomes, Temps
  <2>2. Waiting' /\ Answered'
    BY <1>1 DEF IInv, TypeOK, Waiting, Answered, RunPlugin, At, Goto
  <2>3. Registered'
    BY <1>1 DEF IInv, TypeOK, Registered, RunPlugin, At, Goto, Temps
  <2>4. Inputs'
    BY <1>1 DEF IInv, TypeOK, Inputs, RunPlugin, At, Goto, Temps, BeforeUnpacked
  <2>5. Cleaned'
    BY <1>1 DEF IInv, TypeOK, Waiting, Answered, Cleaned, RunPlugin, At, Goto, Temps
  <2> QED
    BY <2>1, <2>2, <2>3, <2>4, <2>5 DEF IInv
<1>2. CASE SkipPacker
  <2>1. TypeOK'
    BY <1>2 DEF IInv, TypeOK, SkipPacker, At, BeforeUnpacked, Outcomes, Temps
  <2>2. Waiting' /\ Answered'
    BY <1>2 DEF IInv, TypeOK, Waiting, Answered, SkipPacker, At
  <2>3. Registered'
    BY <1>2 DEF IInv, TypeOK, Registered, SkipPacker, At, Temps
  <2>4. Inputs'
    BY <1>2 DEF IInv, TypeOK, Inputs, SkipPacker, At, Temps, BeforeUnpacked
  <2>5. Cleaned'
    BY <1>2 DEF IInv, TypeOK, Waiting, Answered, Cleaned, SkipPacker, At, Temps
  <2> QED
    BY <2>1, <2>2, <2>3, <2>4, <2>5 DEF IInv
<1>3. CASE PrintHelp
  <2>1. TypeOK'
    BY <1>3 DEF IInv, TypeOK, PrintHelp, At, Goto, BeforeUnpacked, Outcomes, Temps
  <2>2. Waiting' /\ Answered'
    BY <1>3 DEF IInv, TypeOK, Waiting, Answered, PrintHelp, At, Goto
  <2>3. Registered'
    BY <1>3 DEF IInv, TypeOK, Registered, PrintHelp, At, Goto, Temps
  <2>4. Inputs'
    BY <1>3 DEF IInv, TypeOK, Inputs, PrintHelp, At, Goto, Temps, BeforeUnpacked
  <2>5. Cleaned'
    BY <1>3 DEF IInv, TypeOK, Waiting, Answered, Cleaned, PrintHelp, At, Goto, Temps
  <2> QED
    BY <2>1, <2>2, <2>3, <2>4, <2>5 DEF IInv
<1>4. CASE RegisterUnpacked
  <2>1. TypeOK'
    BY <1>4 DEF IInv, TypeOK, RegisterUnpacked, Register, At, Goto, BeforeUnpacked, Outcomes, Temps
  <2>2. Waiting' /\ Answered'
    BY <1>4 DEF IInv, TypeOK, Waiting, Answered, RegisterUnpacked, Register, At, Goto
  <2>3. Registered'
    BY <1>4 DEF IInv, TypeOK, Registered, RegisterUnpacked, Register, At, Goto, Temps
  <2>4. Inputs'
    BY <1>4 DEF IInv, TypeOK, Inputs, RegisterUnpacked, Register, At, Goto, Temps, BeforeUnpacked
  <2>5. Cleaned'
    BY <1>4 DEF IInv, TypeOK, Waiting, Answered, Cleaned, RegisterUnpacked, Register, At, Goto, Temps
  <2> QED
    BY <2>1, <2>2, <2>3, <2>4, <2>5 DEF IInv
<1>5. CASE NotUnpacked
  <2>1. TypeOK'
    BY <1>5 DEF IInv, TypeOK, NotUnpacked, At, Goto, BeforeUnpacked, Outcomes, Temps
  <2>2. Waiting' /\ Answered'
    BY <1>5 DEF IInv, TypeOK, Waiting, Answered, NotUnpacked, At, Goto
  <2>3. Registered'
    BY <1>5 DEF IInv, TypeOK, Registered, NotUnpacked, At, Goto, Temps
  <2>4. Inputs'
    BY <1>5 DEF IInv, TypeOK, Inputs, NotUnpacked, At, Goto, Temps, BeforeUnpacked
  <2>5. Cleaned'
    BY <1>5 DEF IInv, TypeOK, Waiting, Answered, Cleaned, NotUnpacked, At, Goto, Temps
  <2> QED
    BY <2>1, <2>2, <2>3, <2>4, <2>5 DEF IInv
<1> QED
  BY <1>1, <1>2, <1>3, <1>4, <1>5

\* However decompile ends, its answer is consistent with what main does.
LEMMA EndingKeepsIt ==
  ASSUME IInv, Decompile \/ Throw \/ ExitInPass
  PROVE  IInv'
<1>1. CASE Decompile
  <2>1. TypeOK'
    BY <1>1 DEF IInv, TypeOK, Decompile, At, Leave, BeforeUnpacked, Outcomes, Temps
  <2>2. Waiting' /\ Answered'
    BY <1>1 DEF IInv, TypeOK, Waiting, Answered, Decompile, At, Leave
  <2>3. Registered'
    BY <1>1 DEF IInv, TypeOK, Registered, Decompile, At, Leave, Temps
  <2>4. Inputs'
    BY <1>1 DEF IInv, TypeOK, Inputs, Decompile, At, Leave, Temps, BeforeUnpacked
  <2>5. Cleaned'
    BY <1>1 DEF IInv, TypeOK, Waiting, Answered, Cleaned, Decompile, At, Leave, Temps
  <2> QED
    BY <2>1, <2>2, <2>3, <2>4, <2>5 DEF IInv
<1>2. CASE Throw
  <2>1. TypeOK'
    BY <1>2 DEF IInv, TypeOK, Throw, At, Leave, BeforeUnpacked, Outcomes, Temps
  <2>2. Waiting' /\ Answered'
    BY <1>2 DEF IInv, TypeOK, Waiting, Answered, Throw, At, Leave
  <2>3. Registered'
    BY <1>2 DEF IInv, TypeOK, Registered, Throw, At, Leave, Temps
  <2>4. Inputs'
    BY <1>2 DEF IInv, TypeOK, Inputs, Throw, At, Leave, Temps, BeforeUnpacked
  <2>5. Cleaned'
    BY <1>2 DEF IInv, TypeOK, Waiting, Answered, Cleaned, Throw, At, Leave, Temps
  <2> QED
    BY <2>1, <2>2, <2>3, <2>4, <2>5 DEF IInv
<1>3. CASE ExitInPass
  <2>1. TypeOK'
    BY <1>3 DEF IInv, TypeOK, ExitInPass, At, workerVars, BeforeUnpacked, Outcomes, Temps
  <2>2. Waiting' /\ Answered'
    BY <1>3 DEF IInv, TypeOK, Waiting, Answered, ExitInPass, At, workerVars
  <2>3. Registered'
    BY <1>3 DEF IInv, TypeOK, Registered, ExitInPass, At, workerVars, Temps
  <2>4. Inputs'
    BY <1>3 DEF IInv, TypeOK, Inputs, ExitInPass, At, workerVars, Temps, BeforeUnpacked
  <2>5. Cleaned'
    BY <1>3 DEF IInv, TypeOK, Waiting, Answered, Cleaned, ExitInPass, At, workerVars, Temps
  <2> QED
    BY <2>1, <2>2, <2>3, <2>4, <2>5 DEF IInv
<1> QED
  BY <1>1, <1>2, <1>3

-----------------------------------------------------------------------------
(* Steps of main *)

\* main starts the thread, takes its answer or gives up, and cleans up.
LEMMA MainKeepsIt ==
  ASSUME IInv, Start \/ Collect \/ TimeOut \/ CleanNext \/ CleanEnd
  PROVE  IInv'
<1>1. CASE Start
  <2>1. TypeOK'
    BY <1>1 DEF IInv, TypeOK, Start, workerVars, BeforeUnpacked, Outcomes, Temps
  <2>2. Waiting' /\ Answered'
    BY <1>1 DEF IInv, TypeOK, Waiting, Answered, Start, workerVars
  <2>3. Registered'
    BY <1>1 DEF IInv, TypeOK, Waiting, Registered, Start, workerVars, Temps
  <2>4. Inputs'
    BY <1>1 DEF IInv, TypeOK, Waiting, Inputs, Start, workerVars, Temps, BeforeUnpacked
  <2>5. Cleaned'
    BY <1>1 DEF IInv, TypeOK, Waiting, Answered, Cleaned, Start, workerVars, Temps
  <2> QED
    BY <2>1, <2>2, <2>3, <2>4, <2>5 DEF IInv
<1>2. CASE Collect
  <2>1. TypeOK'
    BY <1>2 DEF IInv, TypeOK, Waiting, Collect, workerVars, BeforeUnpacked, Outcomes, Temps
  <2>2. Waiting' /\ Answered'
    BY <1>2 DEF IInv, TypeOK, Waiting, Answered, Collect, workerVars
  <2>3. Registered'
    BY <1>2 DEF IInv, TypeOK, Registered, Collect, workerVars, Temps
  <2>4. Inputs'
    BY <1>2 DEF IInv, TypeOK, Inputs, Collect, workerVars, Temps, BeforeUnpacked
  <2>5. Cleaned'
    BY <1>2 DEF IInv, TypeOK, Waiting, Answered, Cleaned, Collect, workerVars, Temps
  <2> QED
    BY <2>1, <2>2, <2>3, <2>4, <2>5 DEF IInv
<1>3. CASE TimeOut
  <2>1. TypeOK'
    BY <1>3 DEF IInv, TypeOK, TimeOut, workerVars, BeforeUnpacked, Outcomes, Temps
  <2>2. Waiting' /\ Answered'
    BY <1>3 DEF IInv, TypeOK, Waiting, Answered, TimeOut, workerVars
  <2>3. Registered'
    BY <1>3 DEF IInv, TypeOK, Registered, TimeOut, workerVars, Temps
  <2>4. Inputs'
    BY <1>3 DEF IInv, TypeOK, Inputs, TimeOut, workerVars, Temps, BeforeUnpacked
  <2>5. Cleaned'
    BY <1>3 DEF IInv, TypeOK, Waiting, Answered, Cleaned, TimeOut, workerVars, Temps
  <2> QED
    BY <2>1, <2>2, <2>3, <2>4, <2>5 DEF IInv
<1>4. CASE CleanNext
  <2>1. TypeOK'
    BY <1>4 DEF IInv, TypeOK, CleanNext, workerVars, BeforeUnpacked, Outcomes, Temps
  <2>2. Waiting' /\ Answered'
    BY <1>4 DEF IInv, TypeOK, Waiting, Answered, CleanNext, workerVars
  <2>3. Registered'
    BY <1>4 DEF IInv, TypeOK, Registered, CleanNext, workerVars, Temps
  <2>4. Inputs'
    BY <1>4 DEF IInv, TypeOK, Inputs, CleanNext, workerVars, Temps, BeforeUnpacked
  <2>5. Cleaned'
    BY <1>4 DEF IInv, TypeOK, Waiting, Answered, Cleaned, CleanNext, workerVars, Temps
  <2> QED
    BY <2>1, <2>2, <2>3, <2>4, <2>5 DEF IInv
<1>5. CASE CleanEnd
  <2>1. TypeOK'
    BY <1>5 DEF IInv, TypeOK, CleanEnd, workerVars, BeforeUnpacked, Outcomes, Temps
  <2>2. Waiting' /\ Answered'
    BY <1>5 DEF IInv, TypeOK, Waiting, Answered, CleanEnd, workerVars
  <2>3. Registered'
    BY <1>5 DEF IInv, TypeOK, Registered, CleanEnd, workerVars, Temps
  <2>4. Inputs'
    BY <1>5 DEF IInv, TypeOK, Inputs, CleanEnd, workerVars, Temps, BeforeUnpacked
  <2>5. Cleaned'
    BY <1>5 DEF IInv, TypeOK, Waiting, Answered, Cleaned, CleanEnd, workerVars, Temps
  <2> QED
    BY <2>1, <2>2, <2>3, <2>4, <2>5 DEF IInv
<1> QED
  BY <1>1, <1>2, <1>3, <1>4, <1>5

-----------------------------------------------------------------------------
(* Theorems *)

\* The invariant holds of every behaviour of the driver.
THEOREM Invariance == Spec => []IInv
<1>1. Init => IInv
  BY DEF Init, IInv, TypeOK, Waiting, Answered, Registered, Inputs, Cleaned,
         BeforeUnpacked, Outcomes, Temps
<1>2. IInv /\ [Next]_vars => IInv'
  <2>1. ASSUME IInv, Worker PROVE IInv'
    BY <2>1, ExtractionKeepsIt, UnpackingKeepsIt, EndingKeepsIt DEF Worker
  <2>2. ASSUME IInv, Main PROVE IInv'
    BY <2>2, MainKeepsIt DEF Main
  <2>3. ASSUME IInv, UNCHANGED vars PROVE IInv'
    BY <2>3 DEF IInv, TypeOK, Waiting, Answered, Registered, Inputs, Cleaned,
                vars, workerVars
  <2> QED
    BY <2>1, <2>2, <2>3 DEF Next, Ended
<1> QED
  BY <1>1, <1>2, PTL DEF Spec

\* The exit code of main tells what happened to decompile, although the thread
\* may answer late or never.
THEOREM ExitCodeTruthful == Spec => []ExitCodeIsTruthful
<1>1. IInv => ExitCodeIsTruthful
  BY DEF IInv, TypeOK, Waiting, Answered, ExitCodeIsTruthful, Outcomes
<1> QED
  BY <1>1, Invariance, PTL

\* retdec::decompile gets the user's file or a temporary file that was written
\* to its end, whatever plugins failed before.
THEOREM InputComplete == Spec => []InputIsComplete
<1>1. IInv => InputIsComplete
  BY DEF IInv, TypeOK, Inputs, InputIsComplete
<1> QED
  BY <1>1, Invariance, PTL

\* Cleanup removes every finished temporary file on every path on which main has
\* waited for decompile.
THEOREM FinishedFilesAreRemoved == Spec => []FinishedFilesRemoved
<1>1. IInv => FinishedFilesRemoved
  BY DEF IInv, TypeOK, Answered, Registered, Cleaned, FinishedFilesRemoved
<1> QED
  BY <1>1, Invariance, PTL
=============================================================================
