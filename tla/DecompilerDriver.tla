-------------------------- MODULE DecompilerDriver --------------------------
(***************************************************************************)
(* retdec-decompiler (retdec-decompiler.cpp): main runs decompile itself,  *)
(* or in a thread that it gives up waiting for after a timeout, and cleans *)
(* up.  decompile extracts, unpacks (unpackertool, unpacker::Plugin) and   *)
(* decompiles; the temporary files it makes are put into po.toClean.       *)
(*                                                                         *)
(* The thread takes a step of its own for every file it makes and for      *)
(* every file it registers.  It may hang in any step.  main and a detached *)
(* thread both use toClean, without a lock.                                *)
(***************************************************************************)
EXTENDS Integers, Sequences, FiniteSets

CONSTANTS
  Options,                  \* [timeout, cleanup, dash, fat, ar, packers]
  Plugins                   \* PluginMgr::plugins

Temps == {"extracted_m", "extracted", "unpacked"}

VARIABLES
  opt,                      \* What the user asked for and the file is.
  main,                     \* "start", "run", "wait", "cleanup", "exited", or
                            \* "aborted": the process ended without main
  ret,                      \* ret
  w,                        \* Where decompile is; "finished" sets the future.
  result,                   \* Its return value or exception.
  input,                    \* config.parameters.getInputFile()
  files,                    \* The temporary files: "none", "partial", "complete"
  toClean,                  \* po.toClean
  cached,                   \* _cachedExitCode of each plugin
  pos,                      \* The packer detected that is dealt with.
  visited,                  \* What the loop of cleanup has removed.
  raced                     \* toClean was changed during that loop.

workerVars == <<w, result, input, files, toClean, cached, pos>>
vars == <<opt, main, ret, workerVars, visited, raced>>

Init ==
  /\ opt \in Options
  /\ main = "start" /\ ret = "ok" /\ w = "none" /\ result = "none"
  /\ input = "user" /\ files = [f \in Temps |-> "none"] /\ toClean = {}
  /\ cached = [p \in Plugins |-> "unpacked"] /\ pos = 1
  /\ visited = {} /\ raced = FALSE

-----------------------------------------------------------------------------
(* decompile, in its own thread while main waits or cleans up *)

At(pc) == w = pc /\ main \in {"run", "wait", "cleanup"}

\* return, or an exception that leaves decompile.
Leave(r) == w' = "finished" /\ result' = r

Goto(pc) == w' = pc /\ UNCHANGED result

\* The input is replaced by a temporary file, and the file registered.
Register(f, pc) ==
  /\ Goto(pc)
  /\ input' = f
  /\ toClean' = toClean \cup {f}
  /\ raced' = (raced \/ main = "cleanup")
  /\ UNCHANGED <<opt, main, ret, files, cached, pos, visited>>

\* Mach-O extraction.
ExtractMachO ==
  /\ At("macho")
  /\ \/ opt.fat = "no" /\ Goto("ar") /\ UNCHANGED files
     \/ opt.fat = "bad" /\ Leave("runtime_error") /\ UNCHANGED files
     \/ /\ opt.fat = "ok" /\ Goto("macho_done")
        /\ files' = [files EXCEPT !["extracted_m"] = "complete"]
  /\ UNCHANGED <<opt, main, ret, input, toClean, cached, pos, visited, raced>>

RegisterMachO == At("macho_done") /\ Register("extracted_m", "ar")

\* Archive extraction; an archive none of whose members is asked for is refused.
ExtractArchive ==
  /\ At("ar")
  /\ \/ opt.ar = "no" /\ Goto("unpack") /\ UNCHANGED files
     \/ opt.ar = "bad" /\ Leave("runtime_error") /\ UNCHANGED files
     \/ opt.ar = "archive" /\ Leave("failure") /\ UNCHANGED files
     \/ /\ opt.ar = "ok" /\ Goto("ar_done")
        /\ files' = [files EXCEPT !["extracted"] = "complete"]
  /\ UNCHANGED <<opt, main, ret, input, toClean, cached, pos, visited, raced>>

RegisterArchive == At("ar_done") /\ Register("extracted", "unpack")

\* Mutated form of RunPlugin: any plugin that was run ends the loop.
RunPluginOnce ==
  /\ At("unpack") /\ ~opt.dash /\ pos <= Len(opt.packers) /\ opt.packers[pos] \in Plugins
  /\ \E out \in {"unpacked", "failed", "unsupported"} :
       /\ cached' = [cached EXCEPT ![opt.packers[pos]] = out]
       /\ Goto("unpack_done")
       /\ files' = IF out = "unpacked"
                   THEN [files EXCEPT !["unpacked"] = "complete"] ELSE files
  /\ pos' = pos + 1
  /\ UNCHANGED <<opt, main, ret, input, toClean, visited, raced>>

\* unpackFile, one packer: Plugin::run of the plugin for it, unless its last exit
\* code was not a success.  A plugin writes while it unpacks.
RunPlugin ==
  /\ At("unpack") /\ ~opt.dash /\ pos <= Len(opt.packers) /\ opt.packers[pos] \in Plugins
  /\ cached[opt.packers[pos]] = "unpacked"
  /\ \E out \in {"unpacked", "failed", "unsupported"} :
       /\ cached' = [cached EXCEPT ![opt.packers[pos]] = out]
       /\ IF out = "unpacked"
          THEN /\ Goto("unpack_done")
               /\ files' = [files EXCEPT !["unpacked"] = "complete"]
          ELSE /\ Goto("unpack")
               /\ \/ UNCHANGED files
                  \/ files' = [files EXCEPT !["unpacked"] = "partial"]
  /\ pos' = pos + 1
  /\ UNCHANGED <<opt, main, ret, input, toClean, visited, raced>>

\* There is no plugin for the packer, or its exit code is cached.
SkipPacker ==
  /\ At("unpack") /\ ~opt.dash /\ pos <= Len(opt.packers)
  /\ opt.packers[pos] \in Plugins => cached[opt.packers[pos]] # "unpacked"
  /\ pos' = pos + 1
  /\ UNCHANGED <<opt, main, ret, w, result, input, files, toClean, cached, visited, raced>>

\* The unpacker takes a name that begins with a dash for an unknown option: it
\* prints its help and returns EXIT_CODE_OK.
PrintHelp ==
  /\ At("unpack") /\ opt.dash
  /\ Goto("unpack_done")
  /\ UNCHANGED <<opt, main, ret, input, files, toClean, cached, pos, visited, raced>>

\* EXIT_CODE_OK
RegisterUnpacked == At("unpack_done") /\ Register("unpacked", "decompile")

\* Any other exit code: the input stays.
NotUnpacked ==
  /\ At("unpack") /\ ~opt.dash /\ pos > Len(opt.packers)
  /\ Goto("decompile")
  /\ UNCHANGED <<opt, main, ret, input, files, toClean, cached, pos, visited, raced>>

\* retdec::decompile
Decompile ==
  /\ At("decompile")
  /\ Leave("ok")
  /\ UNCHANGED <<opt, main, ret, input, files, toClean, cached, pos, visited, raced>>

\* Memory runs out, or another exception leaves an extraction, a plugin or a
\* pass.
Throw ==
  /\ \E pc \in {"macho", "ar", "unpack", "decompile"} : At(pc)
  /\ \E e \in {"runtime_error", "bad_alloc", "other"} : Leave(e)
  /\ UNCHANGED <<opt, main, ret, input, files, toClean, cached, pos, visited, raced>>

\* The decoder ends the process when the translator throws: exit(1), whatever
\* main is doing.
ExitInPass ==
  /\ At("decompile")
  /\ main' = "aborted" /\ ret' = "failure"
  /\ UNCHANGED <<opt, workerVars, visited, raced>>

Worker ==
  \/ ExtractMachO \/ RegisterMachO \/ ExtractArchive \/ RegisterArchive
  \/ RunPlugin \/ SkipPacker \/ PrintHelp \/ RegisterUnpacked \/ NotUnpacked
  \/ Decompile \/ Throw \/ ExitInPass

-----------------------------------------------------------------------------
(* main *)

Start ==
  /\ main = "start"
  /\ main' = IF opt.timeout THEN "wait" ELSE "run"
  /\ w' = "macho"
  /\ UNCHANGED <<opt, ret, result, input, files, toClean, cached, pos, visited, raced>>

\* Mutated form of Collect: an exception leaves ret as it was.
CollectNoCode ==
  /\ main \in {"run", "wait"} /\ w = "finished"
  /\ main' = IF result = "other" THEN "aborted" ELSE "cleanup"
  /\ ret' = IF result = "failure" THEN "failure" ELSE ret
  /\ UNCHANGED <<opt, workerVars, visited, raced>>

\* Mutated form of Collect: the catch clauses are behind the cleanup.
CollectNoCleanup ==
  /\ main \in {"run", "wait"} /\ w = "finished"
  /\ main' = IF result = "other" THEN "aborted"
             ELSE IF result \in {"runtime_error", "bad_alloc"} THEN "exited"
             ELSE "cleanup"
  /\ ret' = IF result = "runtime_error" THEN "failure" ELSE result
  /\ UNCHANGED <<opt, workerVars, visited, raced>>

\* decompile is over: thr.join() and future.get(), or the call returns.  What is
\* neither a runtime_error nor a bad_alloc is not caught.
Collect ==
  /\ main \in {"run", "wait"} /\ w = "finished"
  /\ main' = IF result = "other" THEN "aborted" ELSE "cleanup"
  /\ ret' = IF result = "runtime_error" THEN "failure" ELSE result
  /\ UNCHANGED <<opt, workerVars, visited, raced>>

\* Mutated form of TimeOut: the thread is joined, not detached.
TimeOutJoin ==
  /\ main = "wait" /\ w # "finished"
  /\ main' = "run" /\ ret' = "timeout"
  /\ UNCHANGED <<opt, workerVars, visited, raced>>

\* wait_for gives up: thr.detach()
TimeOut ==
  /\ main = "wait" /\ w # "finished"
  /\ main' = "cleanup" /\ ret' = "timeout"
  /\ UNCHANGED <<opt, workerVars, visited, raced>>

\* One turn of the loop of cleanup.
CleanNext ==
  /\ main = "cleanup" /\ opt.cleanup
  /\ \E f \in toClean \ visited :
       /\ files' = [files EXCEPT ![f] = "none"]
       /\ visited' = visited \cup {f}
  /\ UNCHANGED <<opt, main, ret, w, result, input, toClean, cached, pos, raced>>

\* The loop is over and main returns.  After an insertion by the thread the
\* iterator may miss elements or lead nowhere.
CleanEnd ==
  /\ main = "cleanup"
  /\ opt.cleanup => toClean \subseteq visited \/ raced
  /\ main' \in IF raced THEN {"exited", "aborted"} ELSE {"exited"}
  /\ UNCHANGED <<opt, ret, workerVars, visited, raced>>

Main == Start \/ Collect \/ TimeOut \/ CleanNext \/ CleanEnd

\* The process has ended, and its threads with it.
Ended == main \in {"exited", "aborted"} /\ UNCHANGED vars

Next == Worker \/ Main \/ Ended

\* main never waits but for the future and the timer; the thread may hang.
Spec == Init /\ [][Next]_vars /\ WF_vars(Main)

-----------------------------------------------------------------------------
(* Properties *)

\* The exit code tells what happened: success only after decompile has come to
\* its end, a timeout only if one was set, and the failure of decompile whenever
\* the thread was waited for; a late answer never changes it.
ExitCodeIsTruthful ==
  main = "exited" =>
    /\ ret = "ok" => w = "finished" /\ result = "ok"
    /\ ret = "timeout" => opt.timeout
    /\ ret \in {"failure", "bad_alloc"} => w = "finished" /\ result # "ok"
    /\ ret # "timeout" /\ result = "bad_alloc" => ret = "bad_alloc"

\* What is decompiled is the user's file or a temporary file that was written to
\* its end, whichever plugins failed before; at least while main has not begun
\* to remove files, and not for a name that the unpacker does not take.
InputIsComplete ==
  w = "decompile" /\ ~opt.dash /\ main \in {"run", "wait"} =>
    input = "user" \/ files[input] = "complete"

\* When decompile was waited for, no temporary file that was finished is left,
\* on whatever path it ended.
FinishedFilesRemoved ==
  main = "exited" /\ opt.cleanup /\ ret # "timeout" =>
    \A f \in Temps : files[f] # "complete"

\* With a timeout the program ends, even if the decompilation hangs.
TimeoutEnds == opt.timeout => <>(main \in {"exited", "aborted"})
=============================================================================
