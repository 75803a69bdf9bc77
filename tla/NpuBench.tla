------------------------------- MODULE NpuBench -------------------------------
(***************************************************************************)
(* The bare inference loop that the reCamera's application runs in place   *)
(* of its pipeline to find who keeps memory (esk/bench_infer.py), over the *)
(* four sequences of native calls of esk/ctypes_infer.py.  Its findings    *)
(* are worth what it can promise of itself: that it keeps nothing but in   *)
(* the mode that means to, that it stops before the board has no memory    *)
(* left, and that its report is of what it did.                            *)
(*                                                                         *)
(* Memory is counted in sets of a graph's output tensors.                  *)
(***************************************************************************)
EXTENDS Integers

CONSTANTS
  OutTensors,       \* output tensors of the graph, which has one input
  Memory,             \* memory that is available at the start
  MinFree,          \* min_free_mb
  MaxLoops          \* bound on iterations

ASSUME BenchAssumption ==
  OutTensors \in Nat /\ Memory \in Nat /\ MinFree \in Nat /\ MaxLoops \in Nat

VARIABLES
  benchMode,        \* "ctypes_" is left out of the native ones
  lent,             \* the application's own model is used
  maxIterations,            \* max_iterations, 0 for none
  readable,         \* /proc/meminfo can be read
  stage,            \* where run_bench is
  call,             \* the next call into the library
  context,          \* the one that was opened: "none", "open" or "closed"
  mems,            \* the memories in _mems
  strays,           \* memories that were created and are not in _mems
  unreleased,             \* sets of outputs fetched and not released
  iterations,
  stoppedBy,        \* stopped_by of the result, or that it has an error
  report,           \* what the file says
  outcome           \* of run_bench

benchSettings == <<benchMode, lent, maxIterations, readable>>
native == <<context, mems, strays, unreleased>>
benchVars == <<benchSettings, stage, call, native, iterations, stoppedBy,
               report, outcome>>

NativeModes == {"get", "run", "iomem", "leak"}
Owned == benchMode \in NativeModes \/ ~lent

NoReport == [of |-> 0, why |-> "nothing"]
TornReport == [of |-> 0, why |-> "unreadable"]

BenchInit ==
  /\ benchMode \in NativeModes \cup {"infer", "idle", "unknown"}
  /\ lent \in BOOLEAN /\ readable \in BOOLEAN /\ maxIterations \in 0..MaxLoops
  /\ stage = "opening" /\ call = "none"
  /\ context = "none" /\ mems = 0 /\ strays = 0 /\ unreleased = 0
  /\ iterations = 0 /\ stoppedBy = "none" /\ report = NoReport /\ outcome = "none"

-----------------------------------------------------------------------------
(* The model, before the try: what raises here is in no report, and        *)
(* nobody releases what there is already.                                  *)

NotBuilt == stage' = "ended" /\ outcome' = "raised"
BuildSteps == UNCHANGED <<benchSettings, call, unreleased, iterations, stoppedBy, report>>

(* The library and the file are opened and rknn_init accepts the graph, or *)
(* the kit loads it.                                                       *)
Opened == context' = IF Owned THEN "open" ELSE "none"

OpenModel ==
  /\ stage = "opening" /\ BuildSteps
  /\ \/ Owned /\ NotBuilt /\ UNCHANGED context
     \/ /\ Opened /\ UNCHANGED outcome
        /\ stage' = IF benchMode \in NativeModes THEN "asking" ELSE "loop"
  /\ UNCHANGED <<mems, strays>>

(* rknn_query of the numbers and attributes of the tensors.                *)
AskTensors ==
  /\ stage = "asking" /\ BuildSteps
  /\ \/ NotBuilt
     \/ stage' = (IF benchMode = "iomem" THEN "binding" ELSE "loop") /\ UNCHANGED outcome
  /\ UNCHANGED <<context, mems, strays>>

(* _setup_iomem for the next tensor: no size or no memory, or the memory   *)
(* is not accepted, before it is entered in _mems.                         *)
BindTensor ==
  /\ stage = "binding" /\ BuildSteps
  /\ \/ NotBuilt /\ strays' \in {strays, strays + 1} /\ UNCHANGED mems
     \/ /\ mems' = mems + 1
        /\ stage' = IF mems' = OutTensors + 1 THEN "loop" ELSE "binding"
        /\ UNCHANGED <<strays, outcome>>
  /\ UNCHANGED context

-----------------------------------------------------------------------------
(* The loop.                                                               *)

LoopSteps == UNCHANGED <<benchSettings, context, mems, strays, outcome>>

(* flush writes the whole file beside the old one and puts it in place.    *)
Flushed(why) == report' = [of |-> iterations, why |-> why]

(* infer: the calls of each mode, in their order.                          *)
FirstCall ==
  CASE benchMode = "idle" -> "none"
    [] benchMode \in {"infer", "unknown"} -> benchMode
    [] benchMode = "iomem" -> "sync"
    [] OTHER -> "inputs"

CallAfter(it) ==
  CASE it \in {"inputs", "sync"} -> "run"
    [] it = "run" /\ benchMode \in {"get", "leak"} -> "fetch"
    [] it = "run" /\ benchMode = "iomem" -> "read"
    [] it = "fetch" /\ benchMode = "get" -> "release"
    [] OTHER -> "none"

Raises ==
  /\ stage' = "closing" /\ stoppedBy' = "error" /\ call' = "none"
  /\ UNCHANGED iterations

Deadline ==
  /\ stage = "loop" /\ stage' = "closing"
  /\ LoopSteps /\ UNCHANGED <<call, unreleased, iterations, stoppedBy, report>>

(* The head of the loop, with a sample when one is due: the first is due   *)
(* at once.                                                                *)
TakesSample ==
  /\ stage = "loop" /\ iterations < MaxLoops
  /\ \/ /\ Flushed(stoppedBy) /\ stage' = "infer" /\ call' = FirstCall
        /\ UNCHANGED <<iterations, stoppedBy>>
     \/ Raises /\ UNCHANGED report
  /\ LoopSteps /\ UNCHANGED unreleased

NoSampleDue ==
  /\ stage = "loop" /\ 0 < iterations /\ iterations < MaxLoops
  /\ stage' = "infer" /\ call' = FirstCall
  /\ LoopSteps /\ UNCHANGED <<unreleased, iterations, stoppedBy, report>>

(* One call into the library, or into the kit; a mode that the loop does   *)
(* not know raises, and of idle's there are none.  Where a set of outputs  *)
(* finds no memory the board ends the process.                             *)
CallsNative ==
  /\ stage = "infer" /\ call \notin {"none", "unknown"}
  /\ call = "fetch" => unreleased < Memory
  /\ call' = CallAfter(call)
  /\ unreleased' = CASE call = "fetch" -> unreleased + 1
                     [] call = "release" -> unreleased - 1
                     [] OTHER -> unreleased
  /\ LoopSteps /\ UNCHANGED <<stage, iterations, stoppedBy, report>>

CallFails ==
  /\ stage = "infer" /\ call # "none"
  /\ Raises /\ LoopSteps /\ UNCHANGED <<unreleased, report>>

(* Mutant: the memory is looked at after every second iteration only.      *)
LowMemory_Seldom(left) == readable /\ left < MinFree /\ iterations % 2 = 0

(* After the last call: the iteration counts, and two reasons to stop are  *)
(* looked at, in this order.  Others may have taken memory as well.        *)
LowMemory(left) == readable /\ left < MinFree

Counts ==
  /\ stage = "infer" /\ call = "none"
  /\ iterations' = iterations + 1
  /\ \E left \in 0..(Memory - unreleased) :
       LET why == IF maxIterations # 0 /\ iterations + 1 >= maxIterations
                    THEN "max_iterations"
                  ELSE IF LowMemory(left) THEN "min_free_mb" ELSE "none"
       IN /\ stoppedBy' = why
          /\ stage' = IF why = "none" THEN "loop" ELSE "closing"
  /\ LoopSteps /\ UNCHANGED <<call, unreleased, report>>

-----------------------------------------------------------------------------
(* The end.                                                                *)

(* release: the memories, then the context.                                *)
Released == context' = (IF Owned THEN "closed" ELSE context) /\ mems' = 0

Closes ==
  /\ stage = "closing"
  /\ Flushed(stoppedBy) /\ Released
  /\ IF stoppedBy = "error" THEN stage' = "ended" /\ outcome' = "raised"
     ELSE stage' = "returned" /\ outcome' = "returned"
  /\ UNCHANGED <<benchSettings, call, strays, unreleased, iterations, stoppedBy>>

(* The last flush raises in the finally, before the release.               *)
FlushFails ==
  /\ stage = "closing" /\ NotBuilt
  /\ UNCHANGED <<benchSettings, call, native, iterations, stoppedBy, report>>

(* _run_bench opens the file again and writes the same with the clocks: it *)
(* cannot be opened, is written, or is left cut off.                       *)
WriteAgain ==
  /\ stage = "returned" /\ stage' = "ended"
  /\ report' \in {report, TornReport}
  /\ UNCHANGED <<benchSettings, call, native, iterations, stoppedBy, outcome>>

BenchNext ==
  \/ OpenModel \/ AskTensors \/ BindTensor
  \/ Deadline \/ TakesSample \/ NoSampleDue \/ CallsNative \/ CallFails \/ Counts
  \/ Closes \/ FlushFails \/ WriteAgain

BenchSpec == BenchInit /\ [][BenchNext]_benchVars

-----------------------------------------------------------------------------
(* Properties.                                                             *)

(* The curves can be told apart: between two iterations, and when the      *)
(* bench returns, the library has nothing of it but in the mode "leak",    *)
(* where it has one set of outputs for each iteration.  Where memory can   *)
(* be read, the bench takes one set at most beyond min_free_mb.  Who gets  *)
(* a result back finds the context closed and every memory given back, and *)
(* a report that gives a reason gives the one for which the bench stopped, *)
(* with all its iterations.                                                *)
BenchIsHonest ==
  /\ stage = "loop" \/ outcome = "returned" =>
       unreleased = IF benchMode = "leak" THEN iterations ELSE 0
  /\ readable => unreleased <= 1 \/ Memory - unreleased + 1 >= MinFree
  /\ outcome = "returned" => context # "open" /\ mems = 0 /\ strays = 0
  /\ report.why \notin {"nothing", "unreadable", "none"} =>
       report = [of |-> iterations, why |-> stoppedBy]
===============================================================================
