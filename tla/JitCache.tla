------------------------------- MODULE JitCache -------------------------------
(***************************************************************************)
(* The compile driver and the code cache: compile_function() compiles the  *)
(* functions of a program on demand, following the calls in their bodies,  *)
(* and keeps the machine code of each on disk, keyed by a hash of its IR.  *)
(* Cached code holds the addresses its callees had in the run that wrote   *)
(* it; patch_and_register_cached() replaces them.                          *)
(*                                                                         *)
(* A step is one entry into compile_function(), one call site, or one      *)
(* effect on the disk or the executable memory; `frames' is the C++ call   *)
(* stack.  Runs of the compiler, edits of the program and crashes          *)
(* alternate; the disk is all that survives a run.  A second compiler, of  *)
(* this program or of one edited since it was started, works in the same   *)
(* directory: of it only what it does to the disk is modelled.             *)
(***************************************************************************)
EXTENDS Naturals, SequencesExt

CONSTANTS
  N,         \* functions of the program, in the order of ir_funcs
  Text,      \* what the IR of a function may be; the hash tells them apart
  Calls,     \* Calls[f][t]: the functions f calls when its IR is t, in order
  Signature, \* Signature[f][t]: the types of its parameters and result
  Layout,    \* struct declarations; code depends on them, and on the signatures of the
             \* functions it calls, and the hash leaves both out
  MaxRuns,   \* bound: runs of the compiler
  MaxRival   \* bound: what the second compiler does to the disk

Func == 1..N
Null == 0

ASSUME JitAssumption ==
  /\ N \in Nat \ {0} /\ MaxRuns \in Nat /\ MaxRival \in Nat
  /\ Calls \in [Func -> [Text -> Seq(Func)]]

VARIABLES
  text,          \* the program: the IR of every function
  layout,        \* and its struct declarations
  disk,          \* [functions with a cache file -> contents]
  runs,
  rival,         \* what the second compiler has done
  status,        \* "idle", "compiling", "ran" (main was called) or "threw"
  next_func,     \* the loop of compile()
  frames,        \* activations of compile_function(), innermost last
  function_map,  \* [registered functions -> address or Null]
  memory,        \* [addresses where code is installed -> code]
  reported       \* this run has printed an error

process == <<next_func, frames, function_map, memory, reported>>
jitVars == <<text, layout, disk, runs, rival, status, process>>

\* The address of the writer of f; no two runs map the same memory, the second
\* compiler (run 0) included.
Address(f) == runs * N + f
RivalAddress(f) == f

Addresses == 0..(MaxRuns + 1) * N

\* What the calls of a function may have been compiled for.
Signatures == UNION {[D -> {Signature[f][t] : f \in Func, t \in Text}] : D \in SUBSET Func}

Code == [text : Text, layout : Layout, signatures : Signatures,
         targets : Seq(Addresses), complete : BOOLEAN]

\* What the variables hold; all addresses are of runs there have been.
JitTypeOK ==
  /\ text \in [Func -> Text] /\ layout \in Layout
  /\ DOMAIN disk \subseteq Func /\ \A f \in DOMAIN disk : disk[f].code \in Code
  /\ runs \in 0..MaxRuns /\ rival \in 0..MaxRival /\ next_func \in 1..N + 1
  /\ status \in {"idle", "compiling", "ran", "threw"}
  /\ DOMAIN function_map \subseteq Func /\ Range(function_map) \subseteq Addresses
  /\ \A a \in DOMAIN memory : memory[a] \in Code
  /\ reported \in BOOLEAN

NewProcess == /\ next_func' = 1 /\ frames' = <<>>
              /\ function_map' = <<>> /\ memory' = <<>> /\ reported' = FALSE

JitInit ==
  /\ text \in [Func -> Text] /\ layout \in Layout
  /\ disk = <<>> /\ runs = 0 /\ rival = 0 /\ status = "idle"
  /\ next_func = 1 /\ frames = <<>> /\ function_map = <<>> /\ memory = <<>> /\ reported = FALSE

With(map, x, y) == [z \in DOMAIN map \cup {x} |-> IF z = x THEN y ELSE map[z]]
Without(map, x) == [z \in DOMAIN map \ {x} |-> map[z]]

-------------------------------------------------------------------------------
(* Between runs. *)

Edit ==
  /\ status = "idle"
  /\ \/ \E f \in Func, t \in Text : text' = [text EXCEPT ![f] = t] /\ UNCHANGED layout
     \/ layout' \in Layout /\ UNCHANGED text
  /\ UNCHANGED <<disk, runs, rival, status, process>>

Start ==
  /\ status = "idle" /\ runs < MaxRuns
  /\ runs' = runs + 1 /\ status' = "compiling"
  /\ UNCHANGED <<text, layout, disk, rival, process>>

Exit ==
  /\ status \in {"ran", "threw"}
  /\ status' = "idle" /\ NewProcess
  /\ UNCHANGED <<text, layout, disk, runs, rival>>

\* op_call places arguments and results by the types that its callee has in the
\* program being compiled.
CalleeSignatures(f, program) == [g \in Range(Calls[f][program[f]]) |-> Signature[g][program[g]]]

\* A file of the second compiler, which has read an older program.
RivalFile(f, older) ==
  LET calls == Calls[f][older[f]] IN
  [hash |-> older[f], address_map |-> [g \in {f} \cup Range(calls) |-> RivalAddress(g)],
   code |-> [text |-> older[f], layout |-> layout, signatures |-> CalleeSignatures(f, older),
             targets |-> [i \in DOMAIN calls |-> RivalAddress(calls[i])], complete |-> TRUE]]

\* It truncates a file, or writes one, at any moment of this one's life.
Rival ==
  /\ rival < MaxRival
  /\ rival' = rival + 1
  /\ \E f \in Func :
       \/ f \in DOMAIN disk /\ disk' = Without(disk, f)
       \/ \E older \in [Func -> Text] : disk' = With(disk, f, RivalFile(f, older))
  /\ UNCHANGED <<text, layout, runs, status, process>>

-------------------------------------------------------------------------------
(* compile_function(). *)

\* load_cached_code() finds a file, and its header has the hash of the IR.  The
\* file is read once: the frame keeps what was in it.
Hit(f) == f \in DOMAIN disk /\ disk[f].hash = text[f]

\* A function met for the first time: it is registered, without address while
\* its cached code is patched, with that of its writer while it is compiled.
\* (function_map decides before compiling_functions is looked at.)
Enter(f) ==
  IF f \in DOMAIN function_map
  THEN UNCHANGED <<function_map, frames>>
  ELSE /\ function_map' = With(function_map, f, IF Hit(f) THEN Null ELSE Address(f))
       /\ frames' = Append(frames, [func |-> f, cached |-> Hit(f),
                                    file |-> IF Hit(f) THEN disk[f] ELSE <<>>, targets |-> <<>>,
                                    pending |-> {}, stopped |-> FALSE, written |-> FALSE])

\* Mutant: the loop goes on only after a function it compiled itself.
CompileNextStays ==
  /\ status = "compiling" /\ frames = <<>> /\ next_func <= N
  /\ Enter(next_func)
  /\ next_func' = IF next_func \in DOMAIN function_map THEN next_func ELSE next_func + 1
  /\ UNCHANGED <<text, layout, disk, runs, rival, status, memory, reported>>

\* Mutant: the loop runs once too often.
CompileNextOffByOne ==
  /\ status = "compiling" /\ frames = <<>> /\ next_func <= N + 1
  /\ Enter(next_func)
  /\ next_func' = next_func + 1
  /\ UNCHANGED <<text, layout, disk, runs, rival, status, memory, reported>>

CompileNext ==
  /\ status = "compiling" /\ frames = <<>> /\ next_func <= N
  /\ Enter(next_func)
  /\ next_func' = next_func + 1
  /\ UNCHANGED <<text, layout, disk, runs, rival, status, memory, reported>>

Top == Last(frames)
SetTop(frame) == frames' = Append(Front(frames), frame)
In(cached) == status = "compiling" /\ frames # <<>> /\ Top.cached = cached
File == Top.file

\* The call site the innermost activation is at, and those of the function.
Site == Len(Top.targets) + 1
Sites == IF Top.cached THEN Len(File.code.targets) ELSE Len(Calls[Top.func][text[Top.func]])
AtCall(cached) == In(cached) /\ ~Top.stopped /\ Site <= Sites
BodyDone(cached) == In(cached) /\ (Top.stopped \/ Site > Sites)

\* old_addr_to_name
NameOf(address) == CHOOSE f \in DOMAIN File.address_map : File.address_map[f] = address

Callee == IF Top.cached THEN NameOf(File.code.targets[Site])
          ELSE Calls[Top.func][text[Top.func]][Site]

Registered == Callee \in DOMAIN function_map
Resolved == Registered /\ function_map[Callee] # Null

SiteDone == UNCHANGED <<text, layout, disk, runs, rival, status, next_func, function_map, memory>>

\* op_call, or a call found in cached code, of a function not seen before.
CompileCallee ==
  /\ \E cached \in BOOLEAN : AtCall(cached)
  /\ ~Registered
  /\ Enter(Callee)
  /\ UNCHANGED <<text, layout, disk, runs, rival, status, next_func, memory, reported>>

\* The address of the callee is emitted, or patched in.
Call ==
  /\ \E cached \in BOOLEAN : AtCall(cached)
  /\ Resolved
  /\ SetTop([Top EXCEPT !.targets = Append(@, function_map[Callee])])
  /\ SiteDone /\ UNCHANGED reported

\* "unresolved (null target)": generate_code gives up on the rest of the body.
CallUnresolved ==
  /\ AtCall(FALSE) /\ Registered /\ ~Resolved
  /\ SetTop([Top EXCEPT !.stopped = TRUE])
  /\ reported' = TRUE
  /\ SiteDone

\* pending_calls: the callee is itself being patched.
DeferCall ==
  /\ AtCall(TRUE) /\ Registered /\ ~Resolved
  /\ SetTop([Top EXCEPT !.targets = Append(@, File.code.targets[Site]),
                        !.pending = @ \cup {Site}])
  /\ SiteDone /\ UNCHANGED reported

FreshCode == [text |-> text[Top.func], layout |-> layout, signatures |-> CalleeSignatures(Top.func, text),
              targets |-> Top.targets, complete |-> ~Top.stopped]

\* Mutant: the addresses are those of the functions compiled to the end.
WriteInstalledOnly ==
  /\ BodyDone(FALSE) /\ ~Top.written
  /\ disk' = With(disk, Top.func,
       [hash |-> text[Top.func], code |-> FreshCode,
        address_map |-> [f \in {g \in DOMAIN function_map : function_map[g] \in DOMAIN memory}
                           |-> function_map[f]]])
  /\ SetTop([Top EXCEPT !.written = TRUE])
  /\ UNCHANGED <<text, layout, runs, rival, status, next_func, function_map, memory, reported>>

\* write_cached_code(), whatever generate_code made of the body.
WriteCachedCode ==
  /\ BodyDone(FALSE) /\ ~Top.written
  /\ disk' = With(disk, Top.func,
       [hash |-> text[Top.func], code |-> FreshCode, address_map |-> function_map])
  /\ SetTop([Top EXCEPT !.written = TRUE])
  /\ UNCHANGED <<text, layout, runs, rival, status, next_func, function_map, memory, reported>>

\* setup_function()
Install ==
  /\ BodyDone(FALSE) /\ Top.written
  /\ memory' = With(memory, Address(Top.func), FreshCode)
  /\ frames' = Front(frames)
  /\ UNCHANGED <<text, layout, disk, runs, rival, status, next_func, function_map, reported>>

\* Mutant: pending calls are looked up before the function has its address.
WithSelfNull == function_map

\* The function has an address again, and its pending calls are patched.
WithSelf == With(function_map, Top.func, Address(Top.func))

PendingName(i) == NameOf(File.code.targets[i])
PendingResolved == \A i \in Top.pending : WithSelf[PendingName(i)] # Null

\* Mutant: pending calls keep the address they had in the file.
RegisterUnpatched ==
  /\ BodyDone(TRUE) /\ PendingResolved
  /\ function_map' = WithSelf
  /\ memory' = With(memory, Address(Top.func), [File.code EXCEPT !.targets = Top.targets])
  /\ frames' = Front(frames)
  /\ UNCHANGED <<text, layout, disk, runs, rival, status, next_func, reported>>

RegisterCached ==
  /\ BodyDone(TRUE) /\ PendingResolved
  /\ function_map' = WithSelf
  /\ memory' = With(memory, Address(Top.func),
       [File.code EXCEPT !.targets = [i \in DOMAIN Top.targets |->
          IF i \in Top.pending THEN WithSelf[PendingName(i)] ELSE Top.targets[i]]])
  /\ frames' = Front(frames)
  /\ UNCHANGED <<text, layout, disk, runs, rival, status, next_func, reported>>

\* "cache patch failed: unresolved function": main() of the compiler returns 1.
PatchFails ==
  /\ BodyDone(TRUE) /\ ~PendingResolved
  /\ function_map' = WithSelf
  /\ status' = "threw"
  /\ UNCHANGED <<text, layout, disk, runs, rival, next_func, frames, memory, reported>>

RunMain ==
  /\ status = "compiling" /\ frames = <<>> /\ next_func > N
  /\ status' = "ran"
  /\ UNCHANGED <<text, layout, disk, runs, rival, process>>

\* The compiler is killed.  A file it had just truncated stays empty, which
\* load_cached_code() takes for a missing one.
Crash ==
  /\ status = "compiling"
  /\ \/ UNCHANGED disk
     \/ BodyDone(FALSE) /\ ~Top.written /\ disk' = Without(disk, Top.func)
  /\ status' = "idle" /\ NewProcess
  /\ UNCHANGED <<text, layout, runs, rival>>

CompileStep ==
  \/ CompileNext \/ CompileCallee \/ Call \/ CallUnresolved \/ DeferCall
  \/ WriteCachedCode \/ Install \/ RegisterCached \/ PatchFails \/ RunMain

JitNext == Edit \/ Start \/ Exit \/ Rival \/ Crash \/ CompileStep

\* The compiler is one thread that runs on until it is done or killed.
JitSpec == JitInit /\ [][JitNext]_jitVars /\ WF_jitVars(CompileStep)

-------------------------------------------------------------------------------
(* Correctness. *)

\* What is installed is what compiling the present program from nothing gives:
\* every function is there, compiled from its present IR, the present struct
\* layouts and the present signatures of its callees, and each call goes to where
\* its callee is.
Linked ==
  \A f \in Func :
    /\ f \in DOMAIN function_map /\ function_map[f] \in DOMAIN memory
    /\ memory[function_map[f]] =
         [text |-> text[f], layout |-> layout, signatures |-> CalleeSignatures(f, text), complete |-> TRUE,
          targets |-> [i \in DOMAIN Calls[f][text[f]] |-> function_map[Calls[f][text[f]][i]]]]

\* The cache is transparent: whatever was compiled, edited or killed before, a
\* program that runs without an error message is the present one.
RunsTheProgram == status = "ran" /\ ~reported => Linked

\* The code installed is whole and was compiled with the present struct
\* declarations, for functions that take and return what they do now.
Trusted ==
  \A code \in Range(memory) :
    /\ code.complete /\ code.layout = layout
    /\ \A g \in DOMAIN code.signatures : code.signatures[g] = Signature[g][text[g]]

\* Such a run is wrong only through partial code, which recursion of any kind
\* leaves in the cache, and code for other struct declarations or other types of a
\* callee: no function is compiled from another text, and no call goes elsewhere.
RunsTheProgramIfTrusted == Trusted => RunsTheProgram

\* A program that has no undeclared function compiles: neither the null entry
\* of a function being patched nor a pending call is an error.
Resolves == status # "threw" /\ ~reported

\* The calls of the present program go down some ranking of its functions, those
\* of a function to itself aside: no two functions call each other, directly or
\* through others.
DescendsBy(rank) ==
  \A f \in Func : \A g \in Range(Calls[f][text[f]]) : g # f => rank[g] < rank[f]

MutualRecursion == ~\E rank \in [Func -> Func] : DescendsBy(rank)

\* Such a program compiles, whatever the cache holds: a function whose cached
\* code is being patched is asked for only by itself.
ResolvesWithoutMutual == ~MutualRecursion => Resolves

\* What is in a cache file can be relocated: the address map names each callee
\* and takes no two addresses in the code for the same function.
Relocatable ==
  \A f \in DOMAIN disk :
    LET file == disk[f] IN
    \A i \in DOMAIN file.code.targets :
      {g \in DOMAIN file.address_map : file.address_map[g] = file.code.targets[i]}
        = {Calls[f][file.hash][i]}

\* On-demand compilation of recursive functions comes to an end.
Terminates == status = "compiling" ~> status # "compiling"
================================================================================
