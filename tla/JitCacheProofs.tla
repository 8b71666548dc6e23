---------------------------- MODULE JitCacheProofs ----------------------------
(***************************************************************************)
(* Proofs about JitCache, for every program, every history of runs, edits  *)
(* and crashes and everything a second compiler does to the directory.     *)
(*                                                                         *)
(* The inductive invariant JInv says two things.  A cache file, wherever   *)
(* it is held, was written in one run: its address map and its code speak  *)
(* of the addresses of that run (FileOK).  And while a run compiles, a     *)
(* function either is on the stack or is installed, and nothing calls an   *)
(* address of another run (CompilingOK).                                   *)
(***************************************************************************)
EXTENDS JitCache, SequenceFacts

\* The address of the writer of g in run r.
AddressIn(r, g) == r * N + g

AddressMap == UNION {[D -> Addresses] : D \in SUBSET Func}
CacheFile == [hash : Text, address_map : AddressMap, code : Code]
Frame == [func : Func, cached : BOOLEAN, file : CacheFile \cup {<<>>},
          targets : Seq(Addresses), pending : SUBSET Nat,
          stopped : BOOLEAN, written : BOOLEAN]

-------------------------------------------------------------------------------
(* The inductive invariant.  Its parts name the run, the program and the   *)
(* map they are about, so that a lemma can say when they outlive a step.   *)

\* Targets emitted for these calls, in run r, where the address map was map.
WrittenIn(r, map, calls, targets) ==
  /\ \A g \in DOMAIN map : map[g] \in {Null, AddressIn(r, g)}
  /\ Len(targets) <= Len(calls)
  /\ \A i \in 1..Len(targets) :
       /\ calls[i] \in DOMAIN map
       /\ map[calls[i]] = AddressIn(r, calls[i]) /\ targets[i] = AddressIn(r, calls[i])

\* A cache file of f, from one of the runs up to the last.
FileOK(f, file, last) ==
  /\ file \in CacheFile /\ file.code.text = file.hash
  /\ \E r \in 0..last :
       WrittenIn(r, file.address_map, Calls[f][file.hash], file.code.targets)
  /\ file.code.complete => Len(file.code.targets) = Len(Calls[f][file.hash])
  /\ DOMAIN file.code.signatures = Range(Calls[f][file.hash])

\* An activation of compile_function() for code of the text txt: what it has
\* emitted or patched are addresses of run r, what it left pending has been met.
FrameOK(frame, r, txt, map) ==
  LET calls == Calls[frame.func][txt] IN
  /\ frame.func \in DOMAIN map
  /\ frame.pending \subseteq 1..Len(frame.targets)
  /\ Len(frame.targets) <= Len(calls)
  /\ \A i \in 1..Len(frame.targets) :
       /\ calls[i] \in DOMAIN map
       /\ i \notin frame.pending =>
            map[calls[i]] = AddressIn(r, calls[i]) /\ frame.targets[i] = AddressIn(r, calls[i])
  /\ IF frame.cached
     THEN /\ FileOK(frame.func, frame.file, r) /\ frame.file.hash = txt
          /\ map[frame.func] = Null /\ ~frame.stopped
          /\ Len(frame.targets) <= Len(frame.file.code.targets)
     ELSE frame.pending = {} /\ map[frame.func] = AddressIn(r, frame.func)

\* Code for f, of the text txt, installed in run r.
CodeOK(f, code, r, txt) ==
  /\ code \in Code /\ code.text = txt
  /\ Len(code.targets) <= Len(Calls[f][txt])
  /\ \A i \in 1..Len(code.targets) : code.targets[i] = AddressIn(r, Calls[f][txt][i])
  /\ code.complete => Len(code.targets) = Len(Calls[f][txt])
  /\ DOMAIN code.signatures = Range(Calls[f][txt])

OnStack(f) == \E i \in DOMAIN frames : frames[i].func = f

MapOK == \A g \in DOMAIN function_map : function_map[g] \in {Null, AddressIn(runs, g)}

FramesOK ==
  \A i \in DOMAIN frames : FrameOK(frames[i], runs, text[frames[i].func], function_map)

FramesDistinct ==
  \A i, j \in DOMAIN frames : frames[i].func = frames[j].func => i = j

\* What has been met is being compiled or is installed.
InstalledOK ==
  \A f \in DOMAIN function_map :
    OnStack(f) \/ /\ function_map[f] = AddressIn(runs, f)
                  /\ AddressIn(runs, f) \in DOMAIN memory
                  /\ CodeOK(f, memory[AddressIn(runs, f)], runs, text[f])

CompilingOK == MapOK /\ FramesOK /\ FramesDistinct /\ InstalledOK

MetBefore == \A f \in Func : f < next_func => f \in DOMAIN function_map

NoProcess ==
  next_func = 1 /\ frames = <<>> /\ function_map = <<>> /\ memory = <<>> /\ reported = FALSE

Typed ==
  /\ text \in [Func -> Text] /\ layout \in Layout
  /\ runs \in 0..MaxRuns /\ rival \in 0..MaxRival /\ next_func \in 1..N + 1
  /\ status \in {"idle", "compiling", "ran", "threw"}
  /\ function_map \in AddressMap /\ frames \in Seq(Frame)
  /\ \A a \in DOMAIN memory : memory[a] \in Code
  /\ reported \in BOOLEAN

DiskOK == DOMAIN disk \subseteq Func /\ \A f \in DOMAIN disk : FileOK(f, disk[f], runs)

JInv ==
  /\ Typed /\ DiskOK
  /\ status = "idle" => NoProcess
  /\ status \in {"compiling", "ran"} => CompilingOK /\ MetBefore
  /\ status = "ran" => frames = <<>> /\ next_func = N + 1

-------------------------------------------------------------------------------
(* Addresses. *)

\* A run gives no two functions the same address, and none the null address.
LEMMA AddressFacts ==
  ASSUME NEW r \in Nat, NEW g \in Func
  PROVE  /\ AddressIn(r, g) \in Nat /\ AddressIn(r, g) # Null
         /\ \A h \in Func : AddressIn(r, g) = AddressIn(r, h) => g = h
<1>1. r * N \in Nat
  BY JitAssumption
<1> DEFINE base == r * N
<1>2. base \in Nat
  BY <1>1
<1> HIDE DEF base
<1>3. base + g \in Nat /\ base + g # 0 /\ \A h \in Func : base + g = base + h => g = h
  BY <1>2, JitAssumption DEF Func
<1> QED
  BY <1>3 DEF AddressIn, Null, base

\* The addresses of the runs there can be.
LEMMA AddressRange ==
  ASSUME NEW r \in 0..MaxRuns, NEW g \in Func
  PROVE  AddressIn(r, g) \in Addresses
<1>1. r * N <= MaxRuns * N
  <2>1. PICK d \in Nat : MaxRuns = r + d
    <3>1. MaxRuns - r \in Nat /\ MaxRuns = r + (MaxRuns - r)
      BY JitAssumption
    <3> QED
      BY <3>1
  <2>2. MaxRuns * N = r * N + d * N /\ d * N \in Nat /\ r * N \in Nat
    BY <2>1, JitAssumption
  <2> QED
    BY <2>2
<1>2. (MaxRuns + 1) * N = MaxRuns * N + N /\ r * N \in Nat /\ MaxRuns * N \in Nat
  BY JitAssumption
<1>3. g \in Nat /\ g <= N /\ N \in Nat
  BY JitAssumption DEF Func
<1> DEFINE a == r * N
           b == MaxRuns * N
           c == (MaxRuns + 1) * N
<1>4. a \in Nat /\ b \in Nat /\ a <= b /\ c = b + N
  BY <1>1, <1>2
<1> HIDE DEF a, b, c
<1>5. a + g \in 0..c
  BY <1>3, <1>4
<1> QED
  BY <1>5 DEF AddressIn, Addresses, a, c

LEMMA AddressesOfThisRun ==
  ASSUME NEW g
  PROVE  Address(g) = AddressIn(runs, g) /\ RivalAddress(g) = g
BY DEF Address, AddressIn, RivalAddress

\* The second compiler is run 0.
LEMMA RivalAddressIn ==
  ASSUME NEW g \in Func
  PROVE  RivalAddress(g) = AddressIn(0, g)
BY JitAssumption DEF RivalAddress, AddressIn, Func

LEMMA CallsTyped ==
  ASSUME NEW f \in Func, NEW t \in Text
  PROVE  /\ Calls[f][t] \in Seq(Func) /\ Len(Calls[f][t]) \in Nat
         /\ DOMAIN Calls[f][t] = 1..Len(Calls[f][t])
         /\ \A i \in 1..Len(Calls[f][t]) : Calls[f][t][i] \in Func
<1>1. Calls[f][t] \in Seq(Func)
  BY JitAssumption
<1> QED
  BY <1>1, LenProperties, ElementOfSeq

\* Code holds a signature for each function it calls.
LEMMA CalleeSignaturesTyped ==
  ASSUME NEW f \in Func, NEW program \in [Func -> Text]
  PROVE  /\ CalleeSignatures(f, program) \in Signatures
         /\ DOMAIN CalleeSignatures(f, program) = Range(Calls[f][program[f]])
<1> DEFINE called == Range(Calls[f][program[f]])
           types == {Signature[g][t] : g \in Func, t \in Text}
<1>1. program[f] \in Text /\ \A g \in Func : program[g] \in Text
  OBVIOUS
<1>2. called \subseteq Func
  BY <1>1, CallsTyped DEF Range
<1>3. \A g \in called : Signature[g][program[g]] \in types
  BY <1>1, <1>2
<1>4. CalleeSignatures(f, program) = [g \in called |-> Signature[g][program[g]]]
  BY DEF CalleeSignatures
<1> HIDE DEF called, types
<1>5. CalleeSignatures(f, program) \in [called -> types]
  BY <1>3, <1>4
<1>6. CalleeSignatures(f, program) \in Signatures
  BY <1>2, <1>5 DEF Signatures, types
<1>7. DOMAIN CalleeSignatures(f, program) = called
  BY <1>4
<1> QED
  BY <1>6, <1>7 DEF called

\* The relocation of a cache file finds the right name for an address.
LEMMA NameIsCallee ==
  ASSUME NEW r \in Nat, NEW map, DOMAIN map \subseteq Func,
         NEW calls \in Seq(Func), NEW targets \in Seq(Addresses),
         WrittenIn(r, map, calls, targets), NEW i \in 1..Len(targets)
  PROVE  /\ {g \in DOMAIN map : map[g] = targets[i]} = {calls[i]}
         /\ (CHOOSE g \in DOMAIN map : map[g] = targets[i]) = calls[i]
<1>1. calls[i] \in DOMAIN map /\ map[calls[i]] = targets[i] /\ targets[i] = AddressIn(r, calls[i])
  BY DEF WrittenIn
<1>2. \A g \in DOMAIN map : map[g] = targets[i] => g = calls[i]
  <2> SUFFICES ASSUME NEW g \in DOMAIN map, map[g] = targets[i]
               PROVE  g = calls[i]
    OBVIOUS
  <2>1. map[g] \in {Null, AddressIn(r, g)} /\ g \in Func /\ calls[i] \in Func
    BY <1>1 DEF WrittenIn
  <2> QED
    BY <1>1, <2>1, AddressFacts
<1> QED
  BY <1>1, <1>2
-------------------------------------------------------------------------------
(* Maps, files, activations. *)

LEMMA AddressMapFacts ==
  ASSUME NEW map \in AddressMap
  PROVE  /\ DOMAIN map \subseteq Func
         /\ map \in [DOMAIN map -> Addresses]
BY DEF AddressMap

\* A function gets an address, or another one.
LEMMA WithAddress ==
  ASSUME NEW map \in AddressMap, NEW f \in Func, NEW a \in Addresses
  PROVE  /\ With(map, f, a) \in AddressMap
         /\ DOMAIN With(map, f, a) = DOMAIN map \cup {f}
         /\ With(map, f, a)[f] = a
         /\ \A g \in DOMAIN map : g # f => With(map, f, a)[g] = map[g]
<1>1. DOMAIN map \subseteq Func /\ map \in [DOMAIN map -> Addresses]
  BY AddressMapFacts
<1>2. DOMAIN map \cup {f} \in SUBSET Func
  BY <1>1
<1>3. With(map, f, a) \in [DOMAIN map \cup {f} -> Addresses]
  BY <1>1 DEF With
<1> QED
  BY <1>2, <1>3 DEF AddressMap, With

LEMMA FrameTyped ==
  ASSUME NEW frame \in Frame
  PROVE  /\ frame.func \in Func /\ frame.cached \in BOOLEAN
         /\ frame.targets \in Seq(Addresses) /\ Len(frame.targets) \in Nat
         /\ frame.stopped \in BOOLEAN /\ frame.written \in BOOLEAN
         /\ frame.file \in CacheFile \cup {<<>>} /\ frame.pending \subseteq Nat
<1>1. /\ frame.func \in Func /\ frame.cached \in BOOLEAN
      /\ frame.targets \in Seq(Addresses)
      /\ frame.stopped \in BOOLEAN /\ frame.written \in BOOLEAN
      /\ frame.file \in CacheFile \cup {<<>>} /\ frame.pending \subseteq Nat
  BY DEF Frame
<1> QED
  BY <1>1, LenProperties

\* Files outlive the run that wrote them.
LEMMA FileKept ==
  ASSUME NEW f, NEW file, NEW last \in Nat, NEW later \in Nat, last <= later,
         FileOK(f, file, last)
  PROVE  FileOK(f, file, later)
<1>1. PICK r \in 0..last : WrittenIn(r, file.address_map, Calls[f][file.hash], file.code.targets)
  BY DEF FileOK
<1>2. r \in 0..later
  OBVIOUS
<1> QED
  BY <1>1, <1>2 DEF FileOK

\* What patch_and_register_cached() reads from a file.
LEMMA FileFacts ==
  ASSUME NEW f \in Func, NEW file, NEW last \in Nat, FileOK(f, file, last)
  PROVE  /\ file.hash \in Text /\ file.code \in Code /\ file.code.text = file.hash
         /\ file.code.targets \in Seq(Addresses) /\ Len(file.code.targets) \in Nat
         /\ DOMAIN file.code.targets = 1..Len(file.code.targets)
         /\ Len(file.code.targets) <= Len(Calls[f][file.hash])
         /\ file.code.complete => Len(file.code.targets) = Len(Calls[f][file.hash])
         /\ DOMAIN file.code.signatures = Range(Calls[f][file.hash])
         /\ \A i \in 1..Len(file.code.targets) :
              /\ {g \in DOMAIN file.address_map : file.address_map[g] = file.code.targets[i]}
                   = {Calls[f][file.hash][i]}
              /\ (CHOOSE g \in DOMAIN file.address_map :
                    file.address_map[g] = file.code.targets[i]) = Calls[f][file.hash][i]
<1>1. PICK r \in 0..last : WrittenIn(r, file.address_map, Calls[f][file.hash], file.code.targets)
  BY DEF FileOK
<1>2. /\ file.hash \in Text /\ file.code \in Code /\ file.address_map \in AddressMap
      /\ file.code.text = file.hash
      /\ file.code.complete => Len(file.code.targets) = Len(Calls[f][file.hash])
      /\ DOMAIN file.code.signatures = Range(Calls[f][file.hash])
  BY DEF FileOK, CacheFile
<1>3. file.code.targets \in Seq(Addresses)
  BY <1>2 DEF Code
<1>4. Len(file.code.targets) \in Nat /\ DOMAIN file.code.targets = 1..Len(file.code.targets)
  BY <1>3, LenProperties
<1>5. Calls[f][file.hash] \in Seq(Func) /\ DOMAIN file.address_map \subseteq Func /\ r \in Nat
  BY <1>2, CallsTyped, AddressMapFacts
<1>6. \A i \in 1..Len(file.code.targets) :
        /\ {g \in DOMAIN file.address_map : file.address_map[g] = file.code.targets[i]}
             = {Calls[f][file.hash][i]}
        /\ (CHOOSE g \in DOMAIN file.address_map :
              file.address_map[g] = file.code.targets[i]) = Calls[f][file.hash][i]
  BY <1>1, <1>3, <1>5, NameIsCallee, SMTT(30)
<1>7. Len(file.code.targets) <= Len(Calls[f][file.hash])
  BY <1>1 DEF WrittenIn
<1> QED
  BY <1>2, <1>3, <1>4, <1>6, <1>7

\* An activation is unmoved when other functions are met or get their address.
LEMMA FrameKept ==
  ASSUME NEW frame \in Frame, NEW r, NEW txt, NEW map, NEW map2,
         FrameOK(frame, r, txt, map),
         DOMAIN map \subseteq DOMAIN map2,
         map2[frame.func] = map[frame.func],
         \A g \in DOMAIN map : map2[g] = map[g] \/ map2[g] = AddressIn(r, g)
  PROVE  FrameOK(frame, r, txt, map2)
BY DEF FrameOK
-------------------------------------------------------------------------------
(* The three things a step does to the stack of activations. *)

StackTyped == function_map \in AddressMap /\ frames \in Seq(Frame)

\* A function is met: compile_function() is entered, unless it was met before.
LEMMA EnterKeeps ==
  ASSUME Typed, DiskOK, CompilingOK, NEW f \in Func, Enter(f),
         UNCHANGED <<text, runs, memory>>
  PROVE  /\ StackTyped' /\ CompilingOK'
         /\ DOMAIN function_map' = DOMAIN function_map \cup {f}
<1>1. CASE f \in DOMAIN function_map
  <2>1. UNCHANGED <<function_map, frames>> /\ UNCHANGED <<text, runs, memory>>
    BY <1>1 DEF Enter
  <2>2. StackTyped' /\ DOMAIN function_map' = DOMAIN function_map \cup {f}
    BY <1>1, <2>1 DEF StackTyped, Typed
  <2>3. CompilingOK'
    BY <2>1 DEF CompilingOK, MapOK, FramesOK, FramesDistinct, InstalledOK, OnStack
  <2> QED
    BY <2>2, <2>3
<1>2. CASE f \notin DOMAIN function_map
  <2> DEFINE new == [func |-> f, cached |-> Hit(f),
                     file |-> IF Hit(f) THEN disk[f] ELSE <<>>, targets |-> <<>>,
                     pending |-> {}, stopped |-> FALSE, written |-> FALSE]
             a == IF Hit(f) THEN Null ELSE AddressIn(runs, f)
  <2>1. function_map' = With(function_map, f, a) /\ frames' = Append(frames, new)
    BY <1>2, AddressesOfThisRun DEF Enter
  <2>2. runs \in 0..MaxRuns /\ runs \in Nat /\ text[f] \in Text
        /\ function_map \in AddressMap /\ frames \in Seq(Frame)
    BY JitAssumption DEF Typed
  <2>3. a \in Addresses
    <3>1. Null \in Addresses
      <4>1. (MaxRuns + 1) * N \in Nat
        BY JitAssumption
      <4> QED
        BY <4>1 DEF Null, Addresses
    <3> QED
      BY <2>2, <3>1, AddressRange
  <2>4. Hit(f) => FileOK(f, disk[f], runs) /\ disk[f] \in CacheFile /\ disk[f].hash = text[f]
    BY DEF Hit, DiskOK, FileOK
  <2>5. new \in Frame
    <3>1. <<>> \in Seq(Addresses)
      BY EmptySeq
    <3>2. Hit(f) \in BOOLEAN
      BY DEF Hit
    <3> QED
      BY <2>4, <3>1, <3>2 DEF Frame
  <2> HIDE DEF new
  <2>6. /\ function_map' \in AddressMap
        /\ DOMAIN function_map' = DOMAIN function_map \cup {f} /\ function_map'[f] = a
        /\ \A g \in DOMAIN function_map : function_map'[g] = function_map[g]
    <3> HIDE DEF a
    <3>1. /\ With(function_map, f, a) \in AddressMap
          /\ DOMAIN With(function_map, f, a) = DOMAIN function_map \cup {f}
          /\ With(function_map, f, a)[f] = a
          /\ \A g \in DOMAIN function_map :
               g # f => With(function_map, f, a)[g] = function_map[g]
      BY <2>2, <2>3, WithAddress
    <3> QED
      BY <1>2, <2>1, <3>1
  <2>7. /\ frames' \in Seq(Frame) /\ DOMAIN frames' = 1..Len(frames) + 1
        /\ DOMAIN frames = 1..Len(frames) /\ Len(frames) \in Nat
        /\ \A i \in 1..Len(frames) : frames'[i] = frames[i]
        /\ frames'[Len(frames) + 1] = new
    BY <2>1, <2>2, <2>5, AppendFacts
  <2>8. UNCHANGED <<text, runs, memory>>
    OBVIOUS
  <2>9. \A i \in 1..Len(frames) : frames[i] \in Frame /\ frames[i].func \in Func
                                  /\ frames[i].func \in DOMAIN function_map /\ frames[i].func # f
    <3> TAKE i \in 1..Len(frames)
    <3>1. frames[i] \in Frame
      BY <2>2, ElementOfSeq
    <3>2. frames[i].func \in DOMAIN function_map
      BY <2>7 DEF CompilingOK, FramesOK, FrameOK
    <3> QED
      BY <1>2, <3>1, <3>2, FrameTyped
  <2>10. MapOK'
    <3> SUFFICES ASSUME NEW g \in DOMAIN function_map'
                 PROVE  function_map'[g] \in {Null, AddressIn(runs, g)}
      BY <2>8 DEF MapOK
    <3> QED
      BY <2>6 DEF CompilingOK, MapOK
  <2>11. FramesOK'
    <3> SUFFICES ASSUME NEW i \in DOMAIN frames'
                 PROVE  FrameOK(frames'[i], runs, text[frames'[i].func], function_map')
      BY <2>8 DEF FramesOK
    <3>1. CASE i \in 1..Len(frames)
      <4>1. FrameOK(frames[i], runs, text[frames[i].func], function_map)
        BY <2>7, <3>1 DEF CompilingOK, FramesOK
      <4>2. FrameOK(frames[i], runs, text[frames[i].func], function_map')
        BY <2>6, <2>9, <3>1, <4>1, FrameKept
      <4> QED
        BY <2>7, <3>1, <4>2
    <3>2. CASE i = Len(frames) + 1
      <4>1. /\ new.func = f /\ (Hit(f) => new.cached = TRUE) /\ (~Hit(f) => new.cached = FALSE)
            /\ new.targets = <<>>
            /\ new.pending = {} /\ new.stopped = FALSE /\ (Hit(f) => new.file = disk[f])
        BY DEF new
      <4>2. Len(new.targets) = 0 /\ Len(Calls[f][text[f]]) \in Nat
        BY <2>2, <4>1, CallsTyped, EmptySeq
      <4>3. Hit(f) => 0 <= Len(disk[f].code.targets)
        BY <2>2, <2>4, FileFacts
      <4>4. f \in DOMAIN function_map'
        BY <2>6
      <4>5. FrameOK(new, runs, text[f], function_map')
        <5>1. 1..Len(new.targets) = {}
          BY <4>2
        <5>2. CASE Hit(f)
          <6>1. new.cached = TRUE /\ function_map'[f] = Null
            BY <2>6, <4>1, <5>2
          <6> QED
            BY <2>4, <4>1, <4>2, <4>3, <4>4, <5>1, <5>2, <6>1 DEF FrameOK
        <5>3. CASE ~Hit(f)
          <6>1. new.cached = FALSE /\ function_map'[f] = AddressIn(runs, f)
            BY <2>6, <4>1, <5>3
          <6> QED
            BY <4>1, <4>2, <4>4, <5>1, <6>1 DEF FrameOK
        <5> QED
          BY <5>2, <5>3
      <4> QED
        BY <2>7, <3>2, <4>1, <4>5
    <3> QED
      BY <2>7, <3>1, <3>2
  <2>12. FramesDistinct'
    <3>1. new.func = f
      BY DEF new
    <3>2. \A i, j \in 1..Len(frames) : frames[i].func = frames[j].func => i = j
      BY <2>7 DEF CompilingOK, FramesDistinct
    <3> QED
      BY <2>7, <2>9, <3>1, <3>2 DEF FramesDistinct
  <2>13. InstalledOK'
    <3> SUFFICES ASSUME NEW g \in DOMAIN function_map',
                        ~(\E i \in DOMAIN frames' : frames'[i].func = g)
                 PROVE  /\ function_map'[g] = AddressIn(runs, g)
                        /\ AddressIn(runs, g) \in DOMAIN memory
                        /\ CodeOK(g, memory[AddressIn(runs, g)], runs, text[g])
      BY <2>8 DEF InstalledOK, OnStack
    <3>1. g # f
      BY <2>7 DEF new
    <3>2. g \in DOMAIN function_map /\ ~OnStack(g)
      BY <2>6, <2>7, <3>1 DEF OnStack
    <3> QED
      BY <2>6, <3>2 DEF CompilingOK, InstalledOK
  <2> QED
    BY <2>6, <2>7, <2>10, <2>11, <2>12, <2>13 DEF StackTyped, CompilingOK
<1> QED
  BY <1>1, <1>2

\* The innermost activation goes on.
LEMMA TopAdvances ==
  ASSUME Typed, CompilingOK, frames # <<>>, NEW frame \in Frame,
         frame.func = Top.func, FrameOK(frame, runs, text[Top.func], function_map),
         SetTop(frame), UNCHANGED <<text, runs, memory, function_map>>
  PROVE  StackTyped' /\ CompilingOK'
<1>1. frames \in Seq(Frame)
  BY DEF Typed
<1>2. /\ frames' \in Seq(Frame) /\ DOMAIN frames' = 1..Len(frames)
      /\ DOMAIN frames = 1..Len(frames) /\ Len(frames) \in Nat \ {0}
      /\ \A i \in 1..Len(frames) : frames'[i] = IF i = Len(frames) THEN frame ELSE frames[i]
  BY <1>1, ReplaceLast DEF SetTop
<1>3. Top = frames[Len(frames)]
  BY DEF Top, Last
<1>4. \A i \in 1..Len(frames) : frames'[i].func = frames[i].func
  BY <1>2, <1>3
<1>5. MapOK' /\ FramesDistinct' /\ \A g : OnStack(g)' <=> OnStack(g)
  BY <1>2, <1>4 DEF CompilingOK, MapOK, FramesDistinct, OnStack
<1>6. InstalledOK'
  BY <1>5 DEF CompilingOK, InstalledOK
<1>7. FramesOK'
  BY <1>2, <1>3 DEF CompilingOK, FramesOK
<1> QED
  BY <1>2, <1>5, <1>6, <1>7 DEF StackTyped, CompilingOK, Typed

\* The innermost activation returns: its function has its address and its code.
LEMMA TopReturns ==
  ASSUME Typed, CompilingOK, frames # <<>>, NEW code,
         CodeOK(Top.func, code, runs, text[Top.func]),
         function_map' = With(function_map, Top.func, AddressIn(runs, Top.func)),
         memory' = With(memory, AddressIn(runs, Top.func), code),
         frames' = Front(frames), UNCHANGED <<text, runs>>
  PROVE  /\ StackTyped' /\ CompilingOK'
         /\ DOMAIN function_map' = DOMAIN function_map
         /\ \A a \in DOMAIN memory' : memory'[a] \in Code
<1> DEFINE f == Top.func
           address == AddressIn(runs, f)
<1>1. /\ frames \in Seq(Frame) /\ runs \in 0..MaxRuns /\ runs \in Nat
      /\ function_map \in AddressMap
  BY JitAssumption DEF Typed
<1>2. /\ frames' \in Seq(Frame) /\ DOMAIN frames' = 1..(Len(frames) - 1)
      /\ DOMAIN frames = 1..Len(frames) /\ Len(frames) \in Nat \ {0}
      /\ \A i \in DOMAIN frames' : frames'[i] = frames[i]
      /\ Top = frames[Len(frames)] /\ Top \in Frame
  BY <1>1, FrontFacts DEF Top
<1>3. f \in Func /\ f \in DOMAIN function_map
  BY <1>2, FrameTyped DEF CompilingOK, FramesOK, FrameOK
<1>4. /\ function_map' \in AddressMap /\ DOMAIN function_map' = DOMAIN function_map
      /\ function_map'[f] = address
      /\ \A g \in DOMAIN function_map : g # f => function_map'[g] = function_map[g]
  <2>1. address \in Addresses
    BY <1>1, <1>3, AddressRange
  <2> HIDE DEF f, address
  <2>2. /\ With(function_map, f, address) \in AddressMap
        /\ DOMAIN With(function_map, f, address) = DOMAIN function_map \cup {f}
        /\ With(function_map, f, address)[f] = address
        /\ \A g \in DOMAIN function_map :
             g # f => With(function_map, f, address)[g] = function_map[g]
    BY <1>1, <1>3, <2>1, WithAddress
  <2> QED
    BY <1>3, <2>2 DEF f, address
<1>5. /\ DOMAIN memory' = DOMAIN memory \cup {address} /\ memory'[address] = code
      /\ \A a \in DOMAIN memory : a # address => memory'[a] = memory[a]
  BY DEF With
<1>6. UNCHANGED <<text, runs>>
  OBVIOUS
<1>7. \A i \in DOMAIN frames' : frames[i] \in Frame /\ frames[i].func # f
  <2>1. \A i \in DOMAIN frames' : i \in 1..Len(frames) /\ i # Len(frames)
    BY <1>2
  <2> QED
    BY <1>1, <1>2, <2>1, ElementOfSeq DEF CompilingOK, FramesDistinct
<1> HIDE DEF f, address
<1>8. MapOK'
  BY <1>4, <1>6 DEF CompilingOK, MapOK, address
<1>9. FramesOK'
  <2> SUFFICES ASSUME NEW i \in DOMAIN frames'
               PROVE  FrameOK(frames[i], runs, text[frames[i].func], function_map')
    BY <1>2, <1>6 DEF FramesOK
  <2>1. FrameOK(frames[i], runs, text[frames[i].func], function_map)
    BY <1>2 DEF CompilingOK, FramesOK
  <2>2. frames[i].func \in DOMAIN function_map
    BY <2>1 DEF FrameOK
  <2>3. \A g \in DOMAIN function_map :
          function_map'[g] = function_map[g] \/ function_map'[g] = AddressIn(runs, g)
    BY <1>4 DEF address
  <2> QED
    BY <1>4, <1>7, <2>1, <2>2, <2>3, FrameKept
<1>10. FramesDistinct'
  BY <1>2 DEF CompilingOK, FramesDistinct
<1>11. InstalledOK'
  <2> SUFFICES ASSUME NEW g \in DOMAIN function_map, ~OnStack(g)'
               PROVE  /\ function_map'[g] = AddressIn(runs, g)
                      /\ AddressIn(runs, g) \in DOMAIN memory'
                      /\ CodeOK(g, memory'[AddressIn(runs, g)], runs, text[g])
    BY <1>4, <1>6 DEF InstalledOK
  <2>1. CASE g = f
    BY <1>4, <1>5, <2>1 DEF f, address
  <2>2. CASE g # f
    <3>1. ~OnStack(g)
      <4>1. \A i \in DOMAIN frames : i # Len(frames) => i \in DOMAIN frames'
        BY <1>2
      <4> QED
        BY <1>2, <2>2, <4>1 DEF OnStack, f
    <3>2. /\ function_map[g] = AddressIn(runs, g) /\ AddressIn(runs, g) \in DOMAIN memory
          /\ CodeOK(g, memory[AddressIn(runs, g)], runs, text[g])
      BY <3>1 DEF CompilingOK, InstalledOK
    <3>3. g \in Func
      BY <1>1, AddressMapFacts
    <3>4. AddressIn(runs, g) # address
      BY <1>1, <1>3, <2>2, <3>3, AddressFacts DEF address
    <3> QED
      BY <1>4, <1>5, <2>2, <3>2, <3>4
  <2> QED
    BY <2>1, <2>2
<1>12. \A a \in DOMAIN memory' : memory'[a] \in Code
  BY <1>5 DEF CodeOK, Typed
<1> QED
  BY <1>2, <1>4, <1>8, <1>9, <1>10, <1>11, <1>12 DEF StackTyped, CompilingOK
-------------------------------------------------------------------------------
(* What a step of the innermost activation finds. *)

LEMMA TopFacts ==
  ASSUME Typed, CompilingOK, frames # <<>>
  PROVE  /\ Top \in Frame /\ Top.func \in Func /\ Top.func \in DOMAIN function_map
         /\ FrameOK(Top, runs, text[Top.func], function_map)
         /\ text[Top.func] \in Text /\ runs \in Nat /\ runs \in 0..MaxRuns
         /\ Top.targets \in Seq(Addresses) /\ Len(Top.targets) \in Nat
         /\ DOMAIN Top.targets = 1..Len(Top.targets)
         /\ Top.cached \in BOOLEAN
<1>1. frames \in Seq(Frame) /\ runs \in 0..MaxRuns /\ text \in [Func -> Text]
  BY DEF Typed
<1>2. Top = frames[Len(frames)] /\ Top \in Frame /\ Len(frames) \in DOMAIN frames
  BY <1>1, FrontFacts DEF Top
<1>3. FrameOK(Top, runs, text[Top.func], function_map)
  BY <1>2 DEF CompilingOK, FramesOK
<1>4. Top.func \in DOMAIN function_map
  BY <1>3 DEF FrameOK
<1>5. Top.targets \in Seq(Addresses) /\ Top.func \in Func /\ Top.cached \in BOOLEAN
  BY <1>2, FrameTyped
<1> QED
  BY <1>1, <1>2, <1>3, <1>4, <1>5, LenProperties, JitAssumption

LEMMA CachedTop ==
  ASSUME Typed, CompilingOK, In(TRUE)
  PROVE  /\ FileOK(Top.func, File, runs) /\ File.hash = text[Top.func]
         /\ Top.cached = TRUE /\ ~Top.stopped /\ function_map[Top.func] = Null
         /\ Len(Top.targets) <= Len(File.code.targets)
         /\ Len(File.code.targets) \in Nat
<1>1. frames # <<>> /\ Top.cached = TRUE
  BY DEF In
<1>2. FrameOK(Top, runs, text[Top.func], function_map) /\ Top.func \in Func /\ runs \in Nat
  BY <1>1, TopFacts
<1>3. /\ FileOK(Top.func, File, runs) /\ File.hash = text[Top.func]
      /\ ~Top.stopped /\ function_map[Top.func] = Null
      /\ Len(Top.targets) <= Len(File.code.targets)
  BY <1>1, <1>2 DEF FrameOK, File
<1>4. Len(File.code.targets) \in Nat
  BY <1>2, <1>3, FileFacts
<1> QED
  BY <1>1, <1>3, <1>4

LEMMA FreshTop ==
  ASSUME Typed, CompilingOK, In(FALSE)
  PROVE  /\ Top.cached = FALSE /\ Top.pending = {}
         /\ function_map[Top.func] = AddressIn(runs, Top.func)
<1>1. frames # <<>> /\ Top.cached = FALSE
  BY DEF In
<1>2. FrameOK(Top, runs, text[Top.func], function_map)
  BY <1>1, TopFacts
<1> QED
  BY <1>1, <1>2 DEF FrameOK

\* The call site of an activation, compiled or cached, is that of the program.
LEMMA CalleeIsCalled ==
  ASSUME Typed, CompilingOK, NEW cached \in BOOLEAN, AtCall(cached)
  PROVE  /\ Site = Len(Top.targets) + 1
         /\ Site \in 1..Len(Calls[Top.func][text[Top.func]])
         /\ Callee = Calls[Top.func][text[Top.func]][Site]
         /\ Callee \in Func
         /\ cached => Site <= Len(File.code.targets)
<1>1. frames # <<>> /\ Site <= Sites /\ Site = Len(Top.targets) + 1 /\ Top.cached = cached
  BY DEF AtCall, In, Site
<1>2. /\ Top.func \in Func /\ text[Top.func] \in Text /\ Len(Top.targets) \in Nat
      /\ runs \in Nat
  BY <1>1, TopFacts
<1>3. /\ Len(Calls[Top.func][text[Top.func]]) \in Nat
      /\ \A i \in 1..Len(Calls[Top.func][text[Top.func]]) :
           Calls[Top.func][text[Top.func]][i] \in Func
  BY <1>2, CallsTyped
<1>4. CASE cached = TRUE
  <2>1. In(TRUE)
    BY <1>4 DEF AtCall
  <2>2. FileOK(Top.func, File, runs) /\ File.hash = text[Top.func] /\ Top.cached = TRUE
    BY <2>1, CachedTop
  <2>3. /\ Len(File.code.targets) \in Nat
        /\ Len(File.code.targets) <= Len(Calls[Top.func][text[Top.func]])
        /\ \A i \in 1..Len(File.code.targets) :
             NameOf(File.code.targets[i]) = Calls[Top.func][text[Top.func]][i]
    BY <1>2, <2>2, FileFacts DEF NameOf
  <2>4. Sites = Len(File.code.targets) /\ Callee = NameOf(File.code.targets[Site])
    BY <2>2 DEF Sites, Callee
  <2>5. Site \in 1..Len(File.code.targets)
    BY <1>1, <1>2, <2>3, <2>4
  <2>6. Site \in 1..Len(Calls[Top.func][text[Top.func]])
    BY <1>3, <2>3, <2>5
  <2>7. Callee = Calls[Top.func][text[Top.func]][Site]
    BY <2>3, <2>4, <2>5
  <2>8. Callee \in Func
    BY <1>3, <2>6, <2>7
  <2>9. Site <= Len(File.code.targets)
    BY <2>3, <2>5
  <2> QED
    BY <1>1, <2>6, <2>7, <2>8, <2>9
<1>5. CASE cached = FALSE
  <2>1. Sites = Len(Calls[Top.func][text[Top.func]])
        /\ Callee = Calls[Top.func][text[Top.func]][Site]
    BY <1>1, <1>5 DEF Sites, Callee
  <2> QED
    BY <1>1, <1>2, <1>3, <1>5, <2>1
<1> QED
  BY <1>4, <1>5

\* What generate_code() has made of a body, when it is done with it.
LEMMA FreshCodeOK ==
  ASSUME Typed, CompilingOK, BodyDone(FALSE)
  PROVE  /\ CodeOK(Top.func, FreshCode, runs, text[Top.func])
         /\ FreshCode.targets = Top.targets /\ FreshCode.text = text[Top.func]
         /\ DOMAIN FreshCode.signatures = Range(Calls[Top.func][text[Top.func]])
         /\ WrittenIn(runs, function_map, Calls[Top.func][text[Top.func]], Top.targets)
<1>1. frames # <<>> /\ In(FALSE) /\ (Top.stopped \/ Site > Sites)
  BY DEF BodyDone, In
<1>2. /\ Top \in Frame /\ FrameOK(Top, runs, text[Top.func], function_map)
      /\ Top.func \in Func /\ text[Top.func] \in Text
      /\ Top.targets \in Seq(Addresses) /\ Len(Top.targets) \in Nat
  BY <1>1, TopFacts
<1>3. Top.cached = FALSE /\ Top.pending = {}
  BY <1>1, FreshTop
<1>4. /\ Len(Top.targets) <= Len(Calls[Top.func][text[Top.func]])
      /\ \A i \in 1..Len(Top.targets) :
           /\ Calls[Top.func][text[Top.func]][i] \in DOMAIN function_map
           /\ function_map[Calls[Top.func][text[Top.func]][i]]
                = AddressIn(runs, Calls[Top.func][text[Top.func]][i])
           /\ Top.targets[i] = AddressIn(runs, Calls[Top.func][text[Top.func]][i])
  BY <1>2, <1>3 DEF FrameOK
<1>5. Top.stopped \in BOOLEAN /\ layout \in Layout
      /\ CalleeSignatures(Top.func, text) \in Signatures
      /\ DOMAIN CalleeSignatures(Top.func, text) = Range(Calls[Top.func][text[Top.func]])
  BY <1>2, FrameTyped, CalleeSignaturesTyped DEF Typed
<1>6. ~Top.stopped => Len(Top.targets) = Len(Calls[Top.func][text[Top.func]])
  <2>1. Len(Calls[Top.func][text[Top.func]]) \in Nat
    BY <1>2, CallsTyped
  <2>2. Sites = Len(Calls[Top.func][text[Top.func]]) /\ Site = Len(Top.targets) + 1
    BY <1>3 DEF Sites, Site
  <2> QED
    BY <1>1, <1>2, <1>4, <2>1, <2>2
<1>7. /\ FreshCode \in Code
      /\ FreshCode.targets = Top.targets /\ FreshCode.text = text[Top.func]
      /\ FreshCode.complete => ~Top.stopped
      /\ FreshCode.signatures = CalleeSignatures(Top.func, text)
  BY <1>2, <1>5 DEF FreshCode, Code
<1>8. CodeOK(Top.func, FreshCode, runs, text[Top.func])
  BY <1>4, <1>5, <1>6, <1>7 DEF CodeOK
<1>9. WrittenIn(runs, function_map, Calls[Top.func][text[Top.func]], Top.targets)
  BY <1>4 DEF WrittenIn, CompilingOK, MapOK
<1> QED
  BY <1>5, <1>7, <1>8, <1>9

\* function_map once the innermost activation has registered its function.
LEMMA WithSelfFacts ==
  ASSUME Typed, CompilingOK, frames # <<>>
  PROVE  /\ WithSelf = With(function_map, Top.func, AddressIn(runs, Top.func))
         /\ WithSelf \in AddressMap
         /\ DOMAIN WithSelf = DOMAIN function_map
         /\ WithSelf[Top.func] = AddressIn(runs, Top.func)
         /\ \A g \in DOMAIN function_map :
              /\ g # Top.func => WithSelf[g] = function_map[g]
              /\ WithSelf[g] \in {Null, AddressIn(runs, g)}
<1> DEFINE address == AddressIn(runs, Top.func)
<1>1. Top.func \in Func /\ Top.func \in DOMAIN function_map /\ runs \in 0..MaxRuns
  BY TopFacts
<1>2. WithSelf = With(function_map, Top.func, address)
  BY AddressesOfThisRun DEF WithSelf
<1>3. function_map \in AddressMap /\ address \in Addresses
  BY <1>1, AddressRange DEF Typed
<1> HIDE DEF address
<1>4. /\ With(function_map, Top.func, address) \in AddressMap
      /\ DOMAIN With(function_map, Top.func, address) = DOMAIN function_map \cup {Top.func}
      /\ With(function_map, Top.func, address)[Top.func] = address
      /\ \A g \in DOMAIN function_map : g # Top.func =>
           With(function_map, Top.func, address)[g] = function_map[g]
  BY <1>1, <1>3, WithAddress
<1> QED
  BY <1>1, <1>2, <1>4 DEF CompilingOK, MapOK, address

\* The names of the pending calls of the innermost activation.
LEMMA PendingFacts ==
  ASSUME Typed, CompilingOK, In(TRUE), NEW i \in Top.pending
  PROVE  /\ i \in 1..Len(Top.targets)
         /\ PendingName(i) = Calls[Top.func][text[Top.func]][i]
         /\ PendingName(i) \in DOMAIN function_map
<1>1. /\ FileOK(Top.func, File, runs) /\ File.hash = text[Top.func]
      /\ Len(Top.targets) <= Len(File.code.targets) /\ Len(File.code.targets) \in Nat
  BY CachedTop
<1>2. /\ Top.func \in Func /\ runs \in Nat /\ Len(Top.targets) \in Nat
      /\ FrameOK(Top, runs, text[Top.func], function_map)
  BY TopFacts DEF In
<1>3. i \in 1..Len(Top.targets) /\ Calls[Top.func][text[Top.func]][i] \in DOMAIN function_map
  BY <1>2 DEF FrameOK
<1>4. i \in 1..Len(File.code.targets)
  BY <1>1, <1>2, <1>3
<1>5. PendingName(i) = Calls[Top.func][text[Top.func]][i]
  BY <1>1, <1>2, <1>4, FileFacts DEF PendingName, NameOf
<1> QED
  BY <1>3, <1>5

\* What patch_and_register_cached() installs.
PatchedCode ==
  [File.code EXCEPT !.targets = [i \in DOMAIN Top.targets |->
     IF i \in Top.pending THEN WithSelf[PendingName(i)] ELSE Top.targets[i]]]

LEMMA PatchedCodeOK ==
  ASSUME Typed, CompilingOK, BodyDone(TRUE), PendingResolved
  PROVE  CodeOK(Top.func, PatchedCode, runs, text[Top.func])
<1> DEFINE targets == [i \in 1..Len(Top.targets) |->
                        IF i \in Top.pending THEN WithSelf[PendingName(i)] ELSE Top.targets[i]]
           calls == Calls[Top.func][text[Top.func]]
<1>1. In(TRUE) /\ frames # <<>> /\ (Top.stopped \/ Site > Sites)
  BY DEF BodyDone, In
<1>2. /\ FileOK(Top.func, File, runs) /\ File.hash = text[Top.func] /\ ~Top.stopped
      /\ Len(Top.targets) <= Len(File.code.targets) /\ Len(File.code.targets) \in Nat
      /\ Top.cached = TRUE
  BY <1>1, CachedTop
<1>3. /\ FrameOK(Top, runs, text[Top.func], function_map)
      /\ Top.func \in Func /\ text[Top.func] \in Text /\ runs \in Nat /\ runs \in 0..MaxRuns
      /\ Len(Top.targets) \in Nat /\ DOMAIN Top.targets = 1..Len(Top.targets)
  BY <1>1, TopFacts
<1>4. /\ File.code \in Code /\ File.code.text = File.hash
      /\ Len(File.code.targets) <= Len(calls)
      /\ File.code.complete => Len(File.code.targets) = Len(calls)
      /\ DOMAIN File.code.signatures = Range(calls)
  BY <1>2, <1>3, FileFacts
<1>5. Len(calls) \in Nat /\ \A i \in 1..Len(calls) : calls[i] \in Func
  BY <1>3, CallsTyped
<1>6. ASSUME NEW i \in 1..Len(Top.targets)
      PROVE  targets[i] = AddressIn(runs, calls[i]) /\ targets[i] \in Addresses
  <2>1. calls[i] \in Func
    BY <1>2, <1>3, <1>4, <1>5
  <2>2. CASE i \in Top.pending
    <3>1. PendingName(i) = calls[i] /\ PendingName(i) \in DOMAIN function_map
      BY <1>1, <2>2, PendingFacts
    <3>2. WithSelf[PendingName(i)] # Null
      BY <2>2 DEF PendingResolved
    <3>3. WithSelf[PendingName(i)] \in {Null, AddressIn(runs, PendingName(i))}
      BY <1>1, <3>1, WithSelfFacts
    <3>4. targets[i] = WithSelf[PendingName(i)]
      BY <2>2
    <3>5. targets[i] = AddressIn(runs, calls[i])
      BY <3>1, <3>2, <3>3, <3>4
    <3> QED
      BY <1>3, <2>1, <3>5, AddressRange
  <2>3. CASE i \notin Top.pending
    <3>1. targets[i] = AddressIn(runs, calls[i])
      BY <1>3, <2>3 DEF FrameOK
    <3> QED
      BY <1>3, <2>1, <3>1, AddressRange
  <2> QED
    BY <2>2, <2>3
<1>7. /\ targets \in [1..Len(Top.targets) -> Addresses]
      /\ targets \in Seq(Addresses) /\ Len(targets) = Len(Top.targets)
  <2>1. targets \in [1..Len(Top.targets) -> Addresses]
    BY <1>6
  <2> HIDE DEF targets
  <2> QED
    BY <1>3, <2>1, FunctionIsSeq
<1>8. /\ PatchedCode \in Code /\ PatchedCode.targets = targets
      /\ PatchedCode.text = text[Top.func] /\ PatchedCode.complete = File.code.complete
      /\ PatchedCode.signatures = File.code.signatures
  BY <1>2, <1>3, <1>4, <1>7 DEF PatchedCode, Code
<1>9. Len(Top.targets) = Len(File.code.targets)
  <2>1. Sites = Len(File.code.targets) /\ Site = Len(Top.targets) + 1
    BY <1>2 DEF Sites, Site
  <2> QED
    BY <1>1, <1>2, <1>3, <2>1
<1> HIDE DEF targets, calls
<1>10. /\ Len(targets) <= Len(calls)
       /\ \A i \in 1..Len(targets) : targets[i] = AddressIn(runs, calls[i])
       /\ File.code.complete => Len(targets) = Len(calls)
  BY <1>4, <1>6, <1>7, <1>9
<1> QED
  BY <1>4, <1>8, <1>10 DEF CodeOK, calls
-------------------------------------------------------------------------------
(* Every step preserves the invariant: first the steps of a run. *)

\* A step of a run that keeps the disk sound and gives back a sound stack.
LEMMA CompilingStep ==
  ASSUME JInv, status = "compiling", UNCHANGED <<text, layout, runs, rival, status>>,
         StackTyped', CompilingOK', DiskOK', MetBefore',
         next_func' \in 1..N + 1, reported' \in BOOLEAN,
         \A a \in DOMAIN memory' : memory'[a] \in Code
  PROVE  JInv'
BY DEF JInv, Typed, StackTyped

LEMMA CompilingFacts ==
  ASSUME JInv, status = "compiling"
  PROVE  /\ Typed /\ DiskOK /\ CompilingOK /\ MetBefore
         /\ next_func \in 1..N + 1 /\ reported \in BOOLEAN
         /\ \A a \in DOMAIN memory : memory[a] \in Code
BY DEF JInv, Typed

LEMMA DiskKept ==
  ASSUME DiskOK, UNCHANGED <<disk, runs>>
  PROVE  DiskOK'
BY DEF DiskOK

LEMMA CompileNextPreserves ==
  ASSUME JInv, CompileNext
  PROVE  JInv'
<1>1. /\ status = "compiling" /\ next_func <= N /\ Enter(next_func)
      /\ next_func' = next_func + 1
      /\ UNCHANGED <<text, layout, disk, runs, rival, status, memory, reported>>
  BY DEF CompileNext
<1>2. Typed /\ DiskOK /\ CompilingOK /\ MetBefore /\ next_func \in 1..N + 1
      /\ reported \in BOOLEAN /\ \A a \in DOMAIN memory : memory[a] \in Code
  BY <1>1, CompilingFacts
<1>3. next_func \in Func /\ next_func' \in 1..N + 1
  BY <1>1, <1>2, JitAssumption DEF Func
<1>4. StackTyped' /\ CompilingOK' /\ DOMAIN function_map' = DOMAIN function_map \cup {next_func}
  BY <1>1, <1>2, <1>3, EnterKeeps
<1>5. MetBefore'
  <2> SUFFICES ASSUME NEW f \in Func, f < next_func'
               PROVE  f \in DOMAIN function_map'
    BY DEF MetBefore
  <2>1. f < next_func \/ f = next_func
    BY <1>1, <1>3 DEF Func
  <2> QED
    BY <1>2, <1>4, <2>1 DEF MetBefore
<1> QED
  BY <1>1, <1>2, <1>3, <1>4, <1>5, DiskKept, CompilingStep

LEMMA CompileCalleePreserves ==
  ASSUME JInv, CompileCallee
  PROVE  JInv'
<1>1. PICK cached \in BOOLEAN : AtCall(cached)
  BY DEF CompileCallee
<1>2. /\ status = "compiling" /\ Enter(Callee)
      /\ UNCHANGED <<text, layout, disk, runs, rival, status, next_func, memory, reported>>
  BY <1>1 DEF CompileCallee, AtCall, In
<1>3. Typed /\ DiskOK /\ CompilingOK /\ MetBefore /\ next_func \in 1..N + 1
      /\ reported \in BOOLEAN /\ \A a \in DOMAIN memory : memory[a] \in Code
  BY <1>2, CompilingFacts
<1>4. Callee \in Func
  BY <1>1, <1>3, CalleeIsCalled
<1>5. StackTyped' /\ CompilingOK' /\ DOMAIN function_map' = DOMAIN function_map \cup {Callee}
  BY <1>2, <1>3, <1>4, EnterKeeps
<1>6. MetBefore'
  BY <1>2, <1>3, <1>5 DEF MetBefore
<1> QED
  BY <1>2, <1>3, <1>5, <1>6, DiskKept, CompilingStep

\* The innermost activation has passed one call site; the new frame is sound.
LEMMA SiteStep ==
  ASSUME JInv, In(Top.cached), SiteDone, NEW frame \in Frame, SetTop(frame),
         frame.func = Top.func, FrameOK(frame, runs, text[Top.func], function_map),
         reported' \in BOOLEAN
  PROVE  JInv'
<1>1. /\ status = "compiling" /\ frames # <<>>
      /\ UNCHANGED <<text, layout, disk, runs, rival, status, next_func, function_map, memory>>
  BY DEF In, SiteDone
<1>2. Typed /\ DiskOK /\ CompilingOK /\ MetBefore /\ next_func \in 1..N + 1
      /\ \A a \in DOMAIN memory : memory[a] \in Code
  BY <1>1, CompilingFacts
<1>3. StackTyped' /\ CompilingOK'
  BY <1>1, <1>2, TopAdvances
<1>4. MetBefore'
  BY <1>1, <1>2 DEF MetBefore
<1> QED
  BY <1>1, <1>2, <1>3, <1>4, DiskKept, CompilingStep

\* The innermost activation with one more target.
Advanced(a, pending) == [Top EXCEPT !.targets = Append(@, a), !.pending = pending]

LEMMA OneMoreTarget ==
  ASSUME Typed, CompilingOK, frames # <<>>, NEW a \in Addresses, NEW pending,
         pending \in SUBSET (Top.pending \cup {Site}), Top.pending \subseteq pending
  PROVE  LET frame == Advanced(a, pending) IN
         /\ frame \in Frame /\ frame.func = Top.func /\ frame.pending = pending
         /\ frame.cached = Top.cached /\ frame.file = Top.file /\ frame.stopped = Top.stopped
         /\ Len(frame.targets) = Site /\ Site = Len(Top.targets) + 1
         /\ \A i \in 1..Len(Top.targets) : frame.targets[i] = Top.targets[i]
         /\ frame.targets[Site] = a
<1> DEFINE frame == Advanced(a, pending)
<1>1. Top \in Frame /\ Top.targets \in Seq(Addresses) /\ Len(Top.targets) \in Nat
  BY TopFacts
<1>2. Top.pending \subseteq Nat /\ Site = Len(Top.targets) + 1
  BY <1>1, FrameTyped DEF Site
<1>3. /\ Append(Top.targets, a) \in Seq(Addresses)
      /\ Len(Append(Top.targets, a)) = Len(Top.targets) + 1
      /\ \A i \in 1..Len(Top.targets) : Append(Top.targets, a)[i] = Top.targets[i]
      /\ Append(Top.targets, a)[Len(Top.targets) + 1] = a
  BY <1>1, AppendFacts
<1>4. pending \in SUBSET Nat
  BY <1>1, <1>2
<1>5. /\ frame.func = Top.func /\ frame.pending = pending
      /\ frame.cached = Top.cached /\ frame.file = Top.file /\ frame.stopped = Top.stopped
      /\ frame.targets = Append(Top.targets, a)
      /\ frame \in Frame
  BY <1>1, <1>3, <1>4 DEF Frame, Advanced
<1> QED
  BY <1>2, <1>3, <1>5

LEMMA CallPreserves ==
  ASSUME JInv, Call
  PROVE  JInv'
<1>1. PICK cached \in BOOLEAN : AtCall(cached)
  BY DEF Call
<1> DEFINE frame == [Top EXCEPT !.targets = Append(@, function_map[Callee])]
           calls == Calls[Top.func][text[Top.func]]
<1>2. /\ In(Top.cached) /\ frames # <<>> /\ status = "compiling" /\ Top.cached = cached
      /\ Resolved /\ SetTop(frame) /\ SiteDone /\ UNCHANGED reported
  BY <1>1 DEF Call, AtCall, In
<1>3. Typed /\ CompilingOK /\ reported \in BOOLEAN
  BY <1>2, CompilingFacts
<1>4. /\ Top.func \in Func /\ runs \in Nat /\ runs \in 0..MaxRuns /\ Top \in Frame
      /\ FrameOK(Top, runs, text[Top.func], function_map) /\ Len(Top.targets) \in Nat
  BY <1>2, <1>3, TopFacts
<1>5. /\ Site = Len(Top.targets) + 1 /\ Site \in 1..Len(calls)
      /\ Callee = calls[Site] /\ Callee \in Func
      /\ cached => Site <= Len(File.code.targets)
  BY <1>1, <1>3, CalleeIsCalled
<1>6. Callee \in DOMAIN function_map /\ function_map[Callee] = AddressIn(runs, Callee)
  BY <1>2, <1>3 DEF Resolved, Registered, CompilingOK, MapOK
<1>7. function_map[Callee] \in Addresses
  BY <1>4, <1>5, <1>6, AddressRange
<1>8. frame = [Top EXCEPT !.targets = Append(@, function_map[Callee]), !.pending = Top.pending]
  BY <1>4 DEF Frame
<1> HIDE DEF frame, calls
<1>9. /\ frame \in Frame /\ frame.func = Top.func /\ frame.pending = Top.pending
      /\ frame.cached = Top.cached /\ frame.file = Top.file /\ frame.stopped = Top.stopped
      /\ Len(frame.targets) = Site
      /\ \A i \in 1..Len(Top.targets) : frame.targets[i] = Top.targets[i]
      /\ frame.targets[Site] = function_map[Callee]
  <2> DEFINE pending == Top.pending
             a == function_map[Callee]
  <2>1. pending \in SUBSET (Top.pending \cup {Site}) /\ Top.pending \subseteq pending
    OBVIOUS
  <2>2. a \in Addresses /\ frame = Advanced(a, pending)
    BY <1>7, <1>8 DEF Advanced
  <2> HIDE DEF pending, a
  <2>3. /\ frame \in Frame /\ frame.func = Top.func /\ frame.pending = pending
        /\ frame.cached = Top.cached /\ frame.file = Top.file /\ frame.stopped = Top.stopped
        /\ Len(frame.targets) = Site
        /\ \A i \in 1..Len(Top.targets) : frame.targets[i] = Top.targets[i]
        /\ frame.targets[Site] = a
    BY <1>2, <1>3, <2>1, <2>2, OneMoreTarget
  <2> QED
    BY <2>3 DEF pending, a
<1>10. FrameOK(frame, runs, text[Top.func], function_map)
  <2>1. /\ frame.func \in DOMAIN function_map
        /\ frame.pending \subseteq 1..Len(frame.targets)
        /\ Len(frame.targets) <= Len(calls)
    BY <1>4, <1>5, <1>9 DEF FrameOK
  <2>2. ASSUME NEW i \in 1..Len(frame.targets)
        PROVE  /\ calls[i] \in DOMAIN function_map
               /\ i \notin frame.pending =>
                    /\ function_map[calls[i]] = AddressIn(runs, calls[i])
                    /\ frame.targets[i] = AddressIn(runs, calls[i])
    <3>1. CASE i \in 1..Len(Top.targets)
      BY <1>4, <1>9, <3>1 DEF FrameOK, calls
    <3>2. CASE i = Site
      BY <1>5, <1>6, <1>9, <3>2
    <3> QED
      BY <1>4, <1>5, <1>9, <3>1, <3>2
  <2>3. CASE Top.cached
    BY <1>2, <1>4, <1>5, <1>9, <2>1, <2>2, <2>3 DEF FrameOK, File, calls
  <2>4. CASE ~Top.cached
    BY <1>4, <1>9, <2>1, <2>2, <2>4 DEF FrameOK, calls
  <2> QED
    BY <2>3, <2>4
<1> QED
  BY <1>2, <1>3, <1>9, <1>10, SiteStep

LEMMA DeferCallPreserves ==
  ASSUME JInv, DeferCall
  PROVE  JInv'
<1> DEFINE frame == [Top EXCEPT !.targets = Append(@, File.code.targets[Site]),
                                !.pending = @ \cup {Site}]
           calls == Calls[Top.func][text[Top.func]]
<1>1. /\ AtCall(TRUE) /\ In(TRUE) /\ In(Top.cached) /\ frames # <<>> /\ status = "compiling"
      /\ Callee \in DOMAIN function_map /\ SetTop(frame) /\ SiteDone /\ UNCHANGED reported
  BY DEF DeferCall, AtCall, In, Registered
<1>2. Typed /\ CompilingOK /\ reported \in BOOLEAN
  BY <1>1, CompilingFacts
<1>3. /\ Top.func \in Func /\ runs \in Nat /\ Top \in Frame
      /\ FrameOK(Top, runs, text[Top.func], function_map) /\ Len(Top.targets) \in Nat
  BY <1>1, <1>2, TopFacts
<1>4. /\ FileOK(Top.func, File, runs) /\ Top.cached = TRUE
      /\ Len(File.code.targets) \in Nat
  BY <1>1, <1>2, CachedTop
<1>5. /\ Site = Len(Top.targets) + 1 /\ Site \in 1..Len(calls)
      /\ Callee = calls[Site] /\ Site <= Len(File.code.targets)
  BY <1>1, <1>2, CalleeIsCalled
<1>6. File.code.targets[Site] \in Addresses
  <2>1. File.code.targets \in Seq(Addresses)
    BY <1>3, <1>4, FileFacts
  <2>2. Site \in 1..Len(File.code.targets)
    BY <1>3, <1>4, <1>5
  <2> QED
    BY <2>1, <2>2, ElementOfSeq
<1>7. frame = [Top EXCEPT !.targets = Append(@, File.code.targets[Site]),
                          !.pending = Top.pending \cup {Site}]
  BY <1>3 DEF Frame
<1> HIDE DEF frame, calls
<1>8. /\ frame \in Frame /\ frame.func = Top.func /\ frame.pending = Top.pending \cup {Site}
      /\ frame.cached = Top.cached /\ frame.file = Top.file /\ frame.stopped = Top.stopped
      /\ Len(frame.targets) = Site
      /\ \A i \in 1..Len(Top.targets) : frame.targets[i] = Top.targets[i]
  <2> DEFINE pending == Top.pending \cup {Site}
             a == File.code.targets[Site]
  <2>1. pending \in SUBSET (Top.pending \cup {Site}) /\ Top.pending \subseteq pending
    OBVIOUS
  <2>2. a \in Addresses /\ frame = Advanced(a, pending)
    BY <1>6, <1>7 DEF Advanced
  <2> HIDE DEF pending, a
  <2>3. /\ frame \in Frame /\ frame.func = Top.func /\ frame.pending = pending
        /\ frame.cached = Top.cached /\ frame.file = Top.file /\ frame.stopped = Top.stopped
        /\ Len(frame.targets) = Site
        /\ \A i \in 1..Len(Top.targets) : frame.targets[i] = Top.targets[i]
    BY <1>1, <1>2, <2>1, <2>2, OneMoreTarget
  <2> QED
    BY <2>3 DEF pending
<1>9. FrameOK(frame, runs, text[Top.func], function_map)
  <2>1. Top.pending \subseteq 1..Len(Top.targets) /\ Top.func \in DOMAIN function_map
    BY <1>3 DEF FrameOK
  <2>2. /\ frame.func \in DOMAIN function_map
        /\ frame.pending \subseteq 1..Len(frame.targets)
        /\ Len(frame.targets) <= Len(calls)
    BY <1>3, <1>5, <1>8, <2>1
  <2>3. ASSUME NEW i \in 1..Len(frame.targets)
        PROVE  /\ calls[i] \in DOMAIN function_map
               /\ i \notin frame.pending =>
                    /\ function_map[calls[i]] = AddressIn(runs, calls[i])
                    /\ frame.targets[i] = AddressIn(runs, calls[i])
    <3>1. CASE i \in 1..Len(Top.targets)
      BY <1>3, <1>8, <3>1 DEF FrameOK, calls
    <3>2. CASE i = Site
      BY <1>1, <1>5, <1>8, <3>2
    <3> QED
      BY <1>3, <1>5, <1>8, <3>1, <3>2
  <2> QED
    BY <1>3, <1>4, <1>5, <1>8, <2>2, <2>3 DEF FrameOK, File, calls
<1> QED
  BY <1>1, <1>2, <1>8, <1>9, SiteStep

LEMMA CallUnresolvedPreserves ==
  ASSUME JInv, CallUnresolved
  PROVE  JInv'
<1> DEFINE frame == [Top EXCEPT !.stopped = TRUE]
<1>1. /\ In(FALSE) /\ In(Top.cached) /\ frames # <<>> /\ status = "compiling"
      /\ SetTop(frame) /\ SiteDone /\ reported' = TRUE
  BY DEF CallUnresolved, AtCall, In
<1>2. Typed /\ CompilingOK
  BY <1>1, CompilingFacts
<1>3. Top \in Frame /\ FrameOK(Top, runs, text[Top.func], function_map)
  BY <1>1, <1>2, TopFacts
<1>4. Top.cached = FALSE
  BY <1>1, <1>2, FreshTop
<1>5. /\ frame \in Frame /\ frame.func = Top.func /\ frame.cached = FALSE
      /\ frame.targets = Top.targets /\ frame.pending = Top.pending
  BY <1>3, <1>4 DEF Frame
<1> HIDE DEF frame
<1>6. FrameOK(frame, runs, text[Top.func], function_map)
  BY <1>3, <1>4, <1>5 DEF FrameOK
<1> QED
  BY <1>1, <1>5, <1>6, SiteStep
\* The file a run writes is sound: it can be relocated by later runs.
LEMMA WriteCachedCodePreserves ==
  ASSUME JInv, WriteCachedCode
  PROVE  JInv'
<1> DEFINE frame == [Top EXCEPT !.written = TRUE]
           file == [hash |-> text[Top.func], code |-> FreshCode, address_map |-> function_map]
<1>1. /\ BodyDone(FALSE) /\ frames # <<>> /\ status = "compiling"
      /\ disk' = With(disk, Top.func, file) /\ SetTop(frame)
      /\ UNCHANGED <<text, layout, runs, rival, status, next_func, function_map, memory, reported>>
  BY DEF WriteCachedCode, BodyDone, In
<1>2. Typed /\ DiskOK /\ CompilingOK /\ MetBefore /\ next_func \in 1..N + 1
      /\ reported \in BOOLEAN /\ \A a \in DOMAIN memory : memory[a] \in Code
  BY <1>1, CompilingFacts
<1>3. /\ Top \in Frame /\ FrameOK(Top, runs, text[Top.func], function_map)
      /\ Top.func \in Func /\ text[Top.func] \in Text /\ runs \in Nat
  BY <1>1, <1>2, TopFacts
<1>4. StackTyped' /\ CompilingOK'
  <2>1. /\ frame \in Frame /\ frame.func = Top.func /\ frame.cached = Top.cached
        /\ frame.targets = Top.targets /\ frame.pending = Top.pending
        /\ frame.stopped = Top.stopped /\ frame.file = Top.file
    BY <1>3 DEF Frame
  <2> HIDE DEF frame
  <2>2. FrameOK(frame, runs, text[Top.func], function_map)
    BY <1>3, <2>1 DEF FrameOK
  <2> QED
    BY <1>1, <1>2, <2>1, <2>2, TopAdvances
<1>5. FileOK(Top.func, file, runs)
  <2>1. /\ CodeOK(Top.func, FreshCode, runs, text[Top.func])
        /\ FreshCode.targets = Top.targets /\ FreshCode.text = text[Top.func]
        /\ DOMAIN FreshCode.signatures = Range(Calls[Top.func][text[Top.func]])
        /\ WrittenIn(runs, function_map, Calls[Top.func][text[Top.func]], Top.targets)
    BY <1>1, <1>2, FreshCodeOK
  <2>2. /\ FreshCode \in Code
        /\ FreshCode.complete => Len(FreshCode.targets) = Len(Calls[Top.func][text[Top.func]])
    BY <2>1 DEF CodeOK
  <2>3. file \in CacheFile
    BY <1>2, <1>3, <2>2 DEF CacheFile, Typed
  <2>4. runs \in 0..runs
    BY <1>3
  <2>5. file.hash = text[Top.func] /\ file.code = FreshCode /\ file.address_map = function_map
    OBVIOUS
  <2> HIDE DEF file
  <2> QED
    BY <2>1, <2>2, <2>3, <2>4, <2>5 DEF FileOK
<1> HIDE DEF file, frame
<1>6. DiskOK'
  <2>1. DOMAIN disk' = DOMAIN disk \cup {Top.func} /\ disk'[Top.func] = file
        /\ \A f \in DOMAIN disk : f # Top.func => disk'[f] = disk[f]
    BY <1>1 DEF With
  <2>2. DOMAIN disk' \subseteq Func
    BY <1>2, <1>3, <2>1 DEF DiskOK
  <2>3. \A f \in DOMAIN disk' : FileOK(f, disk'[f], runs)
    BY <1>2, <1>5, <2>1 DEF DiskOK
  <2> QED
    BY <1>1, <2>2, <2>3 DEF DiskOK
<1>7. MetBefore'
  BY <1>1, <1>2 DEF MetBefore
<1> QED
  BY <1>1, <1>2, <1>4, <1>6, <1>7, CompilingStep

\* setup_function(), or its counterpart for cached code: the code is sound.
LEMMA ReturnStep ==
  ASSUME JInv, status = "compiling", frames # <<>>, NEW code,
         CodeOK(Top.func, code, runs, text[Top.func]),
         function_map' = With(function_map, Top.func, AddressIn(runs, Top.func)),
         memory' = With(memory, AddressIn(runs, Top.func), code),
         frames' = Front(frames),
         UNCHANGED <<text, layout, disk, runs, rival, status, next_func, reported>>
  PROVE  JInv'
<1>1. Typed /\ DiskOK /\ CompilingOK /\ MetBefore /\ next_func \in 1..N + 1
      /\ reported \in BOOLEAN
  BY CompilingFacts
<1>2. /\ StackTyped' /\ CompilingOK' /\ DOMAIN function_map' = DOMAIN function_map
      /\ \A a \in DOMAIN memory' : memory'[a] \in Code
  BY <1>1, TopReturns
<1>3. MetBefore'
  BY <1>1, <1>2 DEF MetBefore
<1> QED
  BY <1>1, <1>2, <1>3, DiskKept, CompilingStep

LEMMA InstallPreserves ==
  ASSUME JInv, Install
  PROVE  JInv'
<1>1. /\ BodyDone(FALSE) /\ In(FALSE) /\ frames # <<>> /\ status = "compiling"
      /\ memory' = With(memory, Address(Top.func), FreshCode) /\ frames' = Front(frames)
      /\ UNCHANGED <<text, layout, disk, runs, rival, status, next_func, function_map, reported>>
  BY DEF Install, BodyDone, In
<1>2. Typed /\ CompilingOK
  BY <1>1, CompilingFacts
<1>3. CodeOK(Top.func, FreshCode, runs, text[Top.func])
  BY <1>1, <1>2, FreshCodeOK
<1>4. function_map' = With(function_map, Top.func, AddressIn(runs, Top.func))
  <2>1. /\ function_map[Top.func] = AddressIn(runs, Top.func)
        /\ Top.func \in DOMAIN function_map
    BY <1>1, <1>2, FreshTop, TopFacts
  <2>2. function_map = [g \in DOMAIN function_map |-> function_map[g]]
    BY <1>2, AddressMapFacts DEF Typed
  <2> QED
    BY <1>1, <2>1, <2>2 DEF With
<1> QED
  BY <1>1, <1>3, <1>4, AddressesOfThisRun, ReturnStep

LEMMA RegisterCachedPreserves ==
  ASSUME JInv, RegisterCached
  PROVE  JInv'
<1>1. /\ BodyDone(TRUE) /\ PendingResolved /\ frames # <<>> /\ status = "compiling"
      /\ function_map' = WithSelf /\ frames' = Front(frames)
      /\ memory' = With(memory, Address(Top.func), PatchedCode)
      /\ UNCHANGED <<text, layout, disk, runs, rival, status, next_func, reported>>
  BY DEF RegisterCached, BodyDone, In, PatchedCode
<1>2. Typed /\ CompilingOK
  BY <1>1, CompilingFacts
<1>3. CodeOK(Top.func, PatchedCode, runs, text[Top.func])
  BY <1>1, <1>2, PatchedCodeOK
<1>4. WithSelf = With(function_map, Top.func, AddressIn(runs, Top.func))
  BY <1>1, <1>2, WithSelfFacts
<1> QED
  BY <1>1, <1>3, <1>4, AddressesOfThisRun, ReturnStep

LEMMA PatchFailsPreserves ==
  ASSUME JInv, PatchFails
  PROVE  JInv'
<1>1. /\ frames # <<>> /\ status = "compiling" /\ status' = "threw"
      /\ function_map' = WithSelf
      /\ UNCHANGED <<text, layout, disk, runs, rival, next_func, frames, memory, reported>>
  BY DEF PatchFails, BodyDone, In
<1>2. Typed /\ DiskOK /\ CompilingOK
  BY <1>1, CompilingFacts
<1>3. WithSelf \in AddressMap
  BY <1>1, <1>2, WithSelfFacts
<1>4. Typed'
  BY <1>1, <1>2, <1>3 DEF Typed
<1> QED
  BY <1>1, <1>2, <1>4, DiskKept DEF JInv

\* The part of a state no process has to do with.
LEMMA ProcessKept ==
  ASSUME CompilingOK, MetBefore, UNCHANGED <<text, runs, process>>
  PROVE  CompilingOK' /\ MetBefore'
BY DEF process, CompilingOK, MapOK, FramesOK, FramesDistinct, InstalledOK, OnStack, MetBefore

LEMMA RunMainPreserves ==
  ASSUME JInv, RunMain
  PROVE  JInv'
<1>1. /\ status = "compiling" /\ status' = "ran" /\ frames = <<>> /\ next_func > N
      /\ UNCHANGED <<text, layout, disk, runs, rival, process>>
  BY DEF RunMain
<1>2. Typed /\ DiskOK /\ CompilingOK /\ MetBefore /\ next_func \in 1..N + 1
  BY <1>1, CompilingFacts
<1>3. next_func = N + 1
  BY <1>1, <1>2, JitAssumption
<1>4. Typed'
  BY <1>1, <1>2 DEF Typed, process
<1>5. CompilingOK' /\ MetBefore' /\ DiskOK'
  BY <1>1, <1>2, ProcessKept, DiskKept
<1> QED
  BY <1>1, <1>3, <1>4, <1>5 DEF JInv, process

-------------------------------------------------------------------------------
(* ... and those between runs, and of the second compiler. *)

SoundProcess ==
  /\ CompilingOK /\ MetBefore /\ StackTyped
  /\ \A a \in DOMAIN memory : memory[a] \in Code
  /\ next_func \in 1..N + 1 /\ reported \in BOOLEAN

\* A process that has met nothing is sound, whatever the program.
LEMMA FreshProcess == NoProcess => SoundProcess
<1> SUFFICES ASSUME NoProcess PROVE SoundProcess
  OBVIOUS
<1>1. /\ next_func = 1 /\ frames = <<>> /\ function_map = <<>> /\ memory = <<>>
      /\ reported = FALSE
  BY DEF NoProcess
<1>2. frames \in Seq(Frame) /\ DOMAIN frames = {} /\ DOMAIN function_map = {} /\ DOMAIN memory = {}
  BY <1>1, EmptySeq
<1>3. function_map \in AddressMap
  <2>1. function_map \in [{} -> Addresses]
    BY <1>1
  <2> QED
    BY <2>1 DEF AddressMap
<1>4. CompilingOK
  BY <1>2 DEF CompilingOK, MapOK, FramesOK, FramesDistinct, InstalledOK
<1>5. MetBefore
  BY <1>1 DEF MetBefore, Func
<1>6. next_func \in 1..N + 1
  <2>1. next_func = 1
    BY <1>1
  <2> QED
    BY <2>1, JitAssumption
<1>7. reported \in BOOLEAN
  BY <1>1, Zenon
<1>8. \A a \in DOMAIN memory : memory[a] \in Code
  BY <1>2
<1> QED
  BY <1>2, <1>3, <1>4, <1>5, <1>6, <1>7, <1>8 DEF SoundProcess, StackTyped

LEMMA FreshProcessPrime == NoProcess' => SoundProcess'
BY FreshProcess, PTL

LEMMA NoProcessKept ==
  ASSUME NoProcess, UNCHANGED process
  PROVE  NoProcess'
BY DEF NoProcess, process

LEMMA NewProcessIsFresh ==
  ASSUME NewProcess
  PROVE  NoProcess'
BY DEF NewProcess, NoProcess

LEMMA InitEstablishesJInv == JitInit => JInv
<1> SUFFICES ASSUME JitInit PROVE JInv
  OBVIOUS
<1>1. /\ text \in [Func -> Text] /\ layout \in Layout /\ disk = <<>>
      /\ runs = 0 /\ rival = 0 /\ status = "idle" /\ NoProcess
  BY DEF JitInit, NoProcess
<1>2. Typed
  BY <1>1, FreshProcess, JitAssumption DEF Typed, SoundProcess, StackTyped
<1>3. DiskOK
  BY <1>1 DEF DiskOK
<1> QED
  BY <1>1, <1>2, <1>3 DEF JInv

LEMMA EditPreserves ==
  ASSUME JInv, Edit
  PROVE  JInv'
<1>1. /\ status = "idle" /\ UNCHANGED <<disk, runs, rival, status, process>>
      /\ Typed /\ DiskOK /\ NoProcess
  BY DEF Edit, JInv
<1>2. text' \in [Func -> Text] /\ layout' \in Layout
  BY <1>1 DEF Edit, Typed
<1>3. NoProcess' /\ DiskOK'
  BY <1>1, NoProcessKept, DiskKept
<1>4. Typed'
  BY <1>1, <1>2 DEF Typed, process
<1> QED
  BY <1>1, <1>3, <1>4 DEF JInv

LEMMA StartPreserves ==
  ASSUME JInv, Start
  PROVE  JInv'
<1>1. /\ status = "idle" /\ runs < MaxRuns /\ runs' = runs + 1 /\ status' = "compiling"
      /\ UNCHANGED <<text, layout, disk, rival, process>>
      /\ Typed /\ DiskOK /\ NoProcess
  BY DEF Start, JInv
<1>2. runs \in 0..MaxRuns /\ runs \in Nat /\ runs' \in 0..MaxRuns /\ runs' \in Nat /\ runs <= runs'
  BY <1>1, JitAssumption DEF Typed
<1>3. NoProcess'
  BY <1>1, NoProcessKept
<1>4. DiskOK'
  <2>1. \A f \in DOMAIN disk : FileOK(f, disk[f], runs')
    BY <1>1, <1>2, FileKept DEF DiskOK
  <2> QED
    BY <1>1, <2>1 DEF DiskOK
<1>5. Typed'
  BY <1>1, <1>2 DEF Typed, process
<1>6. CompilingOK' /\ MetBefore'
  BY <1>3, FreshProcessPrime DEF SoundProcess
<1> QED
  BY <1>1, <1>4, <1>5, <1>6 DEF JInv

\* Whatever ends a run, nothing of the process is left.
LEMMA EndPreserves ==
  ASSUME Typed, DiskOK', status' = "idle", NewProcess, UNCHANGED <<text, layout, runs, rival>>
  PROVE  JInv'
<1>1. NoProcess'
  BY NewProcessIsFresh
<1>2. Typed'
  BY <1>1, FreshProcessPrime DEF Typed, SoundProcess, StackTyped
<1> QED
  BY <1>1, <1>2 DEF JInv

LEMMA ExitPreserves ==
  ASSUME JInv, Exit
  PROVE  JInv'
BY DiskKept, EndPreserves DEF JInv, Exit

\* A file less, as after a crash between truncating and writing.
LEMMA WithoutFile ==
  ASSUME DiskOK, NEW f, disk' = Without(disk, f), UNCHANGED runs
  PROVE  DiskOK'
BY DEF DiskOK, Without

LEMMA CrashPreserves ==
  ASSUME JInv, Crash
  PROVE  JInv'
<1>1. /\ Typed /\ DiskOK /\ status' = "idle" /\ NewProcess
      /\ UNCHANGED <<text, layout, runs, rival>>
      /\ UNCHANGED disk \/ disk' = Without(disk, Top.func)
  BY DEF Crash, JInv
<1>2. DiskOK'
  BY <1>1, DiskKept, WithoutFile
<1> QED
  BY <1>1, <1>2, EndPreserves

\* The files of the second compiler are those of a run before all others.
LEMMA RivalFileOK ==
  ASSUME Typed, NEW f \in Func, NEW older \in [Func -> Text]
  PROVE  FileOK(f, RivalFile(f, older), runs)
<1> DEFINE t == older[f]
           file == RivalFile(f, older)
           calls == Calls[f][t]
           named == {f} \cup Range(calls)
<1>1. /\ runs \in Nat /\ layout \in Layout /\ t \in Text
      /\ CalleeSignatures(f, older) \in Signatures
      /\ DOMAIN CalleeSignatures(f, older) = Range(calls)
  BY JitAssumption, CalleeSignaturesTyped DEF Typed
<1>2. /\ calls \in Seq(Func) /\ Len(calls) \in Nat /\ DOMAIN calls = 1..Len(calls)
      /\ \A i \in 1..Len(calls) : calls[i] \in Func
  BY <1>1, CallsTyped
<1>3. named \subseteq Func /\ \A i \in 1..Len(calls) : calls[i] \in named
  BY <1>2 DEF Range
<1>4. \A g \in Func : RivalAddress(g) = AddressIn(0, g) /\ RivalAddress(g) \in Addresses
  BY RivalAddressIn, AddressRange, JitAssumption
<1>5. [i \in 1..Len(calls) |-> RivalAddress(calls[i])] \in [1..Len(calls) -> Addresses]
  BY <1>2, <1>4
<1>6. /\ file.hash = t
      /\ file.address_map = [g \in named |-> RivalAddress(g)]
      /\ file.code = [text |-> t, layout |-> layout, complete |-> TRUE,
                      signatures |-> CalleeSignatures(f, older),
                      targets |-> [i \in 1..Len(calls) |-> RivalAddress(calls[i])]]
      /\ file = [hash |-> file.hash, address_map |-> file.address_map, code |-> file.code]
  BY <1>2 DEF RivalFile
<1>7. /\ file.code.targets \in Seq(Addresses) /\ Len(file.code.targets) = Len(calls)
      /\ file.code.targets = [i \in 1..Len(calls) |-> RivalAddress(calls[i])]
  BY <1>2, <1>5, <1>6, FunctionIsSeq
<1>8. file.address_map \in [named -> Addresses]
  BY <1>3, <1>4, <1>6
<1>9. file.address_map \in AddressMap
  BY <1>3, <1>8 DEF AddressMap
<1>10. file.code \in Code
  BY <1>1, <1>6, <1>7 DEF Code
<1>11. file \in CacheFile
  BY <1>6, <1>9, <1>10 DEF CacheFile
<1>12. DOMAIN file.code.signatures = Range(calls)
  BY <1>1, <1>6
<1> HIDE DEF calls, file, t
<1>13. WrittenIn(0, file.address_map, calls, file.code.targets)
  <2>1. \A g \in DOMAIN file.address_map : file.address_map[g] \in {Null, AddressIn(0, g)}
    BY <1>3, <1>4, <1>6
  <2>2. \A i \in 1..Len(file.code.targets) :
          /\ calls[i] \in DOMAIN file.address_map
          /\ file.address_map[calls[i]] = AddressIn(0, calls[i])
          /\ file.code.targets[i] = AddressIn(0, calls[i])
    BY <1>2, <1>3, <1>4, <1>6, <1>7
  <2> QED
    BY <1>2, <1>7, <2>1, <2>2 DEF WrittenIn
<1>14. 0 \in 0..runs /\ file.code.text = file.hash
  BY <1>1, <1>6
<1> QED
  BY <1>6, <1>7, <1>11, <1>12, <1>13, <1>14 DEF FileOK, file, calls, t

LEMMA RivalPreserves ==
  ASSUME JInv, Rival
  PROVE  JInv'
<1>1. /\ rival < MaxRival /\ rival' = rival + 1 /\ UNCHANGED <<text, layout, runs, status, process>>
      /\ Typed /\ DiskOK
  BY DEF Rival, JInv
<1>2. DiskOK'
  <2>1. PICK f \in Func : \/ disk' = Without(disk, f)
                          \/ \E older \in [Func -> Text] : disk' = With(disk, f, RivalFile(f, older))
    BY DEF Rival
  <2>2. CASE disk' = Without(disk, f)
    BY <1>1, <2>2, WithoutFile
  <2>3. CASE \E older \in [Func -> Text] : disk' = With(disk, f, RivalFile(f, older))
    <3>1. PICK older \in [Func -> Text] : disk' = With(disk, f, RivalFile(f, older))
      BY <2>3
    <3>2. FileOK(f, RivalFile(f, older), runs)
      BY <1>1, RivalFileOK
    <3>3. DOMAIN disk' = DOMAIN disk \cup {f} /\ disk'[f] = RivalFile(f, older)
          /\ \A g \in DOMAIN disk : g # f => disk'[g] = disk[g]
      BY <3>1 DEF With
    <3>4. DOMAIN disk' \subseteq Func /\ \A g \in DOMAIN disk' : FileOK(g, disk'[g], runs)
      BY <1>1, <3>2, <3>3 DEF DiskOK
    <3> QED
      BY <1>1, <3>4 DEF DiskOK
  <2> QED
    BY <2>1, <2>2, <2>3
<1>3. Typed'
  BY <1>1, JitAssumption DEF Typed, process
<1>4. status = "idle" => NoProcess'
  BY <1>1, NoProcessKept DEF JInv
<1>5. status \in {"compiling", "ran"} => CompilingOK' /\ MetBefore'
  BY <1>1, ProcessKept DEF JInv
<1>6. status = "ran" => frames' = <<>> /\ next_func' = N + 1
  BY <1>1 DEF JInv, process
<1> QED
  BY <1>1, <1>2, <1>3, <1>4, <1>5, <1>6 DEF JInv
LEMMA NextPreservesJInv == JInv /\ [JitNext]_jitVars => JInv'
<1> SUFFICES ASSUME JInv, [JitNext]_jitVars PROVE JInv'
  OBVIOUS
<1>1. CASE Edit
  BY <1>1, EditPreserves
<1>2. CASE Start
  BY <1>2, StartPreserves
<1>3. CASE Exit
  BY <1>3, ExitPreserves
<1>4. CASE Rival
  BY <1>4, RivalPreserves
<1>5. CASE Crash
  BY <1>5, CrashPreserves
<1>6. CASE CompileStep
  <2>1. CASE CompileNext
    BY <2>1, CompileNextPreserves
  <2>2. CASE CompileCallee
    BY <2>2, CompileCalleePreserves
  <2>3. CASE Call
    BY <2>3, CallPreserves
  <2>4. CASE CallUnresolved
    BY <2>4, CallUnresolvedPreserves
  <2>5. CASE DeferCall
    BY <2>5, DeferCallPreserves
  <2>6. CASE WriteCachedCode
    BY <2>6, WriteCachedCodePreserves
  <2>7. CASE Install
    BY <2>7, InstallPreserves
  <2>8. CASE RegisterCached
    BY <2>8, RegisterCachedPreserves
  <2>9. CASE PatchFails
    BY <2>9, PatchFailsPreserves
  <2>10. CASE RunMain
    BY <2>10, RunMainPreserves
  <2> QED
    BY <1>6, <2>1, <2>2, <2>3, <2>4, <2>5, <2>6, <2>7, <2>8, <2>9, <2>10 DEF CompileStep
<1>7. CASE UNCHANGED jitVars
  BY <1>7 DEF jitVars, process, JInv, Typed, DiskOK, NoProcess, CompilingOK, MapOK, FramesOK,
              FramesDistinct, InstalledOK, OnStack, MetBefore
<1> QED
  BY <1>1, <1>2, <1>3, <1>4, <1>5, <1>6, <1>7 DEF JitNext

LEMMA JitInvariant == JitSpec => []JInv
<1> QED
  BY InitEstablishesJInv, NextPreservesJInv, PTL DEF JitSpec

-------------------------------------------------------------------------------
(* What follows from it. *)

\* The variables of the compile driver and the cache have their types, and every
\* address in a file, in the map or in installed code is of a run there has been.
THEOREM JitTypeCorrect == JitSpec => []JitTypeOK
<1>1. JInv => JitTypeOK
  <2> SUFFICES ASSUME JInv PROVE JitTypeOK
    OBVIOUS
  <2>1. Typed /\ DiskOK
    BY DEF JInv
  <2>2. DOMAIN disk \subseteq Func /\ \A f \in DOMAIN disk : disk[f].code \in Code
    BY <2>1 DEF DiskOK, FileOK, CacheFile
  <2>3. DOMAIN function_map \subseteq Func /\ Range(function_map) \subseteq Addresses
    BY <2>1, AddressMapFacts DEF Typed, Range
  <2> QED
    BY <2>1, <2>2, <2>3 DEF JitTypeOK, Typed
<1> QED
  BY <1>1, JitInvariant, PTL

\* write_cached_code() writes nothing patch_and_register_cached() could relocate
\* wrongly: in every cache file the address of a call names its callee and no other
\* function, through every crash and whatever a second compiler writes.
THEOREM CacheIsRelocatable == JitSpec => []Relocatable
<1>1. JInv => Relocatable
  <2> SUFFICES ASSUME JInv, NEW f \in DOMAIN disk, NEW i \in DOMAIN disk[f].code.targets
               PROVE  {g \in DOMAIN disk[f].address_map :
                         disk[f].address_map[g] = disk[f].code.targets[i]}
                        = {Calls[f][disk[f].hash][i]}
    BY DEF Relocatable
  <2>1. f \in Func /\ FileOK(f, disk[f], runs) /\ runs \in Nat
    BY JitAssumption DEF JInv, DiskOK, Typed
  <2>2. i \in 1..Len(disk[f].code.targets)
    BY <2>1, FileFacts
  <2> QED
    BY <2>1, <2>2, FileFacts
<1> QED
  BY <1>1, JitInvariant, PTL

\* A program that compile_function() has brought to main() is the present one, each
\* call going to the present address of its callee and taking its present types,
\* unless the cache held partial code, code for other struct declarations or code
\* for callees whose types have changed: for programs of any size, with recursion
\* of any kind, after any history.
THEOREM CacheIsTransparent == JitSpec => []RunsTheProgramIfTrusted
<1>1. JInv => RunsTheProgramIfTrusted
  <2> SUFFICES ASSUME JInv, Trusted, status = "ran", NEW f \in Func
               PROVE  /\ f \in DOMAIN function_map /\ function_map[f] \in DOMAIN memory
                      /\ memory[function_map[f]] =
                           [text |-> text[f], layout |-> layout,
                            signatures |-> CalleeSignatures(f, text), complete |-> TRUE,
                            targets |-> [i \in DOMAIN Calls[f][text[f]] |->
                                           function_map[Calls[f][text[f]][i]]]]
    BY DEF RunsTheProgramIfTrusted, RunsTheProgram, Linked
  <2> DEFINE code == memory[function_map[f]]
             calls == Calls[f][text[f]]
  <2>1. Typed /\ CompilingOK /\ MetBefore /\ frames = <<>> /\ next_func = N + 1
    BY DEF JInv
  <2>2. \A g \in Func : g \in DOMAIN function_map
    BY <2>1, JitAssumption DEF MetBefore, Func
  <2>3. \A g : ~OnStack(g)
    <3>1. DOMAIN frames = {}
      BY <2>1
    <3> QED
      BY <3>1 DEF OnStack
  <2>4. \A g \in Func : /\ function_map[g] = AddressIn(runs, g)
                        /\ AddressIn(runs, g) \in DOMAIN memory
                        /\ CodeOK(g, memory[AddressIn(runs, g)], runs, text[g])
    BY <2>1, <2>2, <2>3 DEF CompilingOK, InstalledOK
  <2>5. function_map[f] \in DOMAIN memory /\ CodeOK(f, code, runs, text[f])
    BY <2>4
  <2>6. /\ code.complete /\ code.layout = layout
        /\ \A g \in DOMAIN code.signatures : code.signatures[g] = Signature[g][text[g]]
    BY <2>5 DEF Trusted, Range
  <2>7. /\ calls \in Seq(Func) /\ Len(calls) \in Nat /\ DOMAIN calls = 1..Len(calls)
        /\ \A i \in 1..Len(calls) : calls[i] \in Func
    BY <2>1, CallsTyped DEF Typed
  <2> HIDE DEF code, calls
  <2>8. /\ code \in Code /\ code.text = text[f] /\ Len(code.targets) = Len(calls)
        /\ \A i \in 1..Len(code.targets) : code.targets[i] = AddressIn(runs, calls[i])
        /\ DOMAIN code.signatures = Range(calls)
    BY <2>5, <2>6 DEF CodeOK, calls
  <2>9. code.targets = [i \in DOMAIN calls |-> function_map[calls[i]]]
    <3>1. code.targets \in Seq(Addresses)
      BY <2>8 DEF Code
    <3>2. DOMAIN code.targets = 1..Len(code.targets)
          /\ code.targets = [i \in 1..Len(code.targets) |-> code.targets[i]]
      BY <3>1, LenProperties
    <3>3. \A i \in 1..Len(calls) : code.targets[i] = function_map[calls[i]]
      BY <2>4, <2>7, <2>8
    <3> QED
      BY <2>7, <2>8, <3>2, <3>3
  <2>10. code.complete = TRUE
    BY <2>6, <2>8 DEF Code
  <2>11. code.signatures = CalleeSignatures(f, text)
    <3>1. code.signatures \in Signatures
      BY <2>8 DEF Code
    <3>2. code.signatures = [g \in DOMAIN code.signatures |-> code.signatures[g]]
      BY <3>1 DEF Signatures
    <3>3. CalleeSignatures(f, text) = [g \in Range(calls) |-> Signature[g][text[g]]]
      BY DEF CalleeSignatures, calls
    <3> QED
      BY <2>6, <2>8, <3>2, <3>3
  <2>12. code = [text |-> text[f], layout |-> layout,
                 signatures |-> CalleeSignatures(f, text), complete |-> TRUE,
                 targets |-> [i \in DOMAIN calls |-> function_map[calls[i]]]]
    BY <2>6, <2>8, <2>9, <2>10, <2>11 DEF Code
  <2> QED
    BY <2>2, <2>5, <2>12 DEF code, calls
<1> QED
  BY <1>1, JitInvariant, PTL

-------------------------------------------------------------------------------
(* Programs without mutual recursion compile. *)

\* Every activation is of a function ranked below those it was entered from.
DownTheRanking(rank) ==
  \A i, j \in DOMAIN frames : i < j => rank[frames[j].func] < rank[frames[i].func]

RInv == \A rank \in [Func -> Func] : DescendsBy(rank) => DownTheRanking(rank) /\ Resolves

\* A call of a function that has no address would close a cycle.
LEMMA CalleeHasAddress ==
  ASSUME Typed, CompilingOK, frames # <<>>,
         NEW rank \in [Func -> Func], DescendsBy(rank), DownTheRanking(rank),
         NEW g \in Range(Calls[Top.func][text[Top.func]]), g # Top.func,
         g \in DOMAIN function_map
  PROVE  function_map[g] # Null
<1>1. Top.func \in Func /\ text[Top.func] \in Text /\ runs \in Nat
  BY TopFacts
<1>2. frames \in Seq(Frame)
  BY DEF Typed
<1>3. /\ DOMAIN frames = 1..Len(frames) /\ Len(frames) \in Nat \ {0}
      /\ Top = frames[Len(frames)]
  BY <1>2, FrontFacts DEF Top
<1>4. g \in Func
  BY <1>1, CallsTyped DEF Range
<1>5. rank[g] < rank[Top.func] /\ rank[g] \in Nat /\ rank[Top.func] \in Nat
  BY <1>1, <1>4 DEF DescendsBy, Func
<1>6. ~OnStack(g)
  <2> SUFFICES ASSUME NEW i \in DOMAIN frames, frames[i].func = g
               PROVE  FALSE
    BY DEF OnStack
  <2>1. i < Len(frames) /\ Len(frames) \in DOMAIN frames
    BY <1>3
  <2>2. rank[Top.func] < rank[g]
    BY <1>3, <2>1 DEF DownTheRanking
  <2> QED
    BY <1>5, <2>2
<1>7. function_map[g] = AddressIn(runs, g)
  BY <1>6 DEF CompilingOK, InstalledOK
<1> QED
  BY <1>1, <1>4, <1>7, AddressFacts

\* Steps that leave the functions of the stack alone, or shorten it.
LEMMA StackShrinks ==
  ASSUME NEW rank, DownTheRanking(rank), DOMAIN frames' \subseteq DOMAIN frames,
         \A i \in DOMAIN frames' : frames'[i].func = frames[i].func
  PROVE  DownTheRanking(rank)'
BY DEF DownTheRanking

LEMMA TopKept ==
  ASSUME Typed, frames # <<>>, NEW frame, frame.func = Top.func, SetTop(frame)
  PROVE  DOMAIN frames' = DOMAIN frames /\ \A i \in DOMAIN frames' : frames'[i].func = frames[i].func
<1>1. frames \in Seq(Frame \cup {frame}) /\ frame \in Frame \cup {frame}
  <2>1. Frame \subseteq Frame \cup {frame} /\ frames \in Seq(Frame)
    BY DEF Typed
  <2> QED
    BY <2>1, SeqMonotonic
<1>2. /\ DOMAIN frames' = 1..Len(frames)
      /\ DOMAIN frames = 1..Len(frames) /\ Len(frames) \in Nat \ {0}
      /\ \A i \in 1..Len(frames) : frames'[i] = IF i = Len(frames) THEN frame ELSE frames[i]
  BY <1>1, ReplaceLast DEF SetTop
<1> QED
  BY <1>2 DEF Top, Last

LEMMA TopDropped ==
  ASSUME Typed, frames # <<>>, frames' = Front(frames)
  PROVE  DOMAIN frames' \subseteq DOMAIN frames /\ \A i \in DOMAIN frames' : frames'[i].func = frames[i].func
<1>1. frames \in Seq(Frame)
  BY DEF Typed
<1>2. /\ DOMAIN frames' = 1..(Len(frames) - 1) /\ DOMAIN frames = 1..Len(frames)
      /\ Len(frames) \in Nat \ {0} /\ \A i \in DOMAIN frames' : frames'[i] = frames[i]
  BY <1>1, FrontFacts
<1> QED
  BY <1>2

\* compile_function() is entered for a callee of the innermost activation, or from
\* the loop of compile(), when there is none.
LEMMA EnterGoesDown ==
  ASSUME Typed, CompilingOK, NEW rank \in [Func -> Func], DescendsBy(rank), DownTheRanking(rank),
         NEW f \in Func, Enter(f),
         frames = <<>> \/ f \in Range(Calls[Top.func][text[Top.func]])
  PROVE  DownTheRanking(rank)'
<1>1. CASE f \in DOMAIN function_map
  BY <1>1, StackShrinks DEF Enter
<1>2. CASE f \notin DOMAIN function_map
  <2> DEFINE new == [func |-> f, cached |-> Hit(f),
                     file |-> IF Hit(f) THEN disk[f] ELSE <<>>, targets |-> <<>>,
                     pending |-> {}, stopped |-> FALSE, written |-> FALSE]
  <2>1. frames' = Append(frames, new) /\ new.func = f
    BY <1>2 DEF Enter
  <2> HIDE DEF new
  <2>2. frames \in Seq(Frame)
    BY DEF Typed
  <2>3. /\ DOMAIN frames = 1..Len(frames) /\ Len(frames) \in Nat
        /\ DOMAIN frames' = 1..Len(frames) + 1
        /\ \A i \in 1..Len(frames) : frames'[i] = frames[i]
        /\ frames'[Len(frames) + 1] = new
    BY <2>1, <2>2
  <2>4. \A i \in 1..Len(frames) : rank[f] < rank[frames[i].func]
    <3> TAKE i \in 1..Len(frames)
    <3>1. frames # <<>>
      BY <2>3
    <3>2. Top.func \in Func /\ Top.func \in DOMAIN function_map /\ Top = frames[Len(frames)]
      BY <3>1, TopFacts DEF Top, Last
    <3>3. rank[f] < rank[Top.func]
      BY <1>2, <3>1, <3>2 DEF DescendsBy
    <3>4. frames[i].func \in Func
      BY <2>2, ElementOfSeq, FrameTyped
    <3>5. rank[f] \in Nat /\ rank[Top.func] \in Nat /\ rank[frames[i].func] \in Nat
      BY <3>2, <3>4 DEF Func
    <3>6. i = Len(frames) \/ rank[Top.func] < rank[frames[i].func]
      <4>1. i \in DOMAIN frames /\ Len(frames) \in DOMAIN frames /\ (i = Len(frames) \/ i < Len(frames))
        <5> DEFINE n == Len(frames)
        <5>1. n \in Nat /\ i \in 1..n /\ DOMAIN frames = 1..n
          BY <2>3
        <5> HIDE DEF n
        <5>2. i \in 1..n /\ n \in 1..n /\ (i = n \/ i < n)
          BY <5>1
        <5> QED
          BY <5>1, <5>2 DEF n
      <4> QED
        BY <3>2, <4>1 DEF DownTheRanking
    <3> QED
      BY <3>2, <3>3, <3>5, <3>6
  <2> QED
    BY <2>1, <2>3, <2>4 DEF DownTheRanking
<1> QED
  BY <1>1, <1>2

LEMMA RInvStep ==
  ASSUME JInv, RInv, [JitNext]_jitVars, NEW rank \in [Func -> Func], DescendsBy(rank)'
  PROVE  DownTheRanking(rank)' /\ Resolves'
<1>1. CASE status = "idle"
  <2>1. NoProcess
    BY <1>1 DEF JInv
  <2>2. frames = <<>> /\ reported = FALSE
    BY <2>1 DEF NoProcess
  <2>3. UNCHANGED <<frames, reported>> /\ status' # "threw"
    BY <1>1 DEF JitNext, Edit, Start, Exit, Rival, Crash, CompileStep, CompileNext, CompileCallee,
       Call, CallUnresolved, DeferCall, WriteCachedCode, Install, RegisterCached, PatchFails,
       RunMain, AtCall, BodyDone, In, jitVars, process
  <2>4. DOMAIN frames' = {}
    BY <2>2, <2>3
  <2>5. Resolves'
    BY <2>2, <2>3 DEF Resolves
  <2> QED
    BY <2>4, <2>5 DEF DownTheRanking
<1>2. CASE status # "idle"
  <2>1. text' = text
    BY <1>2 DEF JitNext, Edit, Start, Exit, Rival, Crash, CompileStep, CompileNext, CompileCallee,
       Call, CallUnresolved, DeferCall, WriteCachedCode, Install, RegisterCached, PatchFails,
       RunMain, SiteDone, jitVars
  <2>2. DescendsBy(rank)
    BY <2>1 DEF DescendsBy
  <2>3. DownTheRanking(rank) /\ Resolves
    BY <2>2 DEF RInv
  <2>4. status = "compiling" => Typed /\ CompilingOK /\ DiskOK /\ next_func \in 1..N + 1
    BY CompilingFacts
  <2>5. Typed
    BY DEF JInv
  <2>6. CASE Exit \/ Crash
    <3>1. frames' = <<>> /\ reported' = FALSE /\ status' = "idle"
      BY <2>6 DEF Exit, Crash, NewProcess
    <3>2. DOMAIN frames' = {}
      BY <3>1
    <3>3. Resolves'
      BY <3>1 DEF Resolves
    <3> QED
      BY <3>2, <3>3 DEF DownTheRanking
  <2>7. CASE Rival \/ RunMain \/ UNCHANGED jitVars
    <3>1. UNCHANGED <<frames, reported>> /\ (status' = status \/ status' = "ran")
      BY <2>7 DEF Rival, RunMain, jitVars, process
    <3> QED
      BY <2>3, <3>1 DEF DownTheRanking, Resolves
  <2>8. CASE CompileNext
    <3>1. /\ status = "compiling" /\ frames = <<>> /\ next_func <= N /\ Enter(next_func)
          /\ UNCHANGED <<status, reported>>
      BY <2>8 DEF CompileNext
    <3>2. next_func \in Func
      BY <2>4, <3>1, JitAssumption DEF Func
    <3>3. DownTheRanking(rank)'
      BY <2>2, <2>3, <2>4, <3>1, <3>2, EnterGoesDown
    <3> QED
      BY <2>3, <3>1, <3>3 DEF Resolves
  <2>9. CASE CompileCallee
    <3>1. PICK cached \in BOOLEAN : AtCall(cached)
      BY <2>9 DEF CompileCallee
    <3>2. status = "compiling" /\ frames # <<>> /\ Enter(Callee) /\ UNCHANGED <<status, reported>>
      BY <2>9, <3>1 DEF CompileCallee, AtCall, In
    <3>3. Callee \in Func /\ Callee \in Range(Calls[Top.func][text[Top.func]])
      <4>1. Top.func \in Func /\ text[Top.func] \in Text
        BY <2>4, <3>2, TopFacts
      <4> QED
        BY <2>4, <3>1, <3>2, <4>1, CalleeIsCalled, CallsTyped DEF Range
    <3>4. DownTheRanking(rank)'
      BY <2>2, <2>3, <2>4, <3>2, <3>3, EnterGoesDown
    <3> QED
      BY <2>3, <3>2, <3>4 DEF Resolves
  <2>10. CASE Call \/ DeferCall \/ WriteCachedCode
    <3>1. /\ status = "compiling" /\ frames # <<>> /\ UNCHANGED <<status, reported>>
          /\ \E frame : SetTop(frame) /\ frame.func = Top.func
      <4>1. Top \in Frame
        BY <2>4, <2>10, TopFacts DEF Call, DeferCall, WriteCachedCode, AtCall, BodyDone, In
      <4>2. CASE Call
        <5>1. [Top EXCEPT !.targets = Append(@, function_map[Callee])].func = Top.func
          BY <4>1 DEF Frame
        <5> QED
          BY <4>2, <5>1 DEF Call, AtCall, In, SiteDone
      <4>3. CASE DeferCall
        <5>1. [Top EXCEPT !.targets = Append(@, File.code.targets[Site]),
                          !.pending = @ \cup {Site}].func = Top.func
          BY <4>1 DEF Frame
        <5> QED
          BY <4>3, <5>1 DEF DeferCall, AtCall, In, SiteDone
      <4>4. CASE WriteCachedCode
        <5>1. [Top EXCEPT !.written = TRUE].func = Top.func
          BY <4>1 DEF Frame
        <5> QED
          BY <4>4, <5>1 DEF WriteCachedCode, BodyDone, In
      <4> QED
        BY <2>10, <4>2, <4>3, <4>4
    <3>2. DOMAIN frames' = DOMAIN frames /\ \A i \in DOMAIN frames' : frames'[i].func = frames[i].func
      BY <2>4, <3>1, TopKept
    <3>3. DownTheRanking(rank)'
      BY <2>3, <3>2, StackShrinks
    <3> QED
      BY <2>3, <3>1, <3>3 DEF Resolves
  <2>11. CASE Install \/ RegisterCached
    <3>1. /\ status = "compiling" /\ frames # <<>> /\ frames' = Front(frames)
          /\ UNCHANGED <<status, reported>>
      BY <2>11 DEF Install, RegisterCached, BodyDone, In
    <3>2. DownTheRanking(rank)'
      BY <2>3, <2>4, <3>1, TopDropped, StackShrinks
    <3> QED
      BY <2>3, <3>1, <3>2 DEF Resolves
  <2>12. CASE CallUnresolved
    <3>1. /\ AtCall(FALSE) /\ In(FALSE) /\ frames # <<>> /\ status = "compiling"
          /\ Callee \in DOMAIN function_map /\ function_map[Callee] = Null
      BY <2>12 DEF CallUnresolved, AtCall, In, Registered, Resolved
    <3>2. Top.func \in Func /\ text[Top.func] \in Text /\ runs \in Nat
      BY <2>4, <3>1, TopFacts
    <3>3. Callee \in Range(Calls[Top.func][text[Top.func]])
      BY <2>4, <3>1, <3>2, CalleeIsCalled, CallsTyped DEF Range
    <3>4. Callee # Top.func
      BY <2>4, <3>1, <3>2, FreshTop, AddressFacts
    <3> QED
      BY <2>2, <2>3, <2>4, <3>1, <3>3, <3>4, CalleeHasAddress
  <2>13. CASE PatchFails
    <3>1. In(TRUE) /\ frames # <<>> /\ status = "compiling" /\ ~PendingResolved
      BY <2>13 DEF PatchFails, BodyDone, In
    <3>2. PICK i \in Top.pending : WithSelf[PendingName(i)] = Null
      BY <3>1 DEF PendingResolved
    <3>3. /\ i \in 1..Len(Top.targets)
          /\ PendingName(i) = Calls[Top.func][text[Top.func]][i]
          /\ PendingName(i) \in DOMAIN function_map
      BY <2>4, <3>1, PendingFacts
    <3>4. /\ Top.func \in Func /\ text[Top.func] \in Text /\ runs \in Nat
          /\ FrameOK(Top, runs, text[Top.func], function_map) /\ Len(Top.targets) \in Nat
      BY <2>4, <3>1, TopFacts
    <3>5. PendingName(i) \in Range(Calls[Top.func][text[Top.func]])
      <4>1. Len(Top.targets) <= Len(Calls[Top.func][text[Top.func]])
        BY <3>4 DEF FrameOK
      <4>2. i \in DOMAIN Calls[Top.func][text[Top.func]]
        BY <3>3, <3>4, <4>1, CallsTyped
      <4> QED
        BY <3>3, <4>2 DEF Range
    <3>6. PendingName(i) # Top.func /\ function_map[PendingName(i)] = Null
      <4>1. WithSelf[Top.func] = AddressIn(runs, Top.func) /\ AddressIn(runs, Top.func) # Null
        BY <2>4, <3>1, <3>4, WithSelfFacts, AddressFacts
      <4>2. PendingName(i) # Top.func
        BY <3>2, <4>1
      <4> QED
        BY <2>4, <3>1, <3>2, <3>3, <4>2, WithSelfFacts
    <3> QED
      BY <2>2, <2>3, <2>4, <3>1, <3>3, <3>5, <3>6, CalleeHasAddress
  <2> QED
    BY <1>2, <2>6, <2>7, <2>8, <2>9, <2>10, <2>11, <2>12, <2>13 DEF JitNext, CompileStep, Edit, Start
<1> QED
  BY <1>1, <1>2

\* A program none of whose functions is called back by one it calls, itself aside,
\* compiles with any cache: neither "unresolved (null target)" nor "cache patch
\* failed" is ever reached, however many functions there are between two calls.
THEOREM CompilesWithoutMutual == JitSpec => []ResolvesWithoutMutual
<1>1. JitInit => RInv
  <2> SUFFICES ASSUME JitInit, NEW rank \in [Func -> Func] PROVE DownTheRanking(rank) /\ Resolves
    BY DEF RInv
  <2>1. status = "idle" /\ frames = <<>> /\ reported = FALSE
    BY DEF JitInit
  <2>2. DOMAIN frames = {}
    BY <2>1
  <2>3. Resolves
    BY <2>1 DEF Resolves
  <2> QED
    BY <2>2, <2>3 DEF DownTheRanking
<1>2. JInv /\ RInv /\ [JitNext]_jitVars => RInv'
  BY RInvStep DEF RInv
<1>3. RInv => ResolvesWithoutMutual
  BY DEF RInv, ResolvesWithoutMutual, MutualRecursion
<1> QED
  BY <1>1, <1>2, <1>3, JitInvariant, PTL DEF JitSpec
===============================================================================
