--------------------------- MODULE StructuredProgram ---------------------------
(***************************************************************************)
(* What the body of a function does, as the language means it: statements  *)
(* run in order, loops repeat, break and continue act on the innermost     *)
(* loop (a switch is none), a case runs its own block or the one of the    *)
(* next case that has any, and return leaves.  What a step shows to the    *)
(* outside is an event: a statement executed, a condition or the value of  *)
(* a switch evaluated.                                                     *)
(***************************************************************************)
EXTENDS Naturals, SequencesExt, FiniteSetsExt

CONSTANT CaseValue   \* values of switch expressions and case labels

\* A statement (a "for" declares an integer counter, a "forassign" begins in another
\* way): its parts are blocks with the condition or case label that
\* guards them, 0 for none; `present' is FALSE for a case without a block.
Part(test, body) == [test |-> test, present |-> TRUE, body |-> body]
BareCase(test)   == [test |-> test, present |-> FALSE, body |-> <<>>]
Stmt(kind, id, parts) == [kind |-> kind, id |-> id, parts |-> parts]

VARIABLE cont   \* frames, innermost first: the statements left in each block

Frame(body) == [rest |-> body, loop |-> FALSE, step |-> <<>>]
LoopFrame(body, step) == [rest |-> body, loop |-> TRUE, step |-> step]

Top   == Head(cont)
Point == Head(Top.rest)
At(kind) == cont # <<>> /\ Top.rest # <<>> /\ Point.kind = kind

\* The frames with other statements left in the innermost one.
Going(rest) == <<[Top EXCEPT !.rest = rest]>> \o Tail(cont)
After   == Going(Tail(Top.rest))
Enter(frame, frames) == <<frame>> \o frames

LoopFrames == {i \in DOMAIN cont : cont[i].loop}
InLoop     == LoopFrames # {}
Innermost  == Min(LoopFrames)
FramesFrom(i) == SubSeq(cont, i, Len(cont))

-------------------------------------------------------------------------------
(* Steps without an event. *)

\* The step of a for comes after its body, however that ended.
EndOfBlock ==
  /\ cont # <<>> /\ Top.rest = <<>>
  /\ cont' = IF Top.step # <<>> THEN Enter(Frame(Top.step), Tail(cont)) ELSE Tail(cont)

SourceBreak ==
  /\ At("break") /\ InLoop
  /\ LET outer == FramesFrom(Innermost + 1)
     IN  cont' = <<[Head(outer) EXCEPT !.rest = Tail(@)]>> \o Tail(outer)

SourceContinue ==
  /\ At("continue") /\ InLoop
  /\ LET frames == FramesFrom(Innermost)
     IN  cont' = <<[Head(frames) EXCEPT !.rest = <<>>]>> \o Tail(frames)

SourceLoop == /\ At("loop")
              /\ cont' = Enter(LoopFrame(Point.parts[1].body, <<>>), cont)

\* No condition held: the else block, if there is one.
SourceElse ==
  /\ At("if")
  /\ \/ Point.parts = <<>> /\ cont' = After
     \/ /\ Point.parts # <<>> /\ Head(Point.parts).test = 0
        /\ cont' = Enter(Frame(Head(Point.parts).body), After)

\* The block a switch runs for a value: that of the first case with this label,
\* or the next one after it that has a block.
Matching(parts, v) ==
  LET labelled == {i \in DOMAIN parts : parts[i].test = v}
      first == IF labelled # {} THEN Min(labelled) ELSE Len(parts) + 1
      from == IF labelled # {} THEN first ELSE 1
      candidates == {i \in DOMAIN parts :
                       /\ parts[i].present /\ i >= from
                       /\ labelled = {} => parts[i].test = 0}
  IN  IF candidates = {} THEN <<>> ELSE parts[Min(candidates)].body

Silent == EndOfBlock \/ SourceBreak \/ SourceContinue \/ SourceLoop \/ SourceElse

Visible ==
  \/ cont = <<>>
  \/ \E kind \in {"do", "for", "forassign", "while", "next", "switch", "return"} : At(kind)
  \/ At("if") /\ Point.parts # <<>> /\ Head(Point.parts).test # 0

\* What comes next when no silent step does.
Event ==
  IF cont = <<>> THEN <<"end", 0>>
  ELSE CASE Point.kind \in {"do", "for", "forassign"} -> <<"do", Point.id>>
         [] Point.kind = "if" -> <<"test", Head(Point.parts).test>>
         [] Point.kind \in {"while", "next"} -> <<"test", Point.parts[1].test>>
         [] Point.kind = "switch" -> <<"eval", Point.id>>
         [] OTHER -> <<Point.kind, 0>>

-------------------------------------------------------------------------------
(* Steps with an event. *)

\* A statement executed; the initialisation of a for is one.
SourceDo ==
  \/ At("do") /\ cont' = After
  \/ (At("for") \/ At("forassign")) /\ cont' = Going(<<[Point EXCEPT !.kind = "next"]>> \o Tail(Top.rest))

\* A condition evaluated to `holds'.
SourceTest(holds) ==
  \/ /\ At("if") /\ Point.parts # <<>> /\ Head(Point.parts).test # 0
     /\ cont' = IF holds THEN Enter(Frame(Head(Point.parts).body), After)
                ELSE Going(<<[Point EXCEPT !.parts = Tail(@)]>> \o Tail(Top.rest))
  \/ /\ At("while")
     /\ cont' = IF holds THEN Enter(LoopFrame(Point.parts[1].body, <<>>), cont) ELSE After
  \/ /\ At("next")
     /\ cont' = IF holds THEN Enter(LoopFrame(Point.parts[1].body, Point.parts[2].body), cont)
                ELSE After

SourceSwitch(v) ==
  /\ At("switch")
  /\ cont' = Enter(Frame(Matching(Point.parts, v)), After)

SourceReturn == At("return") /\ cont' = <<>>

SourceNext ==
  \/ Silent \/ SourceDo \/ SourceReturn
  \/ \E holds \in BOOLEAN : SourceTest(holds)
  \/ \E v \in CaseValue : SourceSwitch(v)
================================================================================
