CONSTANT Program <- Programs
SPECIFICATION Spec
CHECK_DEADLOCK FALSE
INVARIANTS ResolvesLexically AcceptedIsSound RefusedForCause TypesAgree ReadsItsOwn
