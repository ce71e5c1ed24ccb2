----------------------------- MODULE MCCommands -----------------------------
\* One goroutine makes every call, with every answer; another one keeps
\* taking and returning buffers of the same pool.
EXTENDS Commands

MCTexts == {<<"k">>, <<"a", "|", "b">>}

MCCounts == {One, TwoTo31}

MCCalls == [p \in Callers |-> IF p = "p1" THEN AllCalls ELSE {Get(<<"k">>, One)}]
=============================================================================
