---------------------------- MODULE MCToolBatch -----------------------------
\* Responses and query identities for TLC.
EXTENDS ToolBatch
CONSTANTS a, b, s1
FourCalls == 1..4
\* The calls 1, 3 and 4 are one run, however they are spelled.
SomeSigs == [i \in Calls |-> IF i = 2 THEN b ELSE a]
SomeResponses == [n \in 0..4 |->
    CASE n = 0 -> {<<"query", "read", "query">>, <<"wrong", "source", "repeat">>, <<"mcp", "mcp">>}
      [] n = 3 -> {<<"query">>, <<"source">>}
      [] OTHER -> {}]
=============================================================================
