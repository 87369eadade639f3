------------------------------ MODULE Question ------------------------------
(***************************************************************************)
(* What the tool calls of a question share: their identities, which the    *)
(* progress lines carry, and the token that stops them (the browser left,  *)
(* a newer question, the reserve kept for the final answer).               *)
(***************************************************************************)
EXTENDS Naturals, FiniteSets

CONSTANT Calls     \* the calls of a conversation, in the order they are made

ASSUME CallsAreNumbered == Calls \subseteq Nat /\ IsFiniteSet(Calls)

VARIABLE cancel    \* the token the running batch is given was cancelled

QuestionInit == cancel = FALSE

\* The question is stopped, or its tools reach the final reserve (`stopper`).
StopCalls == ~cancel /\ cancel' = TRUE
=============================================================================
