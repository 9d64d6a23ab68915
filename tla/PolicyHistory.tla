----------------------------- MODULE PolicyHistory -----------------------------
(***************************************************************************)
(* What the policy of a target promises its organization: a history of     *)
(* versions to which one is added at a time, each with a true record of    *)
(* whether it weakens the one before it, and every draft published at most *)
(* once.  PolicyWorkflow implements it.                                    *)
(***************************************************************************)
EXTENDS Integers, Sequences

CONSTANTS
  Docs,     \* policy documents, a set of positive integers
  Drafts,   \* draft IDs
  NoDraft   \* of a version that no draft proposed

VARIABLES
  history,    \* the versions
  published   \* the drafts that were published

-----------------------------------------------------------------------------
Init == history = <<>> /\ published = {}

\* The document in force; 0 before the first version.
Current == IF history = <<>> THEN 0 ELSE history[Len(history)].doc

\* A new document comes into force, proposed by a draft or not.
Publish(doc, d) ==
  /\ doc # Current
  /\ d \notin published
  /\ history' = Append(history, [doc |-> doc, draft |-> d, weakening |-> doc < Current])
  /\ published' = published \cup ({d} \ {NoDraft})

Next == \E doc \in Docs, d \in Drafts \cup {NoDraft} : Publish(doc, d)

Spec == Init /\ [][Next]_<<history, published>>
=============================================================================
