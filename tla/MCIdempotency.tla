---------------------------- MODULE MCIdempotency ----------------------------
EXTENDS Idempotency, TLC

\* Requests and bodies are interchangeable.
Symmetry == Permutations(Requests) \cup Permutations(Bodies)

===============================================================================
