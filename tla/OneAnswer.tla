------------------------------ MODULE OneAnswer ------------------------------
(***************************************************************************)
(* What an idempotency key promises its clients: the requests made under   *)
(* it have one answer between them, which never changes once it is given.  *)
(* A promise that is broken binds nobody any more.                         *)
(***************************************************************************)
CONSTANTS
  Requests,   \* the requests made under the key
  None        \* no answer

VARIABLES
  decided,    \* the request whose operation gave the key its answer
  answers,    \* per request: whose answer it was given
  broken      \* the promise has been broken

Init ==
  /\ decided = None
  /\ answers = [r \in Requests |-> None]
  /\ broken = FALSE

\* The operation of r completes, which decides the answer.
Decide(r) ==
  /\ decided = None
  /\ decided' = r
  /\ answers' = [answers EXCEPT ![r] = r]
  /\ UNCHANGED broken

\* A later request is given the same answer.
Replay(r) ==
  /\ decided # None
  /\ answers' = [answers EXCEPT ![r] = decided]
  /\ UNCHANGED <<decided, broken>>

\* The step that breaks the promise, and whatever comes after it.
Break == broken' = TRUE

Next == Break \/ \E r \in Requests : Decide(r) \/ Replay(r)

Spec == Init /\ [][Next]_<<decided, answers, broken>>

===============================================================================
