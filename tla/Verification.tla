---------------------------- MODULE Verification ----------------------------
(***************************************************************************)
(* GET /events/verify-chain.  The events and the checkpoint are read by    *)
(* two statements; at READ COMMITTED a retention run may commit between    *)
(* them.  Rows are never updated, so the set of positions read determines  *)
(* the rows read.                                                          *)
(***************************************************************************)
EXTENDS ChainStore

CONSTANT Verifiers   \* slots for verification requests in progress

VARIABLE check       \* verifier -> the application and rows it has read, or None

VerificationInit == check = [v \in Verifiers |-> None]

ReadEvents(v, a) ==
    /\ check[v] = None
    /\ check' = [check EXCEPT ![v] = [app |-> a, rows |-> live[a]]]
    /\ UNCHANGED storeVars

\* What ChainVerificationResponse.valid says if the checkpoint is read now.
Verdict(v) ==
    verify_chain(check[v].app, check[v].rows, AnchorOf(checkpoint[check[v].app]))

\* The checkpoint is read and the answer sent.
ReadCheckpointAndAnswer(v) ==
    /\ check[v] # None
    /\ check' = [check EXCEPT ![v] = None]
    /\ UNCHANGED storeVars
=============================================================================
