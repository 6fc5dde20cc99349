----------------------------- MODULE MCS3Capture -----------------------------
(* Instances of S3Capture: bodies of different sizes, two prefixes. *)
EXTENDS S3Capture

MCSize == [b \in Bodies |-> b]

OnePrefix   == <<Keys>>
TwoPrefixes == <<{1}, Keys \ {1}>>

(* A bucket of which one object is oversized and the other two just fit:   *)
(* one write to it makes either limit bind.                                *)
MCInit == Init /\ object = [k \in Keys |-> [body |-> <<2, 3, 1>>[k], meta |-> 1]]

MCSpec == MCInit /\ [][Next]_vars /\ WF_vars(Run) /\ WF_vars(Attempt)

=============================================================================
