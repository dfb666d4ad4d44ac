----------------------------- MODULE MCTransfer -----------------------------
(* Model values for Transfer. *)
EXTENDS Transfer

CONSTANTS p1, p2, p3

\* One provider is known at first; the other may be announced at any time.
One  == <<p2>>
Both == <<p1, p2>>
=============================================================================
