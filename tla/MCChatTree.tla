----------------------------- MODULE MCChatTree -----------------------------
(* ChatTree on a few messages, with one or two models selected.            *)
EXTENDS ChatTree

\* Bounds: a message is drawn less for every answer that was asked for or that
\* a handler holds, and nothing is followed once a late handler has done its damage, which the
\* properties except.
Bounded == drawn + Cardinality(Busy) <= MaxMessages /\ ~disturbed
=============================================================================
