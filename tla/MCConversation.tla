--------------------------- MODULE MCConversation ---------------------------
(* One thread: a few requests that overlap at will, and more of them, with  *)
(* failures, for a client that has waited for every answer so far.          *)
EXTENDS Conversation, TLC

CONSTANTS
    HastyTurns   \* bound once two requests have overlapped

Begun == {t \in Turns : turn[t].pc # "idle"}

\* The turns of a client are interchangeable.
Symm == Permutations(Turns)

\* The requests that are being served.
Active == {t \in Turns : Running(t)}

\* The overlap that is explored: a slow request beside others that follow each
\* other, of which one may break off.
Bounded == overlapped => Cardinality(Begun) <= HastyTurns /\ Cardinality(Active) <= 2 /\ broken <= 1
=============================================================================
