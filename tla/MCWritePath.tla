----------------------------- MODULE MCWritePath -----------------------------
(* Offers for the model-checking runs of WritePath.                         *)
EXTENDS WritePath

CONSTANTS s1, s2

Offer(verb, s, streamed, merge) ==
    [verb |-> verb, stream |-> s, streamed |-> streamed, merge |-> merge, force |-> FALSE]

ForcedFork(s, streamed) == [Offer("fork", s, streamed, FALSE) EXCEPT !.force = TRUE]

\* Every request, all of them synchronous: the handler is held to the end.
SyncOffers == {Offer("answer", s1, FALSE, m) : m \in BOOLEAN}
         \cup {ForcedFork(s, FALSE) : s \in {s1, s2}}
         \cup {Offer("fork", s2, FALSE, FALSE), Offer("rebuild", s1, FALSE, FALSE),
               Offer("answer", s2, FALSE, TRUE), Offer("diff", s1, FALSE, FALSE)}

\* Every kind of request, streamed.
StreamedOffers == {Offer("answer", s1, TRUE, m) : m \in BOOLEAN}
             \cup {Offer("fork", s2, TRUE, FALSE), Offer("rebuild", s1, TRUE, FALSE),
                   Offer("answer", s1, FALSE, FALSE), Offer("list", s1, FALSE, FALSE),
                   ForcedFork(s1, TRUE)}

\* Two desks that both stream their answers, and nothing else.
AnswerOffers == {Offer("answer", s1, TRUE, m) : m \in BOOLEAN}

\* A streamed answer and a streamed rebuild.
RebuildOffers == {Offer("answer", s1, TRUE, FALSE), Offer("rebuild", s1, TRUE, FALSE)}
=============================================================================
