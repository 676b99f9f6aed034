------------------------------ MODULE MCChannels ------------------------------
(***************************************************************************)
(* An instance of Channels for TLC: the texts to send, the batches of tool *)
(* calls and the histories a session may have.                             *)
(***************************************************************************)
EXTENDS Channels, TLC

CONSTANTS ann, ben

Two == {ann, ben}

\* Texts around each limit, with one wide character and one blank at every place.
OneWideOneBlank ==
    {[i \in 1..n |-> IF i = blank THEN b ELSE IF i = wide THEN "wide" ELSE "x"] :
        n \in {1, 8, 9, 13}, wide \in {0, 1, 6, 7}, blank \in {0, 4, 5, 6, 11},
        b \in {"space", "newline"}}

\* Batches with a name twice, an empty one and names of earlier batches.
SomeBatches == {<<"a">>, <<"a", "b">>, <<"a", "a">>, <<"">>}

A == Given("a")
B == Given("b")
Call(ids) == [role |-> "assistant", calls |-> ids, outputs |-> <<>>, other |-> TRUE, size |-> 1]
Output(ids) == [role |-> "tool", calls |-> <<>>, outputs |-> ids, other |-> FALSE, size |-> 1]

\* Whole exchanges, with an id used again and one that looks like a new id, and
\* every way to break one: an output without its call or the other way round,
\* twice, of another call, behind a foreign message, or with other parts.
SomeHistories ==
    {<<>>,
     <<Call(<<A>>), Output(<<A>>)>>,
     <<Call(<<A, B>>), Output(<<B>>), Output(<<A>>)>>,
     <<Call(<<A>>), Output(<<A>>), Call(<<A>>), Output(<<A>>)>>,
     <<Call(<<A, Candidate(3, 1, 0)>>), Output(<<Candidate(3, 1, 0), A>>),
       Call(<<A>>), Output(<<A>>)>>,
     <<Output(<<A>>)>>,
     <<Call(<<A>>)>>,
     <<Call(<<A>>), User(1), Output(<<A>>)>>,
     <<Call(<<A>>), Output(<<A, A>>)>>,
     <<Call(<<A>>), Output(<<B>>)>>,
     <<Call(<<A>>), [Output(<<A>>) EXCEPT !.other = TRUE]>>,
     <<[Output(<<>>) EXCEPT !.other = TRUE]>>,
     <<[User(1) EXCEPT !.calls = <<A>>]>>}
=============================================================================
