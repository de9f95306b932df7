---------------------------- MODULE MCSubbusCAN ----------------------------
(* Instances of SubbusCAN for TLC. *)
EXTENDS SubbusCAN

BadPart   == [dev |-> 0, frames |-> 0, reply |-> 0, fits |-> TRUE]
StrayPart == [dev |-> 0, frames |-> 0, reply |-> 1, fits |-> TRUE]

Word  == [dev |-> 1, frames |-> 1, reply |-> 1, fits |-> TRUE]   \* a word read or written
Block == [dev |-> 2, frames |-> 2, reply |-> 2, fits |-> TRUE]   \* two frames each way
Wide  == [dev |-> 1, frames |-> 1, reply |-> 1, fits |-> FALSE]  \* more than there is room for

\* A word, a multi-read of two boards, two that turn out to be ill formed after
\* their first part, and one with too many words.
SomeRequests == {<<Word>>, <<Block, Word>>, <<Word, BadPart>>, <<Word, StrayPart>>, <<Wide>>}
TwoParts == {<<Word>>, <<Block, Word>>}
=============================================================================
