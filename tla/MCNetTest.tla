------------------------------ MODULE MCNetTest ------------------------------
\* Values for TLC's runs of NetTest: messages are empty, a text, or binary, with
\* a NUL character after a part that is that text.
EXTENDS NetTest

CONSTANTS text, binary

MCContents == {Empty, text, binary}
MCCut == [c \in MCContents |-> IF c = binary THEN text ELSE c]
MCCheckAfter == {1, 3}
==============================================================================
