------------------------------- MODULE MCFrontEnd -------------------------------
EXTENDS FrontEnd

\* Blocks of up to three lines that start at a line and inside one, and blocks of
\* one instruction, with and without a mispredicted branch at the end.
Shapes == {[first |-> f, len |-> l, mispredict |-> m] :
              f \in {0, 3}, l \in {1, 4}, m \in BOOLEAN}

=============================================================================
