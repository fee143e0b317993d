--------------------------- MODULE MCCommunicateQt ---------------------------
EXTENDS CommunicateQt

CONSTANTS c1, c2   \* clients

\* c1 is polite, c2 is not.
MCScript ==
  [x \in Clients |->
     IF x = c1 THEN <<[size |-> 2, utf8 |-> TRUE], [size |-> 1, utf8 |-> FALSE],
                      [size |-> 1, utf8 |-> TRUE]>>
     ELSE <<[size |-> 1, utf8 |-> TRUE], [size |-> 3, utf8 |-> TRUE],
            [size |-> 1, utf8 |-> TRUE]>>]
=============================================================================
