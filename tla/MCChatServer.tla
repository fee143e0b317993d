---------------------------- MODULE MCChatServer ----------------------------
EXTENDS ChatServer

CONSTANTS c1, c2, c3   \* clients

\* A message is two cells, so that it can arrive in two pieces.
MCSize == [k \in Kinds |-> IF k = "message" THEN 2 ELSE 1]

\* What the clients send.
Polite  == [x \in Clients |-> IF x = c1 THEN <<"login", "message">>
                              ELSE IF x = c2 THEN <<"message">> ELSE <<>>]
Hostile == [x \in Clients |-> IF x = c1 THEN <<"message", "login">>
                              ELSE <<"unknown", "register">>]
\* One client uses a descriptor after another and pipelines; for instances with
\* three workers, in which EPOLL_CTL_ADD may clear an object somebody still wipes.
Eager   == [x \in Clients |-> IF x = c1 THEN <<"login">>
                              ELSE IF x = c3 THEN <<"login", "login">> ELSE <<>>]
=============================================================================
