--------------------------- MODULE MCMessageStore ---------------------------
(* The instances of MessageStore that TLC checks.                          *)
EXTENDS MessageStore, TLC

CONSTANTS h1, h2, h3

MCHandlers == {h1, h2, h3}
MCUsers == {1, 2, 3}
MCUserIds == {1, 2, 3, 9}
MCKeys == {"k1", "k2"}
MCContents == {"a", "b", ""}
MCBadContents == {""}
MCClock == {1, 2}

Send(sender, key, receiver, content) ==
    [sender |-> sender, key |-> key, receiver |-> receiver, content |-> content]

\* The retried request, the same key with another content and with another
\* receiver, further messages of the same conversation in either direction, a
\* message to oneself, and the requests that fail.
MCCommands ==
    {Send(1, "k1", 2, "a"), Send(1, "k1", 2, "b"), Send(1, "k1", 3, "a"),
     Send(2, "k1", 1, "a"), Send(1, "k2", 2, "a"), Send(1, "k2", 9, "a"),
     Send(1, "k2", 2, ""), Send(1, "k2", 1, "a")}

\* For the liveness run: the two requests that lock different conversations
\* and the same key, and one that shares a conversation with the first.
MCLockCommands ==
    {Send(1, "k1", 2, "a"), Send(1, "k1", 3, "a"), Send(2, "k2", 1, "a")}

Symmetry == Permutations(MCHandlers)
=============================================================================
