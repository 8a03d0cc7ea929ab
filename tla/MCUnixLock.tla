----------------------------- MODULE MCUnixLock -----------------------------
EXTENDS UnixLock, TLC

CONSTANTS p1, p2, p3, c1, c2, c3

\* Two connections in one process, a third in another.
MCProcess == {p1, p2}
MCConn    == {c1, c2, c3}
MCProc    == (c1 :> p1) @@ (c2 :> p1) @@ (c3 :> p2)

\* Three processes with one connection each.
MCProcess3 == {p1, p2, p3}
MCProc3    == (c1 :> p1) @@ (c2 :> p2) @@ (c3 :> p3)
=============================================================================
