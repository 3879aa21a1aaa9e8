------------------------------ MODULE MCOutbox ------------------------------
\* Small instances of Outbox.
EXTENDS Outbox, TLC

CONSTANTS c1, c2, c3, p1, p2, p3, t1, t2, t3

\* Two watch daemons: a token of its own for each process.
OwnToken == (p1 :> t1) @@ (p2 :> t2) @@ (p3 :> t3)
OwnTokens == [w \in Workers |-> OwnToken[w]]

OneOfEach == (c1 :> "create") @@ (c2 :> "patch") @@ (c3 :> "lifecycle")
OneCreate == c1 :> "create"
OneSurface == c1 :> "surface"
=============================================================================
