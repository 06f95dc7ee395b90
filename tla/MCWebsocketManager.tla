-------------------------- MODULE MCWebsocketManager --------------------------
EXTENDS WebsocketManager, TLC

CONSTANTS u1, u2, u3, w1, w2, r, c1, c2

MCUserOf == (w1 :> u1) @@ (w2 :> u2) @@ (r :> u3)

MCMemberOf == (c1 :> {u1, u2}) @@ (c2 :> {u1, u3})
=============================================================================
