---- MODULE MCIoKitWalk ----
EXTENDS IoKitWalk, TLC

CONSTANTS m1, m2, m3, d1, d2, d3, u1, u2, b, c, hub, root

\* Two sticks on one hub, their devices of the two USB classes, and a reader
\* whose nearest USB device is the hub.  With MaxDepth = 4 the hub is the last
\* entry a walk from m1 could examine, and out of reach from m3.
MCEntries == {m1, m2, m3, d1, d2, d3, u1, u2, b, c, hub, root}
MCParent == (m1 :> d1) @@ (d1 :> u1) @@ (u1 :> hub)
         @@ (m2 :> d2) @@ (d2 :> u2) @@ (u2 :> hub)
         @@ (m3 :> d3) @@ (d3 :> c) @@ (c :> b) @@ (b :> hub)
         @@ (hub :> root) @@ (root :> NoEntry)
====
