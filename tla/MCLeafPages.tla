----------------------------- MODULE MCLeafPages -----------------------------
(***************************************************************************)
(* An instance of LeafPages for TLC.  The keys share prefixes with each    *)
(* other and with the fences, two of them their first two bytes, and three *)
(* of them are outside the fences of the first leaf.                       *)
(***************************************************************************)
EXTENDS LeafPages

Put(k, v) == [key |-> k, val |-> v]
Long == [i \in 1..24 |-> 2]
MCPuts == {Put(<<0, 1>>, <<7>>), Put(<<0, 1>>, <<8>>), Put(<<0, 1>>, <<9, 9>>),
           Put(<<0, 1, 0>>, <<7>>), Put(<<0, 1, 5>>, <<8>>),
           Put(<<2>>, [i \in 1..11 |-> 6]), Put(Long, <<7>>),
           Put(Long, [i \in 1..40 |-> 6]),
           Put(<<>>, <<7>>), Put(<<255>>, <<8>>), Put(<<255, 1>>, <<7>>)}
===============================================================================
