-------------------------------- MODULE MCTree --------------------------------
(***************************************************************************)
(* Instances of Tree for TLC.                                              *)
(***************************************************************************)
EXTENDS Tree, TLC

CONSTANTS t1, t2

MCPages == 0..13
Evens(n) == [i \in 1..n |-> 2 * i]

Run(keys, calls1, calls2) == [keys |-> keys, todo |-> (t1 :> calls1) @@ (t2 :> calls2)]

MCScenarios == {
  \* The root is a full leaf.
  Run(Evens(2), <<<<"put", 1>>, <<"put", 3>>>>, <<<<"put", 5>>, <<"scan", 0>>>>),
  \* A merge beside a split of the same parent.
  Run(Evens(4), <<<<"delete", 2>>>>, <<<<"put", 9>>, <<"get", 4>>>>),
  Run(Evens(4), <<<<"truncate", 2>>>>, <<<<"put", 5>>, <<"scan", 0>>>>),
  \* A full root of leaves: its split adds a level.
  Run(Evens(5), <<<<"put", 11>>>>, <<<<"put", 12>>>>),
  Run(Evens(5) \o <<3>>, <<<<"put", 1>>>>, <<<<"get", 10>>>>),
  \* A parent that fills up and is split while another thread is on its way to it.
  Run(<<2, 6, 10, 14, 3, 7>>, <<<<"put", 15>>>>, <<<<"put", 1>>, <<"put", 8>>>>),
  \* Two levels, with a split on either side of the root.
  Run(Evens(8) \o <<3>>, <<<<"put", 1>>>>, <<<<"put", 18>>>>),
  \* The last inner node is in use.
  Run(Evens(11), <<<<"put", 23>>>>, <<<<"get", 22>>>>),
  \* Two leaves that merge into one while the left one is written.
  Run(Evens(2), <<<<"put", 6>>, <<"delete", 2>>>>, <<<<"put", 3>>, <<"scan", 0>>>>),
  \* A leaf that stays.
  Run(<<2, 4>>, <<<<"delete", 2>>, <<"put", 2>>>>, <<<<"delete", 4>>>>),
  Run(<<2>>, <<<<"truncate", 0>>, <<"put", 4>>>>, <<<<"get", 2>>>>),
  \* A pivot that is too long for an inner node: of the root, and between two others.
  Run(<<2, 19>>, <<<<"put", 20>>, <<"get", 19>>>>, <<<<"get", 2>>>>),
  Run(<<2, 16, 20, 22, 19>>, <<<<"put", 17>>>>, <<<<"put", 18>>, <<"get", 22>>>>),
  \* Keys that are not between the fences of the first leaf.
  Run(<<0, 2>>, <<<<"put", 23>>, <<"put", 22>>>>, <<<<"get", 0>>>>),
  \* An abort that empties the left one of two leaves, before they merge.
  Run(<<>>, <<<<"put", 2>>, <<"put", 4>>, <<"put", 6>>, <<"delete", 4>>>>, <<>>)}

===============================================================================
