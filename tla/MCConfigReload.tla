--------------------------- MODULE MCConfigReload ---------------------------
(* Documents for model checking ConfigReload, over the ids A, B and C.      *)
EXTENDS ConfigReload

Node(id, typed, deps) == [id |-> id, typed |-> typed, deps |-> deps]
Doc(nodes) == [wellformed |-> TRUE, nodes |-> nodes]

Single    == Doc(<<Node("A", TRUE, <<>>)>>)
Chain     == Doc(<<Node("B", TRUE, <<"A">>), Node("A", TRUE, <<>>)>>)
Fork      == Doc(<<Node("A", TRUE, <<>>), Node("B", TRUE, <<"A">>),
                   Node("C", TRUE, <<"A">>)>>)
Torn      == [wellformed |-> FALSE, nodes |-> <<>>]
Untyped   == Doc(<<Node("A", TRUE, <<>>), Node("C", FALSE, <<>>)>>)
Twice     == Doc(<<Node("A", TRUE, <<>>), Node("A", TRUE, <<>>)>>)
Ghost     == Doc(<<Node("A", TRUE, <<>>), Node("B", TRUE, <<"C">>)>>)
Cycle     == Doc(<<Node("A", TRUE, <<>>), Node("B", TRUE, <<"C">>),
                   Node("C", TRUE, <<"B">>)>>)
Doubled   == Doc(<<Node("A", TRUE, <<"B", "B">>), Node("B", TRUE, <<>>)>>)
Empty     == Doc(<<>>)

Good == {Single, Chain, Fork}
All  == Good \cup {Torn, Untyped, Twice, Ghost, Cycle, Doubled, Empty}
=============================================================================
