---------------------------- MODULE MCStreamViewer ----------------------------
(* Pictures that fill one, two or three bytes less than a slot or all of it, *)
(* with a marker split over two datagrams and one that seems to begin early. *)
EXTENDS StreamViewer, TLC

MCBodies == {<<>>, <<"xx">>, <<"FF", "00">>}

Symmetry == Permutations(Client)
=============================================================================
