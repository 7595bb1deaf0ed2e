------------------------------- MODULE MCRelay -------------------------------
(* Instances of Relay for TLC.                                               *)
EXTENDS Relay, TLC

MCWatermarks == {0, 2}
NoWatermarks == {}

\* A message without files; files in another order than their attachments; two
\* files of one name; a file that no attachment names.
MCForms == {NoForm,
            [files |-> <<"a", "b">>, attach |-> <<"b", "a">>],
            [files |-> <<"a", "a">>, attach |-> <<"a", "a">>],
            [files |-> <<"a">>,      attach |-> <<"b">>]}
NoFiles == {NoForm}

Symmetry == Permutations(Posts) \cup Permutations(Replies) \cup Permutations(Sockets)
=============================================================================
