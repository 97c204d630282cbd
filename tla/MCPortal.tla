------------------------------ MODULE MCPortal ------------------------------
(* Small instances of the parts of the portal. *)
EXTENDS Portal, TLC

CONSTANTS r1, r2

Rc(n) == <<[number |-> FALSE, n |-> 0], [number |-> TRUE, n |-> n]>>

\* 1.10.0, which runs, an older one with a greater last part, the dotted candidate
\* 1.10.0-rc.1, 1.11.0-beta and the shorter 2.0.
SomeTags == << [numbers |-> <<1, 10, 0>>, suffix |-> <<>>],
               [numbers |-> <<1, 9, 3>>, suffix |-> <<>>],
               [numbers |-> <<1, 10, 0>>, suffix |-> Rc(1)],
               [numbers |-> <<1, 11, 0>>, suffix |-> <<[number |-> FALSE, n |-> 0]>>],
               [numbers |-> <<2, 0>>, suffix |-> <<>>] >>

SomeLists == {<<"deb", "tar.gz">>, <<"apk">>, <<>>}

RequestSymmetry == Permutations(Requests)
=============================================================================
