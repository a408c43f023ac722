------------------------------ MODULE MCStores ------------------------------
(***************************************************************************)
(* Two processes over two secrets, or two collections and what a project   *)
(* still has from before, or a flow.                                       *)
(***************************************************************************)
EXTENDS Stores

CONSTANTS p, q, s, t, c, d, a, b, here, there

Nothing == [secrets |-> NoSecrets, collections |-> [n \in {c, d} |-> None],
            legacy |-> [n \in {c, d} |-> None], flow |-> None]

Filed1 == File(<<[id |-> 1, title |-> a]>>, TRUE)
Filed2 == File(<<[id |-> 2, title |-> None], [id |-> 1, title |-> a]>>, TRUE)

MCStarts ==
  {[Nothing EXCEPT !.secrets = [n \in {s, t} |-> 1]],
   [Nothing EXCEPT !.flow = [body |-> b, place |-> there]]}
  \union {[Nothing EXCEPT !.collections[c] = file, !.collections[d] = other, !.legacy[c] = old] :
            file \in {None, Filed1, Filed2}, other \in {None, Filed1}, old \in {None, Filed1}}

Symmetry == Permutations(Process)

=============================================================================
