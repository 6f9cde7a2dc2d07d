------------------------------ MODULE MCConfig ------------------------------
(* A small instance of the configuration store. *)
EXTENDS ConfigProperties, TLC

CONSTANTS p1, p2, a1, a2, c1, c2, u1, x, y

Symmetry == Permutations({a1, a2}) \cup Permutations({c1, c2}) \cup Permutations({p1, p2})
              \cup Permutations({x, y})

\* The fences of the routes and those of the accounts share no state but the
\* commit they are published with: a behaviour goes on with one of them.
OneFence == probe = << >> \/ (ref = [u \in Reader |-> NoReference] /\ edit.saw = {})
=============================================================================
