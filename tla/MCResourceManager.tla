--------------------------- MODULE MCResourceManager ---------------------------
(***************************************************************************)
(* Instances of ResourceManager for TLC: small machines with two sockets   *)
(* per node, and the requests that tasks make of them.                     *)
(***************************************************************************)
EXTENDS ResourceManager, TLC

CONSTANTS n1, n2, n3

(* Tasks differ only in what they ask for. *)
Symmetry == Permutations(Tasks)

Ask(kind, nproc, ppn) == [nproc |-> nproc, ppn |-> ppn, kind |-> kind, gpp |-> 0]
Gpus(r, gpp) == [r EXCEPT !.gpp = gpp]

Three == <<n1, n2, n3>>
FourTwoTwo == [n \in {n1, n2, n3} |-> IF n = n1 THEN 4 ELSE 2]

(* All kinds, over one node and over several, with all reasons to refuse; *)
(* some leave part of a socket, or of a node, to others, some need nearly  *)
(* the whole machine, and some can never be run.                           *)
Mixture ==
  {Ask("cores", 1, 0), Ask("cores", 4, 3), Ask("cores", 3, 2), Ask("cores", 6, 0),
   Ask("socks", 1, 1), Ask("socks", 2, 2), Ask("socks", 3, 1), Ask("socks", 5, 2),
   Ask("nodes", 4, 2), Ask("nodes", 6, 2), Ask("nodes", 2, 4), Ask("nodes", 3, 2),
   Ask("cores", 9, 0), Ask("cores", 4, 1), Gpus(Ask("cores", 1, 0), 2)}
=============================================================================
