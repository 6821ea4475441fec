---------------------------- MODULE MCLifetimes ----------------------------
EXTENDS Lifetimes, TLC

Places == Permutations(Wrapper)

(* The bound of the run: wrappers of two classes exist together when one is *)
(* a Repository or when some method has to do with both                     *)
Pairs == {{m.on, m.makes} : m \in Methods} \cup {{m.on, m.arg} : m \in Methods}
             \cup {{m.arg, m.makes} : m \in Methods}
Related(class1, class2) ==
    {class1, class2} \cap Repositories # {} \/ {class1, class2} \in Pairs
=============================================================================
