------------------------------ MODULE MCFrame ------------------------------
(***************************************************************************)
(* Instances of Frame for TLC: the types of C that the parser knows, with  *)
(* one length of int array and one of char array, and names that are      *)
(* interchangeable.                                                        *)
(***************************************************************************)
EXTENDS Frame, TLC

Plain(e) == [elem |-> e, array |-> FALSE, n |-> 1]
Array(e, k) == [elem |-> e, array |-> TRUE, n |-> k]

IntOnly == {Plain("int")}
WordTypes == {Plain("int"), Plain("ptr")}
ScalarTypes == {Plain(e) : e \in Elem}
AllTypes == ScalarTypes \cup {Array("int", 2), Array("char", 3)}

NameSymmetry == Permutations(Names)
=============================================================================
