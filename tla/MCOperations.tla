---------------------------- MODULE MCOperations ----------------------------
(***************************************************************************)
(* Small instances of Operations for TLC: an edit of one instruction file, *)
(* and edits of two paths on one delivery branch.                          *)
(***************************************************************************)
EXTENDS Operations, TLC

CONSTANTS p1, p2, d1, g1, g2, r1, w1, t1, t2, lesson

OpIds == 1..2
OneOp == {1}
FileDestOf == [p \in Proposals |-> d1]
LessonsOf == [p \in Proposals |-> lesson]
FileResourceOf == d1 :> d1

GitDestOf == p1 :> g1 @@ p2 :> g2
GitResourceOf == g1 :> r1 @@ g2 :> r1

=============================================================================
