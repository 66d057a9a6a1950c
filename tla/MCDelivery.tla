----------------------------- MODULE MCDelivery -----------------------------
(***************************************************************************)
(* Small instances of Delivery for TLC: two instruction files, or one      *)
(* repository with two instruction paths on one delivery branch.           *)
(***************************************************************************)
EXTENDS Delivery, TLC

CONSTANTS p1, p2, p3, d1, d2, g1, g2, r1, w1, w2, t1, t2, lesson, other

\* p1 and p2 come from one lesson: p1, p2 in one place, p3 in another.
FileDestOf == p1 :> d1 @@ p2 :> d1 @@ p3 :> d2
FileLessonOf == p1 :> lesson @@ p2 :> lesson @@ p3 :> lesson
FileResourceOf == d1 :> d1 @@ d2 :> d2

OneFileDestOf == p1 :> d1 @@ p2 :> d1
OneFileLessonOf == p1 :> lesson @@ p2 :> other
OneFileResourceOf == d1 :> d1

GitDestOf == p1 :> g1 @@ p2 :> g2
GitLessonOf == p1 :> lesson @@ p2 :> other
GitResourceOf == g1 :> r1 @@ g2 :> r1

OneGitDestOf == p1 :> g1
OneGitLessonOf == p1 :> lesson
OneGitResourceOf == g1 :> r1

WorkerSymmetry == Permutations(Workers)
=============================================================================
