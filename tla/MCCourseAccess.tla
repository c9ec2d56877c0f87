---------------------------- MODULE MCCourseAccess ----------------------------
(* The instance that TLC checks.                                            *)
EXTENDS CourseAccess

CONSTANTS u1, u2, k1, k2, b1, b2, key1, n1, n2

Users == {u1, u2}
Courses == {k1, k2}
OneCourse == {k1}
Browsers == {b1, b2}
Keys == {key1}
OneName == {n1}
Names == {n1, n2}

(* u1 teaches and has a password, u2 is a student and logs in with Google   *)
(* in the first browser; the second Course is created, and nothing else is done  *)
(* with it.                                                                 *)
Roles ==
    /\ ~oauth[b2] /\ user[u1].login # "GOOGLE" /\ user[u2].login # "PASSWORD"
    /\ \A k \in Course : course[k].owner # u2
    /\ \A b \in Browser : request[b].op \in Operation => request[b].course # k2

MCNext == Next /\ Roles'
MCSpec == Init /\ [][MCNext]_vars
MCFairSpec == MCSpec /\ \A b \in Browser : SF_vars(Serve(b) /\ Roles')
=============================================================================
