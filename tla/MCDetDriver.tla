---------------------------- MODULE MCDetDriver ----------------------------
(* Users and working conditions for model checking DetDriver.              *)
EXTENDS DetDriver

CONSTANT alice

OneUser == {alice}

\* Two runs in a row when nothing fails; one run when files cannot be created,
\* users cannot be switched to, and answers to create requests are late.
CalmOrRough ==
  {[failures |-> {}, slow |-> {}, runs |-> 2],
   [failures |-> {"create", "user"}, slow |-> {"create"}, runs |-> 1]}

\* Two runs, and files that cannot be created.
CreateFails == {[failures |-> {"create"}, slow |-> {}, runs |-> 2]}
=============================================================================
