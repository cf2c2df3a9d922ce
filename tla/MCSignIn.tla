------------------------------- MODULE MCSignIn -------------------------------
(* SignIn for TLC: requests and secrets are interchangeable.               *)
EXTENDS SignInProperties, TLC

Symmetric == Permutations(Requests) \cup Permutations(Secrets)
===============================================================================
