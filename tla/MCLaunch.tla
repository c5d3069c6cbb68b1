------------------------------ MODULE MCLaunch -------------------------------
(***************************************************************************)
(* A small instance of Launch for TLC.                                     *)
(***************************************************************************)
EXTENDS Launch

Keys == {"access_key", "secret_key"}

OnCommandLine == SUBSET {"endpoint", "region", "access_key"}
InEnvironment == {s \cup b : s \in SUBSET {"endpoint", "region"}, b \in {{}, Keys, {"bucket"}, {"empty"}}}
InFile == {{}, Keys, Keys \cup {"zero"}, {"secret_key", "region", "endpoint", "bucket"}}
=============================================================================
