----------------------------- MODULE MCLauncher -----------------------------
(***************************************************************************)
(* Two processes and three releases: the third has the version of the      *)
(* second again, with a higher sequence.                                   *)
(***************************************************************************)
EXTENDS Launcher, TLC

CONSTANTS r1, r2, r3, v1, v2

MCSequence == r1 :> 1 @@ r2 :> 2 @@ r3 :> 3
MCVersion == r1 :> v1 @@ r2 :> v2 @@ r3 :> v2

Install(r) == [name |-> "install", rel |-> r]
RunCompiler == [name |-> "run"]
Rollback == [name |-> "rollback"]

MCCommands == {Install(r) : r \in Releases} \union {RunCompiler, Rollback}
MCInstalls == {Install(r1), Install(r2)}
MCInstallAndRun == {Install(r1), RunCompiler}
=============================================================================
