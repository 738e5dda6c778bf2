----------------------------- MODULE MCPackages -----------------------------
(***************************************************************************)
(* Packages in conflict with each other, both optional or one of them      *)
(* required, unwanted or invalid, and one in conflict with two others.     *)
(***************************************************************************)
EXTENDS Packages

MCNames == 1..3

Define(name, conflicts, misspelled, installation, priority) ==
    [name |-> name, conflicts |-> conflicts, misspelled |-> misspelled,
     installation |-> installation, priority |-> priority]

MCConfigurations == {
    <<Define(1, {2}, FALSE, "required", 15), Define(2, {1}, TRUE, "optional", 50)>>,
    <<Define(1, {2}, TRUE, "required", 15), Define(2, {}, TRUE, "unwanted", 0)>>,
    <<Define(2, {1}, FALSE, "", 101)>>,
    <<Define(1, {2}, FALSE, "wanted", 15), Define(1, {1}, TRUE, "", 15)>>,
    <<Define(3, {1, 2}, FALSE, "", 50), Define(1, {3}, FALSE, "", 50),
      Define(3, {1}, FALSE, "", 15)>>,
    <<>> }

=============================================================================
