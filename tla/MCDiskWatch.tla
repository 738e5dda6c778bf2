---------------------------- MODULE MCDiskWatch ----------------------------
(***************************************************************************)
(* Two mounts and a usage on each side of the levels.                      *)
(***************************************************************************)
EXTENDS DiskWatch

MCUsages == {Virtual, 899, 900, 950, 999}

=============================================================================
