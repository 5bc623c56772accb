------------------------------ MODULE MCMigrate ------------------------------
(* Migrations: an old release, its successor, one that inserts a number, one  *)
(* that edits a file, and one that starts elsewhere.                          *)
EXTENDS Migrate, TLC

File(v, c) == [version |-> v, checksum |-> c]

MCVersions == 1..4

MCDirectories ==
  LET Old == {File(1, "a"), File(3, "a")} IN
  {Old, Old \cup {File(4, "a")}, Old \cup {File(2, "a")},
   {File(1, "a"), File(3, "b"), File(4, "a")}, {File(2, "a")}}
=============================================================================
