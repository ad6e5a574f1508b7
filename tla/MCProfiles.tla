------------------------------ MODULE MCProfiles ------------------------------
(* An instance of Profiles for TLC: two folders whose names differ in case, and *)
(* one whose header GetSelFolder cuts short.                                   *)
EXTENDS Profiles

MCFolderNames == {"a", "A", "a ] b"}
MCLowerCase == [f \in MCFolderNames |-> IF f = "A" THEN "a" ELSE f]
MCHeaderName == [f \in MCFolderNames |-> IF f = "a ] b" THEN "a" ELSE f]

=============================================================================
