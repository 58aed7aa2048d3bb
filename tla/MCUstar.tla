------------------------------ MODULE MCUstar -------------------------------
(***************************************************************************)
(* Instances of Ustar: sectors of 4 bytes, a u8 of 4 values and a u32 of   *)
(* 64, so that 3 sectors is the most one call reads and 16 sectors is 4GB. *)
(***************************************************************************)
EXTENDS Ustar

File(name, bytes) ==
    [prefix |-> <<>>, name |-> <<name>>, type |-> "file", size |-> bytes]
\* tar ends the name of a directory in a slash.
Directory(name) == [File(name, 0) EXCEPT !.type = "directory", !.name = <<name, "/">>]
Link(name) == [File(name, 0) EXCEPT !.type = "other"]

ArchivesOf(members) == UNION {[1 .. n -> members] : n \in 0 .. 3}

\* Empty, one sector, a sector and a bit, the most that
\* can be read.
SmallFiles == {File(f, b) : f \in {"a", "b"}, b \in {0, 4, 5, 12}}
\* A file whose path is so long that tar splits it.
LongPath == [File("a", 5) EXCEPT !.prefix = <<"b">>]
SmallArchives ==
    ArchivesOf(SmallFiles \cup {Directory("a"), Directory("b"), LongPath})

\* A link before the file.
LinkArchives == {<<Link("b"), File("a", 5)>>}

MCPaths == {<<"/", "a">>, <<"/", "b">>, <<"/", "a", "/">>}

\* The instances meet the assumptions of the theorems.
ASSUME ArchivesOfTheorems == SizesFit /\ NoneSplit /\ OneCallEach /\ AllRemembered
=============================================================================
