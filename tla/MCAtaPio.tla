------------------------------ MODULE MCAtaPio ------------------------------
(***************************************************************************)
(* Instances of AtaPio: sectors of four words, a disk of four sectors.     *)
(* 28 bits of address and 8 of count become 8 addresses and 4 counts.      *)
(***************************************************************************)
EXTENDS AtaPio

\* One sector, several, the first and the last, the most that can be counted,
\* and sectors that the disk does not have.
MCReads == {<<0, 1>>, <<0, 2>>, <<3, 1>>, <<1, 3>>, <<2, 3>>}

\* Writes of a sector, good and bad.
MCWrites == {<<0, 1>>, <<1, 1>>, <<2, 1>>}
=============================================================================
