---------------------------- MODULE MCConnection ----------------------------
(***************************************************************************)
(* Two exchanges on messages of a two-byte header, with bodies that are    *)
(* empty, as long as the limit, too long, or of a negative length.         *)
(***************************************************************************)
EXTENDS Connection

MCLengths == {-1, 0, 2, 3}

=============================================================================
