------------------------------- MODULE MCTFS -------------------------------
(* A small volume: five blocks beside the system's, files of up to six     *)
(* bytes in blocks of two.                                                 *)
EXTENDS TfsTool, TLC

MCPayloads == {<<1, 1, 1, 1>>}
MCHostFiles == {<<1, 0>>, <<1, 1, 0, 1, 1, 0>>}
\* A run ends where a call that mixes the blocks of files has returned.
Followed == mixed => call # NoCall

Perms == Permutations(Thread) \cup Permutations(Name)
=============================================================================
