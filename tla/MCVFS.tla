------------------------------- MODULE MCVFS -------------------------------
(* VFS with few threads, filesystems and files: one thread mounts and        *)
(* unmounts, one works with open files, one uses names, and two may halt.    *)
EXTENDS VFS, TLC

CONSTANTS t1, t2, t3

\* Volumes a and b; paths on them, without a volume, and of each wrong form.
MCName == {<<"a">>, <<"b">>}

MCPath == {<<"[", "a", "]", "x">>, <<"[", "b", "]", "x", "x">>, <<"x">>, <<"[", "a", "x">>,
           <<"[", "a", "]">>, <<"[", "a", "a", "]", "x">>, <<"x", "x", "x">>}

MCCalls ==
    (t1 :> {"mount", "unmount", "halt"})
    @@ (t2 :> {"open", "close", "write", "seek"})
    @@ (t3 :> {"file", "remove", "halt"})
=============================================================================
