-------------------------------- MODULE VFS --------------------------------
(***************************************************************************)
(* The virtual filesystem layer, fs/vfs.c: the mount table, the table of   *)
(* open files, and the count of operations that lets halt_kernel unmount   *)
(* everything once no operation is under way.                              *)
(*                                                                         *)
(* The semaphores vfs_table.sem, openfile_table.sem and vfs_op_sem guard   *)
(* as Semaphore shows.  A part of a call that keeps such a semaphore       *)
(* without waiting for anything inside is one step; a semaphore is a       *)
(* variable where it is held across steps.  A call into a filesystem       *)
(* driver takes time, and returns any result.                              *)
(***************************************************************************)
EXTENDS Integers, FiniteSets, Sequences

CONSTANTS
    Thread,     \* threads that use files
    FS,         \* filesystems found on the disks
    Name,       \* volume names, sequences of characters
    Path,       \* path names that callers pass
    NameLength, \* VFS_NAME_LENGTH
    MaxFS,      \* CONFIG_MAX_FILESYSTEMS
    MaxFiles,   \* CONFIG_MAX_OPEN_FILES
    MaxSeek,    \* bound: seek positions
    Calls       \* the calls each thread makes

None == -1
NULL == <<"NULL">>   \* the pointer, where a name is expected
Row  == 0 .. (MaxFS - 1)
File == 0 .. (MaxFiles - 1)

\* The functions of fs/vfs.c, and halt_kernel, that threads call.
CallName == {"mount", "unmount", "open", "close", "seek", "read", "write", "create",
             "remove", "getfree", "filecount", "file", "halt"}

ASSUME VFSAssumption ==
    /\ MaxFS \in Nat \ {0} /\ MaxFiles \in Nat \ {0} /\ MaxSeek \in Nat
    /\ NameLength \in Nat \ {0}
    /\ None \notin FS \cup Thread
    /\ {<<>>, NULL} \cap Name = {}
    /\ Calls \in [Thread -> SUBSET CallName]

VARIABLES
    filesystem,   \* the filesystem mounted in each row of vfs_table
    mountpoint,   \* the name in each row
    file_fs,      \* filesystem field of each open file
    seek,         \* its seek_position
    ops,          \* vfs_ops
    usable,       \* vfs_usable
    unmount_sem,  \* value of vfs_unmount_sem
    op_sem,       \* thread that keeps vfs_op_sem across steps
    table_sem,    \* thread that keeps vfs_table.sem across steps
    live,         \* filesystems whose driver structure exists
    pc, call,     \* where each thread is, and in which call
    fs, file, name,  \* its local variables
    opener        \* history: the thread an open file was returned to

tables == <<filesystem, mountpoint, file_fs, seek>>
opvars == <<ops, usable, unmount_sem, op_sem>>
locals == <<call, fs, file, name>>
vars == <<tables, opvars, table_sem, live, pc, locals, opener>>

Init ==
    /\ filesystem = [r \in Row |-> None]
    /\ mountpoint = [r \in Row |-> <<>>]
    /\ file_fs = [h \in File |-> None]
    /\ seek = [h \in File |-> 0]
    /\ ops = 0 /\ usable = TRUE /\ unmount_sem = 0
    /\ op_sem = None /\ table_sem = None
    /\ live = {}
    /\ pc = [t \in Thread |-> "idle"]
    /\ call = [t \in Thread |-> "none"]
    /\ fs = [t \in Thread |-> None]
    /\ file = [t \in Thread |-> None]
    /\ name = [t \in Thread |-> <<>>]
    /\ opener = [h \in File |-> None]

Goto(t, label) == pc' = [pc EXCEPT ![t] = label]

\* The name has been looked up and is not used again.
NameUsed(t) == name' = [name EXCEPT ![t] = <<>>]

\* The call is over, and with it its local variables.
Leave(t) ==
    /\ Goto(t, "idle")
    /\ call' = [call EXCEPT ![t] = "none"]
    /\ fs' = [fs EXCEPT ![t] = None]
    /\ file' = [file EXCEPT ![t] = None]
    /\ NameUsed(t)

-----------------------------------------------------------------------------
(* vfs_start_op and vfs_end_op *)

MayStart == usable

\* vfs_start_op, in the critical section of vfs_op_sem.  An operation that
\* may not start returns VFS_UNUSABLE.
StartOp ==
    /\ op_sem = None /\ MayStart
    /\ ops' = ops + 1
    /\ UNCHANGED <<usable, unmount_sem, op_sem>>

\* Fault: the count is compared as it was before it was lowered.
LastOp_Early(n) == n = 1

LastOp(n) == n = 0

EndOp(t) ==
    /\ pc[t] \in {"end", "refused"} /\ op_sem = None
    /\ ops' = ops - 1
    /\ unmount_sem' = IF ~ usable /\ LastOp(ops - 1) THEN unmount_sem + 1 ELSE unmount_sem
    /\ IF pc[t] = "refused" THEN Goto(t, "discard") /\ UNCHANGED locals ELSE Leave(t)
    /\ UNCHANGED <<tables, usable, op_sem, table_sem, live, opener>>

-----------------------------------------------------------------------------
(* vfs_mount_fs and vfs_mount *)

\* filesystems_try_all finds filesystem f, to be mounted as n; one without a
\* name is given up.
MountFs(t, f, n) ==
    /\ pc[t] = "idle" /\ "mount" \in Calls[t]
    /\ f \notin live
    /\ live' = live \cup {f}
    /\ call' = [call EXCEPT ![t] = "mount"]
    /\ fs' = [fs EXCEPT ![t] = f]
    /\ name' = [name EXCEPT ![t] = n]
    /\ Goto(t, IF n = <<>> THEN "discard" ELSE "mount")
    /\ UNCHANGED <<tables, opvars, table_sem, file, opener>>

\* Fault: an operation that did not start is ended.
GiveUp_Ends(t) == Goto(t, "refused")

GiveUp(t) == Goto(t, "discard")

MountStart(t) ==
    /\ pc[t] = "mount"
    /\ \/ StartOp /\ Goto(t, "body")
       \/ op_sem = None /\ ~ MayStart /\ GiveUp(t) /\ UNCHANGED opvars
    /\ UNCHANGED <<tables, table_sem, live, locals, opener>>

FirstFreeRow(r) ==
    /\ filesystem[r] = None
    /\ \A q \in Row : q < r => filesystem[q] # None

\* A row has that name, whether or not anything is mounted in it.
NameTaken(n) == \E r \in Row : mountpoint[r] = n

\* Without a free row the mount fails with VFS_LIMIT, with the name taken it
\* fails with VFS_ERROR.
Mount(t) ==
    /\ pc[t] = "body" /\ call[t] = "mount" /\ table_sem = None
    /\ \/ /\ \E r \in Row :
                /\ FirstFreeRow(r) /\ ~ NameTaken(name[t])
                /\ mountpoint' = [mountpoint EXCEPT ![r] = name[t]]
                /\ filesystem' = [filesystem EXCEPT ![r] = fs[t]]
          /\ Goto(t, "end")
       \/ /\ (\A r \in Row : filesystem[r] # None) \/ NameTaken(name[t])
          /\ Goto(t, "refused")
          /\ UNCHANGED <<filesystem, mountpoint>>
    /\ NameUsed(t)
    /\ UNCHANGED <<file_fs, seek, opvars, table_sem, live, call, fs, file, opener>>

\* vfs_mount_fs unmounts what could not be mounted.
Discard(t) ==
    /\ pc[t] = "discard"
    /\ live' = live \ {fs[t]}
    /\ Leave(t)
    /\ UNCHANGED <<tables, opvars, table_sem, opener>>

-----------------------------------------------------------------------------
(* The beginning of the other calls *)

\* vfs_parse_pathname: "[volume]file", or a file name alone with the empty
\* volume name.  Both parts and their terminators fit into NameLength.
Closing(p) == {k \in 2 .. Len(p) : p[k] = "]" /\ \A j \in 2 .. (k - 1) : p[j] # "]"}

HasVolume(p) == p # <<>> /\ p[1] = "["

ParsePathname(p) ==
    LET end   == IF HasVolume(p) THEN Closing(p) ELSE {0}
        first == CHOOSE k \in end : TRUE
        named == Len(p) - first
    IN  IF end # {} /\ first - 2 <= NameLength - 2 /\ named \in 1 .. (NameLength - 1)
        THEN [ok |-> TRUE, volume |-> IF first = 0 THEN <<>> ELSE SubSeq(p, 2, first - 1)]
        ELSE [ok |-> FALSE, volume |-> <<>>]

\* The name a call looks for: part of a path name, or given.
Looked(c) ==
    IF c \in {"open", "create", "remove"} THEN {ParsePathname(p) : p \in Path}
    ELSE {[ok |-> TRUE, volume |-> n] :
             n \in IF c \in {"filecount", "file"} THEN Name \cup {NULL} ELSE Name}

\* What syscall_open returns for an open file, clear of the three handles of
\* the terminal, and what the other calls make of it.
Filehandle(h) == h + 3
FileOf(fd) == fd - 3

\* A call with a volume name, or one with an open file of the thread's own.
\* A path name that cannot be parsed ends the operation.
Begin(t, c) ==
    /\ pc[t] = "idle" /\ c \in Calls[t] \ {"mount", "halt"}
    /\ StartOp
    /\ call' = [call EXCEPT ![t] = c]
    /\ \/ /\ c \in {"close", "seek", "read", "write"}
          /\ \E fd \in {Filehandle(h) : h \in {g \in File : opener[g] = t}} :
                file' = [file EXCEPT ![t] = FileOf(fd)]
          /\ Goto(t, "body")
          /\ UNCHANGED name
       \/ /\ c \notin {"close", "seek", "read", "write"}
          /\ \E l \in Looked(c) :
                /\ name' = [name EXCEPT ![t] = l.volume]
                /\ Goto(t, IF l.ok THEN "body" ELSE "end")
          /\ UNCHANGED file
    /\ UNCHANGED <<tables, table_sem, live, fs, opener>>

\* vfs_get_filesystem: the first row of that name decides.
GetFilesystem(n) ==
    LET rows == {r \in Row : mountpoint[r] = n}
    IN  IF rows = {} THEN None
        ELSE filesystem[CHOOSE r \in rows : \A q \in rows : r <= q]

\* semaphore_P(vfs_table.sem) by the calls that wait for more inside.
LockTable(t) ==
    /\ pc[t] = "body" /\ call[t] \in {"unmount", "open", "create", "remove", "getfree"}
    /\ table_sem = None
    /\ table_sem' = t
    /\ Goto(t, "locked")
    /\ UNCHANGED <<tables, opvars, live, locals, opener>>

-----------------------------------------------------------------------------
(* vfs_unmount *)

\* Fault: open files are not looked for.
InUse_Never(f) == FALSE

InUse(f) == \E h \in File : file_fs[h] = f

\* VFS_NOT_FOUND and VFS_IN_USE change nothing.
Unmount(t) ==
    /\ pc[t] = "locked" /\ call[t] = "unmount"
    /\ LET f == GetFilesystem(name[t])
       IN  IF f # None /\ ~ InUse(f)
           THEN /\ filesystem' = [r \in Row |-> IF filesystem[r] = f THEN None
                                                ELSE filesystem[r]]
                /\ live' = live \ {f}
           ELSE UNCHANGED <<filesystem, live>>
    /\ table_sem' = None
    /\ NameUsed(t)
    /\ Goto(t, "end")
    /\ UNCHANGED <<mountpoint, file_fs, seek, opvars, call, fs, file, opener>>

-----------------------------------------------------------------------------
(* vfs_open, vfs_close, vfs_seek *)

FirstFreeFile(h) ==
    /\ file_fs[h] = None
    /\ \A g \in File : g < h => file_fs[g] # None

\* Fault: the row is taken only when the driver has opened the file.
Claim_Late(h, f) == UNCHANGED file_fs

Claim(h, f) == file_fs' = [file_fs EXCEPT ![h] = f]

\* A row of the table is claimed, then the driver is called without locks.
\* VFS_LIMIT and VFS_NO_SUCH_FS change nothing.
Open(t) ==
    /\ pc[t] = "locked" /\ call[t] = "open"
    /\ LET f == GetFilesystem(name[t])
       IN  \/ /\ f # None
              /\ \E h \in File : FirstFreeFile(h) /\ Claim(h, f)
                                 /\ file' = [file EXCEPT ![t] = h]
              /\ fs' = [fs EXCEPT ![t] = f]
              /\ Goto(t, "call")
           \/ /\ f = None \/ (\A h \in File : file_fs[h] # None)
              /\ Goto(t, "end")
              /\ UNCHANGED <<file_fs, file, fs>>
    /\ table_sem' = None
    /\ NameUsed(t)
    /\ UNCHANGED <<filesystem, mountpoint, seek, opvars, live, call, opener>>

\* The driver's open returned: with an error the row is given back.
OpenReturn(t) ==
    /\ pc[t] = "call" /\ call[t] = "open"
    /\ \/ /\ seek' = [seek EXCEPT ![file[t]] = 0]
          /\ opener' = [opener EXCEPT ![file[t]] = t]
          /\ UNCHANGED file_fs
       \/ /\ file_fs' = [file_fs EXCEPT ![file[t]] = None]
          /\ UNCHANGED <<seek, opener>>
    /\ Goto(t, "end")
    /\ UNCHANGED <<filesystem, mountpoint, opvars, table_sem, live, locals>>

\* vfs_verify_open asserts that the file is open: where it is not, the kernel
\* panics and the call does not go on.
VerifyOpen(h) == file_fs[h] # None

Close(t) ==
    /\ pc[t] = "body" /\ call[t] = "close" /\ VerifyOpen(file[t])
    /\ file_fs' = [file_fs EXCEPT ![file[t]] = None]
    /\ opener' = [opener EXCEPT ![file[t]] = None]
    /\ Goto(t, "end")
    /\ UNCHANGED <<filesystem, mountpoint, seek, opvars, table_sem, live, locals>>

Seek(t) ==
    /\ pc[t] = "body" /\ call[t] = "seek" /\ VerifyOpen(file[t])
    /\ \E p \in 0 .. MaxSeek : seek' = [seek EXCEPT ![file[t]] = p]
    /\ Goto(t, "end")
    /\ UNCHANGED <<filesystem, mountpoint, file_fs, opvars, table_sem, live, locals, opener>>

-----------------------------------------------------------------------------
(* vfs_read, vfs_write *)

\* The row is read without the semaphore.
Transfer(t) ==
    /\ pc[t] = "body" /\ call[t] \in {"read", "write"} /\ VerifyOpen(file[t])
    /\ fs' = [fs EXCEPT ![t] = file_fs[file[t]]]
    /\ Goto(t, "call")
    /\ UNCHANGED <<tables, opvars, table_sem, live, call, file, name, opener>>

TransferReturn(t) ==
    /\ pc[t] = "call" /\ call[t] \in {"read", "write"}
    /\ \E ret \in -1 .. MaxSeek :
          /\ seek[file[t]] + ret <= MaxSeek
          /\ seek' = IF ret > 0 THEN [seek EXCEPT ![file[t]] = @ + ret] ELSE seek
    /\ Goto(t, "end")
    /\ UNCHANGED <<filesystem, mountpoint, file_fs, opvars, table_sem, live, locals, opener>>

-----------------------------------------------------------------------------
(* vfs_create, vfs_remove, vfs_getfree: the driver is called with the table *)
(* locked.  vfs_filecount, vfs_file: it is called after the table is         *)
(* unlocked.                                                                 *)

\* Fault: a path out of the call forgets semaphore_V.
UnlockTable_Forgotten(t) == UNCHANGED table_sem

UnlockTable(t) == table_sem' = IF table_sem = t THEN None ELSE table_sem

\* Without a filesystem of that name, or without a name, no driver is called.
Lookup(t) ==
    /\ \/ pc[t] = "locked" /\ call[t] \in {"create", "remove", "getfree"}
       \/ pc[t] = "body" /\ call[t] \in {"filecount", "file"} /\ table_sem = None
    /\ LET f == GetFilesystem(name[t])
       IN  /\ fs' = [fs EXCEPT ![t] = f]
           /\ Goto(t, IF f = None THEN "end" ELSE "call")
           /\ IF f = None THEN UnlockTable(t) ELSE UNCHANGED table_sem
    /\ NameUsed(t)
    /\ UNCHANGED <<tables, opvars, live, call, file, opener>>

LookupReturn(t) ==
    /\ pc[t] = "call" /\ call[t] \in {"create", "remove", "getfree", "filecount", "file"}
    /\ UnlockTable(t)
    /\ Goto(t, "end")
    /\ UNCHANGED <<tables, opvars, live, locals, opener>>

-----------------------------------------------------------------------------
(* halt_kernel and vfs_deinit *)

OpsPending == ops > 0

\* The VFS becomes unusable; with operations under way the thread waits for
\* vfs_unmount_sem without vfs_op_sem.
Halt(t) ==
    /\ pc[t] = "idle" /\ "halt" \in Calls[t]
    /\ op_sem = None
    /\ usable' = FALSE
    /\ op_sem' = IF OpsPending THEN None ELSE t
    /\ Goto(t, IF OpsPending THEN "halt_wait" ELSE "halt_lock")
    /\ UNCHANGED <<tables, ops, unmount_sem, table_sem, live, locals, opener>>

HaltWake(t) ==
    /\ pc[t] = "halt_wait" /\ unmount_sem > 0
    /\ unmount_sem' = unmount_sem - 1
    /\ Goto(t, "halt_again")
    /\ UNCHANGED <<tables, ops, usable, op_sem, table_sem, live, locals, opener>>

HaltAgain(t) ==
    /\ pc[t] = "halt_again" /\ op_sem = None
    /\ op_sem' = t
    /\ Goto(t, "halt_lock")
    /\ UNCHANGED <<tables, ops, usable, unmount_sem, table_sem, live, locals, opener>>

HaltLock(t) ==
    /\ pc[t] = "halt_lock" /\ table_sem = None
    /\ table_sem' = t
    /\ Goto(t, "halt_unmount")
    /\ UNCHANGED <<tables, opvars, live, locals, opener>>

\* All filesystems are unmounted, the semaphores released, and shutdown called.
HaltUnmount(t) ==
    /\ pc[t] = "halt_unmount"
    /\ live' = live \ {filesystem[r] : r \in Row}
    /\ filesystem' = [r \in Row |-> None]
    /\ table_sem' = None /\ op_sem' = None
    /\ Goto(t, "shutdown")
    /\ UNCHANGED <<mountpoint, file_fs, seek, ops, usable, unmount_sem, locals, opener>>

-----------------------------------------------------------------------------
Off == \E t \in Thread : pc[t] = "shutdown"

\* syscall_handle and the calls of the startup code.
Step(t) ==
    \/ \E f \in FS, n \in Name \cup {<<>>} : MountFs(t, f, n)
    \/ MountStart(t) \/ Mount(t) \/ Discard(t)
    \/ \E c \in Calls[t] : Begin(t, c)
    \/ LockTable(t) \/ Unmount(t) \/ Open(t) \/ OpenReturn(t) \/ Close(t) \/ Seek(t)
    \/ Transfer(t) \/ TransferReturn(t) \/ Lookup(t) \/ LookupReturn(t)
    \/ Halt(t) \/ HaltWake(t) \/ HaltAgain(t) \/ HaltLock(t) \/ HaltUnmount(t)
    \/ EndOp(t)

\* The machine is switched off some time after a thread calls shutdown.
PowerOff == Off /\ UNCHANGED vars

Next == PowerOff \/ \E t \in Thread : Step(t)

Spec == Init /\ [][Next]_vars

\* Until then threads go on inside the VFS, drivers return, and the
\* semaphores, which serve first come first served (GuardIsReached), let everyone in.
Fairness ==
    \A t \in Thread :
        /\ WF_vars(\/ Discard(t) \/ Unmount(t) \/ Open(t) \/ OpenReturn(t) \/ Close(t)
                   \/ Seek(t) \/ Transfer(t) \/ TransferReturn(t) \/ LookupReturn(t)
                   \/ HaltWake(t) \/ HaltUnmount(t))
        /\ SF_vars(\/ MountStart(t) \/ EndOp(t) \/ Mount(t) \/ LockTable(t)
                   \/ Lookup(t) \/ HaltAgain(t) \/ HaltLock(t))

FairSpec == Spec /\ Fairness

-----------------------------------------------------------------------------
(* What is checked *)

\* Names that calls look for; a path name may hold one that no volume has.
VolumeName == Name \cup {<<>>, NULL} \cup {ParsePathname(p).volume : p \in Path}

\* Every variable has its type.
TypeOK ==
    /\ filesystem \in [Row -> FS \cup {None}] /\ mountpoint \in [Row -> Name \cup {<<>>}]
    /\ file_fs \in [File -> FS \cup {None}] /\ seek \in [File -> 0 .. MaxSeek]
    /\ ops \in Nat /\ unmount_sem \in Nat /\ usable \in BOOLEAN
    /\ op_sem \in Thread \cup {None} /\ table_sem \in Thread \cup {None}
    /\ live \subseteq FS
    /\ pc \in [Thread -> {"idle", "mount", "body", "locked", "call", "end", "refused",
                          "discard", "halt_wait", "halt_again", "halt_lock",
                          "halt_unmount", "shutdown"}]
    /\ call \in [Thread -> CallName \cup {"none"}]
    /\ fs \in [Thread -> FS \cup {None}] /\ file \in [Thread -> File \cup {None}]
    /\ name \in [Thread -> VolumeName] /\ opener \in [File -> Thread \cup {None}]

\* The threads between vfs_start_op and vfs_end_op.
InOp == {t \in Thread : pc[t] \in {"body", "locked", "call", "end", "refused"}}

\* vfs_deinit "waits for all VFS operations to complete": while filesystems
\* are unmounted for the shutdown no operation is under way, and the assertion
\* after the wait for vfs_unmount_sem holds.
UnmountWaitsForOps ==
    \A t \in Thread : pc[t] \in {"halt_lock", "halt_unmount", "shutdown"} =>
        ops = 0 /\ InOp = {}

\* A driver is called on a filesystem that has not been unmounted under the
\* call: its structure still exists.  vfs_filecount and vfs_file, which call it
\* after they have unlocked the mount table, are left out.
CallsOnLiveFS ==
    \A t \in Thread : pc[t] = "call" /\ call[t] \notin {"filecount", "file"} => fs[t] \in live

\* An open file belongs to a mounted filesystem, and rows of the mount table to
\* filesystems that exist, each mounted once and under its own name.
FilesOnMountedFS ==
    /\ ~ Off => \A h \in File : file_fs[h] # None => \E r \in Row : filesystem[r] = file_fs[h]
    /\ \A r, q \in Row : filesystem[r] # None =>
          /\ filesystem[r] \in live
          /\ filesystem[q] # None /\ r # q =>
                filesystem[r] # filesystem[q] /\ mountpoint[r] # mountpoint[q]

\* The shutdown unmounts when no operation is under way, and unmounting, by a
\* call or for the shutdown, never takes a filesystem from under an open file or
\* a driver, except the driver that vfs_filecount or vfs_file calls.
Safety == UnmountWaitsForOps /\ CallsOnLiveFS /\ FilesOnMountedFS

\* The file a thread was given by vfs_open stays open, on the filesystem it
\* was opened on, until that thread closes it: vfs_verify_open never fails
\* for it.
OpenFileIsKept ==
    [][\A h \in File : opener[h] # None /\ opener'[h] = opener[h] =>
          file_fs[h] # None /\ file_fs'[h] = file_fs[h]]_vars

\* Once a thread calls halt_kernel the machine is switched off, whatever calls
\* are under way and however many threads call it.
HaltEnds == \A t \in Thread : pc[t] \in {"halt_wait", "halt_again", "halt_lock"} ~> Off

\* Every call returns, or the machine is switched off: no thread is kept
\* waiting for ever by the order in which calls take the three semaphores.
CallsReturn == \A t \in Thread : t \in InOp ~> (t \notin InOp \/ Off)
=============================================================================
