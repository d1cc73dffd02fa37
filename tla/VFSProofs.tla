----------------------------- MODULE VFSProofs -----------------------------
(***************************************************************************)
(* VFS satisfies its type invariant, its safety invariant and the promise  *)
(* about open files for any number of threads, filesystems, rows of the    *)
(* mount table, open files, volume names and path names.                   *)
(***************************************************************************)
EXTENDS VFS, TLAPS, FiniteSetTheorems, WellFoundedInduction

USE VFSAssumption

-----------------------------------------------------------------------------
(* The inductive invariant *)

\* vfs_ops counts the operations under way.
OpsCounted == IsFiniteSet(InOp) /\ ops = Cardinality(InOp)

TableCall == {"create", "remove", "getfree"}
FileCall  == {"close", "seek", "read", "write"}

\* The thread that keeps vfs_table.sem: in the middle of a call that waits
\* inside, in a driver called with the table locked, or unmounting for the
\* shutdown.
HoldsTable(t) ==
    \/ pc[t] \in {"locked", "halt_unmount"}
    \/ pc[t] = "call" /\ call[t] \in TableCall

TableGuarded == \A t \in Thread : HoldsTable(t) <=> table_sem = t

\* vfs_unmount_sem is raised, and a halting thread goes on, only once no
\* operation is under way and none can start any more.
HaltWaits ==
    /\ unmount_sem > 0 => ~ usable /\ ops = 0
    /\ \A t \in Thread :
          /\ pc[t] = "halt_wait" => ~ usable
          /\ pc[t] \in {"halt_again", "halt_lock", "halt_unmount", "shutdown"} =>
                ~ usable /\ ops = 0

\* The thread has a filesystem of its own, which it has yet to mount or to
\* give up.
Mounting(t) ==
    \/ pc[t] \in {"mount", "refused", "discard"}
    \/ pc[t] = "body" /\ call[t] = "mount"

MountsOwn ==
    \A t \in Thread : Mounting(t) =>
        /\ call[t] = "mount"
        /\ pc[t] \in {"mount", "body"} => name[t] \in Name
        /\ fs[t] \in live
        /\ \A r \in Row : filesystem[r] # fs[t]
        /\ \A u \in Thread : Mounting(u) /\ u # t => fs[u] # fs[t]

Opening(t) == pc[t] = "call" /\ call[t] = "open"

\* A row of the open file table is the opener's, or claimed by the one call
\* that is opening it.
RowsOwned ==
    /\ \A h \in File : opener[h] # None => file_fs[h] # None
    /\ \A t \in Thread : pc[t] \in {"body", "call"} /\ call[t] \in FileCall =>
          file[t] \in File /\ opener[file[t]] = t
    /\ \A t \in Thread : pc[t] = "call" /\ call[t] \in {"read", "write"} =>
          fs[t] = file_fs[file[t]]
    /\ \A t \in Thread : Opening(t) =>
          /\ file[t] \in File /\ opener[file[t]] = None
          /\ fs[t] # None /\ file_fs[file[t]] = fs[t]
          /\ \A u \in Thread : Opening(u) /\ u # t => file[u] # file[t]

\* Eight calls go into a driver, and one called with the table locked belongs
\* to a mounted filesystem.
TableCallsMounted ==
    \A t \in Thread : pc[t] = "call" =>
        /\ call[t] \in TableCall \cup {"open", "read", "write", "filecount", "file"}
        /\ call[t] \in TableCall =>
              fs[t] # None /\ \E r \in Row : filesystem[r] = fs[t]

IInv ==
    /\ TypeOK /\ OpsCounted /\ TableGuarded /\ HaltWaits
    /\ MountsOwn /\ RowsOwned /\ TableCallsMounted /\ FilesOnMountedFS

-----------------------------------------------------------------------------
(* Lookups *)

\* A set of row numbers has a least one.
LEMMA LeastExists ==
    ASSUME NEW S \in SUBSET Nat, S # {}
    PROVE  \E k \in S : \A j \in S : k <= j
<1>1. PICK k \in S : \A j \in S : ~ (<<j, k>> \in OpToRel(<, Nat))
  BY NatLessThanWellFounded, WFMin, Zenon
<1>2. \A j \in S : ~ (j < k)
  BY <1>1 DEF OpToRel
<1> QED BY <1>2

\* vfs_get_filesystem returns a filesystem of the mount table, or NULL.
LEMMA GetFilesystemFacts ==
    ASSUME TypeOK, NEW n
    PROVE  /\ GetFilesystem(n) \in FS \cup {None}
           /\ GetFilesystem(n) # None => \E r \in Row : filesystem[r] = GetFilesystem(n)
<1> DEFINE rows == {r \in Row : mountpoint[r] = n}
<1>1. CASE rows = {}
  BY <1>1 DEF GetFilesystem
<1>2. CASE rows # {}
  <2>1. rows \in SUBSET Nat
    BY DEF Row
  <2>2. \E k \in rows : \A q \in rows : k <= q
    BY <1>2, <2>1, LeastExists
  <2> DEFINE first == CHOOSE k \in rows : \A q \in rows : k <= q
  <2>3. first \in rows
    BY <2>2
  <2>4. GetFilesystem(n) = filesystem[first]
    BY <1>2 DEF GetFilesystem
  <2> QED BY <2>3, <2>4 DEF TypeOK
<1> QED BY <1>1, <1>2

-----------------------------------------------------------------------------
(* Types *)

\* The names a call looks for are volume names, part of a path name or given.
LEMMA NameFacts ==
    /\ Name \subseteq VolumeName /\ <<>> \in VolumeName
    /\ \A c : \A l \in Looked(c) : l.volume \in VolumeName
BY DEF VolumeName, Looked

\* No operation is under way where vfs_ops is 0, and one that ends lowers a
\* positive count.
LEMMA OpsFacts ==
    ASSUME TypeOK, OpsCounted
    PROVE  /\ ops = 0 <=> InOp = {}
           /\ \A t \in InOp : ops - 1 \in Nat
BY FS_EmptySet, FS_CardinalityType DEF OpsCounted

\* Every action keeps the types of the tables, counts and local variables.
LEMMA TypeStep == IInv /\ [Next]_vars => TypeOK'
<1> SUFFICES ASSUME IInv, [Next]_vars PROVE TypeOK'
  OBVIOUS
<1> USE DEF IInv, TypeOK, CallName, opvars, tables, locals
<1>1. CASE UNCHANGED vars
  BY <1>1 DEF vars
<1>2. ASSUME NEW t \in Thread, NEW f \in FS, NEW n \in Name \cup {<<>>}, MountFs(t, f, n)
      PROVE TypeOK'
  BY <1>2, NameFacts DEF MountFs, Goto
<1>3. ASSUME NEW t \in Thread, MountStart(t) PROVE TypeOK'
  <2>1. CASE StartOp
    <3>1. ops' \in Nat
      BY <2>1 DEF StartOp
    <3> QED BY <1>3, <2>1, <3>1 DEF MountStart, StartOp, GiveUp, Goto
  <2>2. CASE ~ StartOp
    BY <1>3, <2>2 DEF MountStart, GiveUp, Goto
  <2> QED BY <2>1, <2>2
<1>4. ASSUME NEW t \in Thread, Mount(t) PROVE TypeOK'
  <2>1. name[t] \in Name
    BY <1>4 DEF Mount, MountsOwn, Mounting
  <2> QED BY <1>4, <2>1, NameFacts DEF Mount, FirstFreeRow, NameUsed, Goto
<1>5. ASSUME NEW t \in Thread, Discard(t) PROVE TypeOK'
  BY <1>5, NameFacts DEF Discard, Leave, NameUsed, Goto
<1>6. ASSUME NEW t \in Thread, NEW c \in Calls[t], Begin(t, c) PROVE TypeOK'
  <2>1. call' \in [Thread -> CallName \cup {"none"}]
    BY <1>6 DEF Begin
  <2>2. name' \in [Thread -> VolumeName]
    <3>1. CASE \E l \in Looked(c) : name' = [name EXCEPT ![t] = l.volume]
      BY <3>1, NameFacts
    <3> QED BY <1>6, <3>1 DEF Begin
  <2>3. file' \in [Thread -> File \cup {None}]
    BY <1>6, SMTT(30) DEF Begin, FileOf, Filehandle, File
  <2> QED BY <1>6, <2>1, <2>2, <2>3, SMTT(30) DEF Begin, StartOp, Goto
<1>7. ASSUME NEW t \in Thread, LockTable(t) PROVE TypeOK'
  BY <1>7 DEF LockTable, Goto
<1>8. ASSUME NEW t \in Thread, Unmount(t) PROVE TypeOK'
  BY <1>8, NameFacts DEF Unmount, NameUsed, Goto
<1>9. ASSUME NEW t \in Thread, Open(t) PROVE TypeOK'
  <2>1. GetFilesystem(name[t]) \in FS \cup {None}
    BY GetFilesystemFacts
  <2>2. /\ file_fs' \in [File -> FS \cup {None}]
        /\ file' \in [Thread -> File \cup {None}]
        /\ fs' \in [Thread -> FS \cup {None}]
    <3>1. CASE UNCHANGED <<file_fs, file, fs>>
      BY <3>1
    <3>2. CASE \E h \in File : /\ file_fs' = [file_fs EXCEPT ![h] = GetFilesystem(name[t])]
                              /\ file' = [file EXCEPT ![t] = h]
                              /\ fs' = [fs EXCEPT ![t] = GetFilesystem(name[t])]
      BY <3>2, <2>1
    <3> QED BY <1>9, <3>1, <3>2 DEF Open, Claim
  <2>3. pc' \in [Thread -> {"idle", "mount", "body", "locked", "call", "end", "refused",
                          "discard", "halt_wait", "halt_again", "halt_lock",
                          "halt_unmount", "shutdown"}]
    BY <1>9 DEF Open, Goto
  <2> QED BY <1>9, <2>2, <2>3, NameFacts DEF Open, NameUsed
<1>10. ASSUME NEW t \in Thread, OpenReturn(t) PROVE TypeOK'
  <2>1. /\ file_fs' \in [File -> FS \cup {None}] /\ seek' \in [File -> 0 .. MaxSeek]
        /\ opener' \in [File -> Thread \cup {None}]
    <3>1. CASE /\ seek' = [seek EXCEPT ![file[t]] = 0]
               /\ opener' = [opener EXCEPT ![file[t]] = t]
               /\ UNCHANGED file_fs
      <4>1. 0 \in 0 .. MaxSeek
        OBVIOUS
      <4>2. seek' \in [File -> 0 .. MaxSeek]
        BY <3>1, <4>1
      <4> QED BY <3>1, <4>2
    <3>2. CASE UNCHANGED <<seek, opener>>
      BY <1>10, <3>2 DEF OpenReturn
    <3> QED BY <1>10, <3>1, <3>2 DEF OpenReturn
  <2> QED BY <1>10, <2>1 DEF OpenReturn, Goto
<1>11. ASSUME NEW t \in Thread, Close(t) PROVE TypeOK'
  BY <1>11 DEF Close, VerifyOpen, Goto
<1>12. ASSUME NEW t \in Thread, Seek(t) PROVE TypeOK'
  <2>1. seek' \in [File -> 0 .. MaxSeek]
    BY <1>12 DEF Seek
  <2> QED BY <1>12, <2>1 DEF Seek, Goto
<1>13. ASSUME NEW t \in Thread, Transfer(t) PROVE TypeOK'
  <2>1. file[t] \in File
    BY <1>13 DEF Transfer, RowsOwned, FileCall
  <2> QED BY <1>13, <2>1 DEF Transfer, VerifyOpen, Goto
<1>14. ASSUME NEW t \in Thread, TransferReturn(t) PROVE TypeOK'
  <2>1. file[t] \in File
    BY <1>14 DEF TransferReturn, RowsOwned, FileCall
  <2>2. seek' \in [File -> 0 .. MaxSeek]
    BY <1>14, <2>1 DEF TransferReturn
  <2> QED BY <1>14, <2>2 DEF TransferReturn, Goto
<1>15. ASSUME NEW t \in Thread, Lookup(t) PROVE TypeOK'
  BY <1>15, NameFacts, GetFilesystemFacts DEF Lookup, UnlockTable, NameUsed, Goto
<1>16. ASSUME NEW t \in Thread, LookupReturn(t) PROVE TypeOK'
  BY <1>16 DEF LookupReturn, UnlockTable, Goto
<1>17. ASSUME NEW t \in Thread, Halt(t) PROVE TypeOK'
  BY <1>17 DEF Halt, OpsPending, Goto
<1>18. ASSUME NEW t \in Thread, HaltWake(t) PROVE TypeOK'
  BY <1>18 DEF HaltWake, Goto
<1>19. ASSUME NEW t \in Thread, HaltAgain(t) PROVE TypeOK'
  BY <1>19 DEF HaltAgain, Goto
<1>20. ASSUME NEW t \in Thread, HaltLock(t) PROVE TypeOK'
  BY <1>20 DEF HaltLock, Goto
<1>21. ASSUME NEW t \in Thread, HaltUnmount(t) PROVE TypeOK'
  BY <1>21 DEF HaltUnmount, Goto
<1>22. ASSUME NEW t \in Thread, EndOp(t) PROVE TypeOK'
  <2>1. ops' \in Nat /\ unmount_sem' \in Nat
    BY <1>22, OpsFacts DEF EndOp, InOp
  <2>2. CASE pc[t] = "refused"
    BY <1>22, <2>1, <2>2 DEF EndOp, Goto
  <2>3. CASE Leave(t)
    BY <1>22, <2>1, <2>3, NameFacts DEF EndOp, Leave, NameUsed, Goto
  <2> QED BY <1>22, <2>2, <2>3 DEF EndOp
<1>23. CASE PowerOff
  BY <1>23 DEF PowerOff, vars
<1> QED BY <1>1, <1>2, <1>3, <1>4, <1>5, <1>6, <1>7, <1>8, <1>9, <1>10, <1>11, <1>12,
         <1>13, <1>14, <1>15, <1>16, <1>17, <1>18, <1>19, <1>20, <1>21, <1>22, <1>23
      DEF Next, Step

-----------------------------------------------------------------------------
(* The count of operations *)

\* vfs_start_op and vfs_end_op keep vfs_ops equal to the number of operations
\* under way; every other step leaves both alone.
LEMMA OpsStep == IInv /\ [Next]_vars => OpsCounted'
<1> SUFFICES ASSUME IInv, [Next]_vars PROVE OpsCounted'
  OBVIOUS
<1> USE DEF IInv, TypeOK, opvars
<1>1. CASE UNCHANGED vars
  BY <1>1 DEF vars, OpsCounted, InOp
<1>2. ASSUME NEW t \in Thread, NEW f \in FS, NEW n \in Name \cup {<<>>}, MountFs(t, f, n)
      PROVE OpsCounted'
  <2>1. InOp' = InOp /\ ops' = ops
    BY <1>2 DEF InOp, MountFs, Goto
  <2> QED BY <2>1 DEF OpsCounted
<1>3. ASSUME NEW t \in Thread, MountStart(t) PROVE OpsCounted'
  <2>1. CASE StartOp
    <3>1. t \notin InOp /\ InOp' = InOp \cup {t} /\ ops' = ops + 1
      BY <1>3, <2>1 DEF InOp, MountStart, StartOp, GiveUp, Goto
    <3> QED BY <3>1, FS_AddElement DEF OpsCounted
  <2>2. CASE ~ StartOp
    <3>1. InOp' = InOp /\ ops' = ops
      BY <1>3, <2>2 DEF InOp, MountStart, GiveUp, Goto
    <3> QED BY <3>1 DEF OpsCounted
  <2> QED BY <2>1, <2>2
<1>4. ASSUME NEW t \in Thread, Mount(t) PROVE OpsCounted'
  <2>1. InOp' = InOp /\ ops' = ops
    BY <1>4 DEF InOp, Mount, FirstFreeRow, NameUsed, Goto
  <2> QED BY <2>1 DEF OpsCounted
<1>5. ASSUME NEW t \in Thread, Discard(t) PROVE OpsCounted'
  <2>1. InOp' = InOp /\ ops' = ops
    BY <1>5 DEF InOp, Discard, Leave, NameUsed, Goto
  <2> QED BY <2>1 DEF OpsCounted
<1>6. ASSUME NEW t \in Thread, NEW c \in Calls[t], Begin(t, c) PROVE OpsCounted'
  <2>1. t \notin InOp /\ InOp' = InOp \cup {t} /\ ops' = ops + 1
    BY <1>6 DEF InOp, Begin, StartOp, Goto
  <2> QED BY <2>1, FS_AddElement DEF OpsCounted
<1>7. ASSUME NEW t \in Thread, LockTable(t) PROVE OpsCounted'
  <2>1. InOp' = InOp /\ ops' = ops
    BY <1>7 DEF InOp, LockTable, Goto
  <2> QED BY <2>1 DEF OpsCounted
<1>8. ASSUME NEW t \in Thread, Unmount(t) PROVE OpsCounted'
  <2>1. InOp' = InOp /\ ops' = ops
    BY <1>8 DEF InOp, Unmount, NameUsed, Goto
  <2> QED BY <2>1 DEF OpsCounted
<1>9. ASSUME NEW t \in Thread, Open(t) PROVE OpsCounted'
  <2>1. InOp' = InOp /\ ops' = ops
    BY <1>9 DEF InOp, Open, FirstFreeFile, Claim, NameUsed, Goto
  <2> QED BY <2>1 DEF OpsCounted
<1>10. ASSUME NEW t \in Thread, OpenReturn(t) PROVE OpsCounted'
  <2>1. InOp' = InOp /\ ops' = ops
    BY <1>10 DEF InOp, OpenReturn, Goto
  <2> QED BY <2>1 DEF OpsCounted
<1>11. ASSUME NEW t \in Thread, Close(t) PROVE OpsCounted'
  <2>1. InOp' = InOp /\ ops' = ops
    BY <1>11 DEF InOp, Close, VerifyOpen, Goto
  <2> QED BY <2>1 DEF OpsCounted
<1>12. ASSUME NEW t \in Thread, Seek(t) PROVE OpsCounted'
  <2>1. InOp' = InOp /\ ops' = ops
    BY <1>12 DEF InOp, Seek, VerifyOpen, Goto
  <2> QED BY <2>1 DEF OpsCounted
<1>13. ASSUME NEW t \in Thread, Transfer(t) PROVE OpsCounted'
  <2>1. InOp' = InOp /\ ops' = ops
    BY <1>13 DEF InOp, Transfer, VerifyOpen, Goto
  <2> QED BY <2>1 DEF OpsCounted
<1>14. ASSUME NEW t \in Thread, TransferReturn(t) PROVE OpsCounted'
  <2>1. InOp' = InOp /\ ops' = ops
    BY <1>14 DEF InOp, TransferReturn, Goto
  <2> QED BY <2>1 DEF OpsCounted
<1>15. ASSUME NEW t \in Thread, Lookup(t) PROVE OpsCounted'
  <2>1. InOp' = InOp /\ ops' = ops
    BY <1>15 DEF InOp, Lookup, UnlockTable, NameUsed, Goto
  <2> QED BY <2>1 DEF OpsCounted
<1>16. ASSUME NEW t \in Thread, LookupReturn(t) PROVE OpsCounted'
  <2>1. InOp' = InOp /\ ops' = ops
    BY <1>16 DEF InOp, LookupReturn, UnlockTable, Goto
  <2> QED BY <2>1 DEF OpsCounted
<1>17. ASSUME NEW t \in Thread, Halt(t) PROVE OpsCounted'
  <2>1. InOp' = InOp /\ ops' = ops
    BY <1>17 DEF InOp, Halt, OpsPending, Goto
  <2> QED BY <2>1 DEF OpsCounted
<1>18. ASSUME NEW t \in Thread, HaltWake(t) PROVE OpsCounted'
  <2>1. InOp' = InOp /\ ops' = ops
    BY <1>18 DEF InOp, HaltWake, Goto
  <2> QED BY <2>1 DEF OpsCounted
<1>19. ASSUME NEW t \in Thread, HaltAgain(t) PROVE OpsCounted'
  <2>1. InOp' = InOp /\ ops' = ops
    BY <1>19 DEF InOp, HaltAgain, Goto
  <2> QED BY <2>1 DEF OpsCounted
<1>20. ASSUME NEW t \in Thread, HaltLock(t) PROVE OpsCounted'
  <2>1. InOp' = InOp /\ ops' = ops
    BY <1>20 DEF InOp, HaltLock, Goto
  <2> QED BY <2>1 DEF OpsCounted
<1>21. ASSUME NEW t \in Thread, HaltUnmount(t) PROVE OpsCounted'
  <2>1. InOp' = InOp /\ ops' = ops
    BY <1>21 DEF InOp, HaltUnmount, Goto
  <2> QED BY <2>1 DEF OpsCounted
<1>22. ASSUME NEW t \in Thread, EndOp(t) PROVE OpsCounted'
  <2>1. t \in InOp /\ InOp' = InOp \ {t} /\ ops' = ops - 1
    BY <1>22 DEF InOp, EndOp, LastOp, Leave, NameUsed, Goto
  <2> QED BY <2>1, FS_RemoveElement DEF OpsCounted
<1>23. CASE PowerOff
  BY <1>23 DEF PowerOff, vars, OpsCounted, InOp
<1> QED BY <1>1, <1>2, <1>3, <1>4, <1>5, <1>6, <1>7, <1>8, <1>9, <1>10, <1>11, <1>12,
         <1>13, <1>14, <1>15, <1>16, <1>17, <1>18, <1>19, <1>20, <1>21, <1>22, <1>23
      DEF Next, Step

-----------------------------------------------------------------------------
(* The semaphore of the mount table, and the halt *)

\* Whatever path a call takes out of the VFS, it keeps vfs_table.sem exactly
\* while it is inside.
LEMMA TableSemStep == IInv /\ [Next]_vars => TableGuarded'
<1> SUFFICES ASSUME IInv, [Next]_vars PROVE TableGuarded'
  OBVIOUS
<1> USE DEF IInv, TypeOK, TableGuarded, HoldsTable, TableCall, opvars, locals
<1>1. CASE UNCHANGED vars
  BY <1>1 DEF vars
<1>2. ASSUME NEW t \in Thread, NEW f \in FS, NEW n \in Name \cup {<<>>}, MountFs(t, f, n)
      PROVE TableGuarded'
  BY <1>2 DEF MountFs, Goto
<1>3. ASSUME NEW t \in Thread, MountStart(t) PROVE TableGuarded'
  BY <1>3 DEF MountStart, StartOp, MayStart, GiveUp, Goto
<1>4. ASSUME NEW t \in Thread, Mount(t) PROVE TableGuarded'
  BY <1>4 DEF Mount, FirstFreeRow, NameUsed, Goto
<1>5. ASSUME NEW t \in Thread, Discard(t) PROVE TableGuarded'
  BY <1>5 DEF Discard, Leave, NameUsed, Goto
<1>6. ASSUME NEW t \in Thread, NEW c \in Calls[t], Begin(t, c) PROVE TableGuarded'
  <2>1. \E label \in {"body", "end"} : pc' = [pc EXCEPT ![t] = label]
    BY <1>6 DEF Begin, Goto
  <2> QED BY <1>6, <2>1 DEF Begin
<1>7. ASSUME NEW t \in Thread, LockTable(t) PROVE TableGuarded'
  BY <1>7 DEF LockTable, Goto
<1>8. ASSUME NEW t \in Thread, Unmount(t) PROVE TableGuarded'
  BY <1>8 DEF Unmount, NameUsed, Goto
<1>9. ASSUME NEW t \in Thread, Open(t) PROVE TableGuarded'
  BY <1>9 DEF Open, FirstFreeFile, Claim, NameUsed, Goto
<1>10. ASSUME NEW t \in Thread, OpenReturn(t) PROVE TableGuarded'
  BY <1>10 DEF OpenReturn, Goto
<1>11. ASSUME NEW t \in Thread, Close(t) PROVE TableGuarded'
  BY <1>11 DEF Close, VerifyOpen, Goto
<1>12. ASSUME NEW t \in Thread, Seek(t) PROVE TableGuarded'
  BY <1>12 DEF Seek, VerifyOpen, Goto
<1>13. ASSUME NEW t \in Thread, Transfer(t) PROVE TableGuarded'
  BY <1>13 DEF Transfer, VerifyOpen, Goto
<1>14. ASSUME NEW t \in Thread, TransferReturn(t) PROVE TableGuarded'
  BY <1>14 DEF TransferReturn, Goto
<1>15. ASSUME NEW t \in Thread, Lookup(t) PROVE TableGuarded'
  BY <1>15 DEF Lookup, UnlockTable, NameUsed, Goto
<1>16. ASSUME NEW t \in Thread, LookupReturn(t) PROVE TableGuarded'
  BY <1>16 DEF LookupReturn, UnlockTable, Goto
<1>17. ASSUME NEW t \in Thread, Halt(t) PROVE TableGuarded'
  BY <1>17 DEF Halt, OpsPending, Goto
<1>18. ASSUME NEW t \in Thread, HaltWake(t) PROVE TableGuarded'
  BY <1>18 DEF HaltWake, Goto
<1>19. ASSUME NEW t \in Thread, HaltAgain(t) PROVE TableGuarded'
  BY <1>19 DEF HaltAgain, Goto
<1>20. ASSUME NEW t \in Thread, HaltLock(t) PROVE TableGuarded'
  BY <1>20 DEF HaltLock, Goto
<1>21. ASSUME NEW t \in Thread, HaltUnmount(t) PROVE TableGuarded'
  BY <1>21 DEF HaltUnmount, Goto
<1>22. ASSUME NEW t \in Thread, EndOp(t) PROVE TableGuarded'
  BY <1>22 DEF EndOp, LastOp, Leave, NameUsed, Goto
<1>23. CASE PowerOff
  BY <1>23 DEF PowerOff, vars
<1> QED BY <1>1, <1>2, <1>3, <1>4, <1>5, <1>6, <1>7, <1>8, <1>9, <1>10, <1>11, <1>12,
         <1>13, <1>14, <1>15, <1>16, <1>17, <1>18, <1>19, <1>20, <1>21, <1>22, <1>23
      DEF Next, Step

\* Once vfs_usable is FALSE and the count is 0 it stays 0, so what vfs_deinit
\* was woken for still holds when it goes on.
LEMMA HaltStep == IInv /\ [Next]_vars => HaltWaits'
<1> SUFFICES ASSUME IInv, [Next]_vars PROVE HaltWaits'
  OBVIOUS
<1> USE DEF IInv, TypeOK, HaltWaits, opvars
<1>1. CASE UNCHANGED vars
  BY <1>1 DEF vars
<1>2. ASSUME NEW t \in Thread, NEW f \in FS, NEW n \in Name \cup {<<>>}, MountFs(t, f, n)
      PROVE HaltWaits'
  BY <1>2 DEF MountFs, Goto
<1>3. ASSUME NEW t \in Thread, MountStart(t) PROVE HaltWaits'
  BY <1>3 DEF MountStart, StartOp, MayStart, GiveUp, Goto
<1>4. ASSUME NEW t \in Thread, Mount(t) PROVE HaltWaits'
  BY <1>4 DEF Mount, FirstFreeRow, NameUsed, Goto
<1>5. ASSUME NEW t \in Thread, Discard(t) PROVE HaltWaits'
  BY <1>5 DEF Discard, Leave, NameUsed, Goto
<1>6. ASSUME NEW t \in Thread, NEW c \in Calls[t], Begin(t, c) PROVE HaltWaits'
  BY <1>6 DEF MayStart, Begin, StartOp, Goto
<1>7. ASSUME NEW t \in Thread, LockTable(t) PROVE HaltWaits'
  BY <1>7 DEF LockTable, Goto
<1>8. ASSUME NEW t \in Thread, Unmount(t) PROVE HaltWaits'
  BY <1>8 DEF Unmount, NameUsed, Goto
<1>9. ASSUME NEW t \in Thread, Open(t) PROVE HaltWaits'
  BY <1>9 DEF Open, FirstFreeFile, Claim, NameUsed, Goto
<1>10. ASSUME NEW t \in Thread, OpenReturn(t) PROVE HaltWaits'
  BY <1>10 DEF OpenReturn, Goto
<1>11. ASSUME NEW t \in Thread, Close(t) PROVE HaltWaits'
  BY <1>11 DEF Close, VerifyOpen, Goto
<1>12. ASSUME NEW t \in Thread, Seek(t) PROVE HaltWaits'
  BY <1>12 DEF Seek, VerifyOpen, Goto
<1>13. ASSUME NEW t \in Thread, Transfer(t) PROVE HaltWaits'
  BY <1>13 DEF Transfer, VerifyOpen, Goto
<1>14. ASSUME NEW t \in Thread, TransferReturn(t) PROVE HaltWaits'
  BY <1>14 DEF TransferReturn, Goto
<1>15. ASSUME NEW t \in Thread, Lookup(t) PROVE HaltWaits'
  BY <1>15 DEF Lookup, UnlockTable, NameUsed, Goto
<1>16. ASSUME NEW t \in Thread, LookupReturn(t) PROVE HaltWaits'
  BY <1>16 DEF LookupReturn, UnlockTable, Goto
<1>17. ASSUME NEW t \in Thread, Halt(t) PROVE HaltWaits'
  BY <1>17 DEF Halt, OpsPending, Goto
<1>18. ASSUME NEW t \in Thread, HaltWake(t) PROVE HaltWaits'
  BY <1>18 DEF HaltWake, Goto
<1>19. ASSUME NEW t \in Thread, HaltAgain(t) PROVE HaltWaits'
  BY <1>19 DEF HaltAgain, Goto
<1>20. ASSUME NEW t \in Thread, HaltLock(t) PROVE HaltWaits'
  BY <1>20 DEF HaltLock, Goto
<1>21. ASSUME NEW t \in Thread, HaltUnmount(t) PROVE HaltWaits'
  BY <1>21 DEF HaltUnmount, Goto
<1>22. ASSUME NEW t \in Thread, EndOp(t) PROVE HaltWaits'
  <2>1. ops - 1 \in Nat
    BY <1>22, OpsFacts DEF EndOp, InOp
  <2> QED BY <1>22, <2>1 DEF EndOp, LastOp, Leave, NameUsed, Goto
<1>23. CASE PowerOff
  BY <1>23 DEF PowerOff, vars
<1> QED BY <1>1, <1>2, <1>3, <1>4, <1>5, <1>6, <1>7, <1>8, <1>9, <1>10, <1>11, <1>12,
         <1>13, <1>14, <1>15, <1>16, <1>17, <1>18, <1>19, <1>20, <1>21, <1>22, <1>23
      DEF Next, Step

-----------------------------------------------------------------------------
(* Filesystems on their way into the mount table *)

\* The filesystem a thread is mounting stays its own until it is in the table.
LEMMA MountingStep == IInv /\ [Next]_vars => MountsOwn'
<1> SUFFICES ASSUME IInv, [Next]_vars PROVE MountsOwn'
  OBVIOUS
<1> USE DEF IInv, TypeOK, MountsOwn, Mounting, tables, opvars, locals
<1>1. CASE UNCHANGED vars
  BY <1>1 DEF vars
<1>2. ASSUME NEW t \in Thread, NEW f \in FS, NEW n \in Name \cup {<<>>}, MountFs(t, f, n)
      PROVE MountsOwn'
  <2>1. /\ \A r \in Row : filesystem[r] # f
        /\ \A u \in Thread : Mounting(u) => fs[u] # f
    BY <1>2 DEF MountFs, FilesOnMountedFS
  <2> QED BY <1>2, <2>1 DEF MountFs, Goto
<1>3. ASSUME NEW t \in Thread, MountStart(t) PROVE MountsOwn'
  BY <1>3 DEF MountStart, StartOp, MayStart, GiveUp, Goto
<1>4. ASSUME NEW t \in Thread, Mount(t) PROVE MountsOwn'
  BY <1>4 DEF Mount, FirstFreeRow, NameUsed, Goto
<1>5. ASSUME NEW t \in Thread, Discard(t) PROVE MountsOwn'
  BY <1>5 DEF Discard, Leave, NameUsed, Goto
<1>6. ASSUME NEW t \in Thread, NEW c \in Calls[t], Begin(t, c) PROVE MountsOwn'
  <2>1. \E label \in {"body", "end"} : pc' = [pc EXCEPT ![t] = label]
    BY <1>6 DEF Begin, Goto
  <2> QED BY <1>6, <2>1 DEF Begin
<1>7. ASSUME NEW t \in Thread, LockTable(t) PROVE MountsOwn'
  BY <1>7 DEF LockTable, Goto
<1>8. ASSUME NEW t \in Thread, Unmount(t) PROVE MountsOwn'
  <2>1. CASE UNCHANGED <<filesystem, live>>
    BY <1>8, <2>1 DEF Unmount, NameUsed, Goto
  <2>2. CASE ~ UNCHANGED <<filesystem, live>>
    <3> DEFINE f == GetFilesystem(name[t])
    <3>1. /\ filesystem' = [r \in Row |-> IF filesystem[r] = f THEN None ELSE filesystem[r]]
          /\ live' = live \ {f}
          /\ \E r \in Row : filesystem[r] = f
      BY <1>8, <2>2, GetFilesystemFacts DEF Unmount
    <3> HIDE DEF f
    <3>2. \A u \in Thread : Mounting(u) =>
             fs[u] \in live' /\ \A r \in Row : filesystem'[r] # fs[u]
      BY <3>1
    <3> QED BY <1>8, <3>2 DEF Unmount, NameUsed, Goto
  <2> QED BY <2>1, <2>2
<1>9. ASSUME NEW t \in Thread, Open(t) PROVE MountsOwn'
  BY <1>9 DEF Open, FirstFreeFile, Claim, NameUsed, Goto
<1>10. ASSUME NEW t \in Thread, OpenReturn(t) PROVE MountsOwn'
  BY <1>10 DEF OpenReturn, Goto
<1>11. ASSUME NEW t \in Thread, Close(t) PROVE MountsOwn'
  BY <1>11 DEF Close, VerifyOpen, Goto
<1>12. ASSUME NEW t \in Thread, Seek(t) PROVE MountsOwn'
  BY <1>12 DEF Seek, VerifyOpen, Goto
<1>13. ASSUME NEW t \in Thread, Transfer(t) PROVE MountsOwn'
  BY <1>13 DEF Transfer, VerifyOpen, Goto
<1>14. ASSUME NEW t \in Thread, TransferReturn(t) PROVE MountsOwn'
  BY <1>14 DEF TransferReturn, Goto
<1>15. ASSUME NEW t \in Thread, Lookup(t) PROVE MountsOwn'
  BY <1>15 DEF Lookup, UnlockTable, NameUsed, Goto
<1>16. ASSUME NEW t \in Thread, LookupReturn(t) PROVE MountsOwn'
  BY <1>16 DEF LookupReturn, UnlockTable, Goto
<1>17. ASSUME NEW t \in Thread, Halt(t) PROVE MountsOwn'
  BY <1>17 DEF Halt, OpsPending, Goto
<1>18. ASSUME NEW t \in Thread, HaltWake(t) PROVE MountsOwn'
  BY <1>18 DEF HaltWake, Goto
<1>19. ASSUME NEW t \in Thread, HaltAgain(t) PROVE MountsOwn'
  BY <1>19 DEF HaltAgain, Goto
<1>20. ASSUME NEW t \in Thread, HaltLock(t) PROVE MountsOwn'
  BY <1>20 DEF HaltLock, Goto
<1>21. ASSUME NEW t \in Thread, HaltUnmount(t) PROVE MountsOwn'
  <2>1. \A u \in Thread : Mounting(u) =>
           fs[u] \in live' /\ \A r \in Row : filesystem'[r] # fs[u]
    BY <1>21 DEF HaltUnmount
  <2> QED BY <1>21, <2>1 DEF HaltUnmount, Goto
<1>22. ASSUME NEW t \in Thread, EndOp(t) PROVE MountsOwn'
  <2>1. CASE pc[t] = "refused" /\ Goto(t, "discard") /\ UNCHANGED locals
    BY <1>22, <2>1 DEF EndOp, Goto
  <2>2. CASE pc[t] # "refused" /\ Leave(t)
    BY <1>22, <2>2 DEF EndOp, Leave, NameUsed, Goto
  <2> QED BY <1>22, <2>1, <2>2 DEF EndOp
<1>23. CASE PowerOff
  BY <1>23 DEF PowerOff, vars
<1> QED BY <1>1, <1>2, <1>3, <1>4, <1>5, <1>6, <1>7, <1>8, <1>9, <1>10, <1>11, <1>12,
         <1>13, <1>14, <1>15, <1>16, <1>17, <1>18, <1>19, <1>20, <1>21, <1>22, <1>23
      DEF Next, Step

-----------------------------------------------------------------------------
(* Rows of the open file table *)

\* No call changes the row of a file that another thread opened or is opening.
LEMMA RowsStep == IInv /\ [Next]_vars => RowsOwned'
<1> SUFFICES ASSUME IInv, [Next]_vars PROVE RowsOwned'
  OBVIOUS
<1> USE DEF IInv, TypeOK, RowsOwned, Opening, FileCall, tables, opvars, locals
<1>1. CASE UNCHANGED vars
  BY <1>1 DEF vars
<1>2. ASSUME NEW t \in Thread, NEW f \in FS, NEW n \in Name \cup {<<>>}, MountFs(t, f, n)
      PROVE RowsOwned'
  BY <1>2 DEF MountFs, Goto
<1>3. ASSUME NEW t \in Thread, MountStart(t) PROVE RowsOwned'
  <2>1. \E label \in {"body", "discard"} : pc' = [pc EXCEPT ![t] = label]
    BY <1>3 DEF MountStart, GiveUp, Goto
  <2>2. call[t] = "mount"
    BY <1>3 DEF MountStart, MountsOwn, Mounting
  <2> QED BY <1>3, <2>1, <2>2 DEF MountStart
<1>4. ASSUME NEW t \in Thread, Mount(t) PROVE RowsOwned'
  BY <1>4 DEF Mount, FirstFreeRow, NameUsed, Goto
<1>5. ASSUME NEW t \in Thread, Discard(t) PROVE RowsOwned'
  BY <1>5 DEF Discard, Leave, NameUsed, Goto
<1>6. ASSUME NEW t \in Thread, NEW c \in Calls[t], Begin(t, c) PROVE RowsOwned'
  <2>1. CASE c \in FileCall
    <3>1. PICK h \in File : opener[h] = t /\ file' = [file EXCEPT ![t] = h]
      BY <1>6, <2>1 DEF Begin, Filehandle, FileOf, File
    <3> QED BY <1>6, <2>1, <3>1 DEF Begin, Goto
  <2>2. CASE c \notin FileCall
    <3>1. \E label \in {"body", "end"} : pc' = [pc EXCEPT ![t] = label]
      BY <1>6 DEF Begin, Goto
    <3> QED BY <1>6, <2>2, <3>1 DEF Begin
  <2> QED BY <2>1, <2>2
<1>7. ASSUME NEW t \in Thread, LockTable(t) PROVE RowsOwned'
  BY <1>7 DEF LockTable, Goto
<1>8. ASSUME NEW t \in Thread, Unmount(t) PROVE RowsOwned'
  BY <1>8 DEF Unmount, NameUsed, Goto
<1>9. ASSUME NEW t \in Thread, Open(t) PROVE RowsOwned'
  <2>1. CASE Goto(t, "end") /\ UNCHANGED <<file_fs, file, fs>>
    BY <1>9, <2>1 DEF Open, Goto
  <2>2. CASE /\ GetFilesystem(name[t]) # None /\ Goto(t, "call")
             /\ \E h \in File : /\ FirstFreeFile(h) /\ Claim(h, GetFilesystem(name[t]))
                               /\ file' = [file EXCEPT ![t] = h]
             /\ fs' = [fs EXCEPT ![t] = GetFilesystem(name[t])]
    <3> DEFINE f == GetFilesystem(name[t])
    <3>1. PICK h \in File : /\ file_fs[h] = None /\ file_fs' = [file_fs EXCEPT ![h] = f]
                           /\ file' = [file EXCEPT ![t] = h]
      BY <2>2 DEF FirstFreeFile, Claim
    <3>2. /\ f # None /\ fs' = [fs EXCEPT ![t] = f] /\ pc' = [pc EXCEPT ![t] = "call"]
          /\ UNCHANGED <<call, opener>> /\ call[t] = "open"
      BY <1>9, <2>2 DEF Open, Goto
    <3> HIDE DEF f
    <3>3. /\ opener[h] = None
          /\ \A u \in Thread : Opening(u) => file[u] # h
          /\ \A u \in Thread : pc[u] \in {"body", "call"} /\ call[u] \in FileCall => file[u] # h
      BY <3>1
    <3> QED BY <3>1, <3>2, <3>3
  <2> QED BY <1>9, <2>1, <2>2 DEF Open
<1>10. ASSUME NEW t \in Thread, OpenReturn(t) PROVE RowsOwned'
  BY <1>10 DEF OpenReturn, Goto
<1>11. ASSUME NEW t \in Thread, Close(t) PROVE RowsOwned'
  BY <1>11 DEF Close, VerifyOpen, Goto
<1>12. ASSUME NEW t \in Thread, Seek(t) PROVE RowsOwned'
  BY <1>12 DEF Seek, VerifyOpen, Goto
<1>13. ASSUME NEW t \in Thread, Transfer(t) PROVE RowsOwned'
  BY <1>13 DEF Transfer, VerifyOpen, Goto
<1>14. ASSUME NEW t \in Thread, TransferReturn(t) PROVE RowsOwned'
  BY <1>14 DEF TransferReturn, Goto
<1>15. ASSUME NEW t \in Thread, Lookup(t) PROVE RowsOwned'
  BY <1>15 DEF Lookup, UnlockTable, NameUsed, Goto
<1>16. ASSUME NEW t \in Thread, LookupReturn(t) PROVE RowsOwned'
  BY <1>16 DEF LookupReturn, UnlockTable, Goto
<1>17. ASSUME NEW t \in Thread, Halt(t) PROVE RowsOwned'
  BY <1>17 DEF Halt, OpsPending, Goto
<1>18. ASSUME NEW t \in Thread, HaltWake(t) PROVE RowsOwned'
  BY <1>18 DEF HaltWake, Goto
<1>19. ASSUME NEW t \in Thread, HaltAgain(t) PROVE RowsOwned'
  BY <1>19 DEF HaltAgain, Goto
<1>20. ASSUME NEW t \in Thread, HaltLock(t) PROVE RowsOwned'
  BY <1>20 DEF HaltLock, Goto
<1>21. ASSUME NEW t \in Thread, HaltUnmount(t) PROVE RowsOwned'
  BY <1>21 DEF HaltUnmount, Goto
<1>22. ASSUME NEW t \in Thread, EndOp(t) PROVE RowsOwned'
  <2>1. CASE pc[t] = "refused" /\ Goto(t, "discard") /\ UNCHANGED locals
    BY <1>22, <2>1 DEF EndOp, Goto
  <2>2. CASE pc[t] # "refused" /\ Leave(t)
    BY <1>22, <2>2 DEF EndOp, Leave, NameUsed, Goto
  <2> QED BY <1>22, <2>1, <2>2 DEF EndOp
<1>23. CASE PowerOff
  BY <1>23 DEF PowerOff, vars
<1> QED BY <1>1, <1>2, <1>3, <1>4, <1>5, <1>6, <1>7, <1>8, <1>9, <1>10, <1>11, <1>12,
         <1>13, <1>14, <1>15, <1>16, <1>17, <1>18, <1>19, <1>20, <1>21, <1>22, <1>23
      DEF Next, Step

-----------------------------------------------------------------------------
(* The mount table *)

\* With the table locked, nothing is unmounted under a driver's call.
LEMMA TableCallStep == IInv /\ [Next]_vars => TableCallsMounted'
<1> SUFFICES ASSUME IInv, [Next]_vars PROVE TableCallsMounted'
  OBVIOUS
<1> USE DEF IInv, TypeOK, TableCallsMounted, TableCall, tables, opvars, locals
<1>1. CASE UNCHANGED vars
  BY <1>1 DEF vars
<1>2. ASSUME NEW t \in Thread, NEW f \in FS, NEW n \in Name \cup {<<>>}, MountFs(t, f, n)
      PROVE TableCallsMounted'
  BY <1>2 DEF MountFs, Goto
<1>3. ASSUME NEW t \in Thread, MountStart(t) PROVE TableCallsMounted'
  BY <1>3 DEF MountStart, StartOp, MayStart, GiveUp, Goto
<1>4. ASSUME NEW t \in Thread, Mount(t) PROVE TableCallsMounted'
  BY <1>4 DEF Mount, FirstFreeRow, NameUsed, Goto
<1>5. ASSUME NEW t \in Thread, Discard(t) PROVE TableCallsMounted'
  BY <1>5 DEF Discard, Leave, NameUsed, Goto
<1>6. ASSUME NEW t \in Thread, NEW c \in Calls[t], Begin(t, c) PROVE TableCallsMounted'
  BY <1>6 DEF Begin, StartOp, Goto
<1>7. ASSUME NEW t \in Thread, LockTable(t) PROVE TableCallsMounted'
  BY <1>7 DEF LockTable, Goto
<1>8. ASSUME NEW t \in Thread, Unmount(t) PROVE TableCallsMounted'
  <2>1. \A u \in Thread : ~ (u # t /\ pc[u] = "call" /\ call[u] \in TableCall)
    BY <1>8 DEF Unmount, TableGuarded, HoldsTable
  <2> QED BY <1>8, <2>1 DEF Unmount, NameUsed, Goto
<1>9. ASSUME NEW t \in Thread, Open(t) PROVE TableCallsMounted'
  BY <1>9 DEF Open, FirstFreeFile, Claim, NameUsed, Goto
<1>10. ASSUME NEW t \in Thread, OpenReturn(t) PROVE TableCallsMounted'
  BY <1>10 DEF OpenReturn, Goto
<1>11. ASSUME NEW t \in Thread, Close(t) PROVE TableCallsMounted'
  BY <1>11 DEF Close, VerifyOpen, Goto
<1>12. ASSUME NEW t \in Thread, Seek(t) PROVE TableCallsMounted'
  BY <1>12 DEF Seek, VerifyOpen, Goto
<1>13. ASSUME NEW t \in Thread, Transfer(t) PROVE TableCallsMounted'
  BY <1>13 DEF Transfer, VerifyOpen, Goto
<1>14. ASSUME NEW t \in Thread, TransferReturn(t) PROVE TableCallsMounted'
  BY <1>14 DEF TransferReturn, Goto
<1>15. ASSUME NEW t \in Thread, Lookup(t) PROVE TableCallsMounted'
  <2> DEFINE f == GetFilesystem(name[t])
  <2>1. f # None => \E r \in Row : filesystem[r] = f
    BY GetFilesystemFacts
  <2>2. /\ fs' = [fs EXCEPT ![t] = f] /\ UNCHANGED <<call, filesystem>>
        /\ pc' = [pc EXCEPT ![t] = IF f = None THEN "end" ELSE "call"]
        /\ call[t] \in TableCall \cup {"filecount", "file"}
    BY <1>15 DEF Lookup, Goto
  <2> HIDE DEF f
  <2> QED BY <2>1, <2>2
<1>16. ASSUME NEW t \in Thread, LookupReturn(t) PROVE TableCallsMounted'
  BY <1>16 DEF LookupReturn, UnlockTable, Goto
<1>17. ASSUME NEW t \in Thread, Halt(t) PROVE TableCallsMounted'
  BY <1>17 DEF Halt, OpsPending, Goto
<1>18. ASSUME NEW t \in Thread, HaltWake(t) PROVE TableCallsMounted'
  BY <1>18 DEF HaltWake, Goto
<1>19. ASSUME NEW t \in Thread, HaltAgain(t) PROVE TableCallsMounted'
  BY <1>19 DEF HaltAgain, Goto
<1>20. ASSUME NEW t \in Thread, HaltLock(t) PROVE TableCallsMounted'
  BY <1>20 DEF HaltLock, Goto
<1>21. ASSUME NEW t \in Thread, HaltUnmount(t) PROVE TableCallsMounted'
  <2>1. \A u \in Thread : ~ (u # t /\ pc[u] = "call" /\ call[u] \in TableCall)
    BY <1>21 DEF HaltUnmount, TableGuarded, HoldsTable
  <2> QED BY <1>21, <2>1 DEF HaltUnmount, Goto
<1>22. ASSUME NEW t \in Thread, EndOp(t) PROVE TableCallsMounted'
  BY <1>22 DEF EndOp, LastOp, Leave, NameUsed, Goto
<1>23. CASE PowerOff
  BY <1>23 DEF PowerOff, vars
<1> QED BY <1>1, <1>2, <1>3, <1>4, <1>5, <1>6, <1>7, <1>8, <1>9, <1>10, <1>11, <1>12,
         <1>13, <1>14, <1>15, <1>16, <1>17, <1>18, <1>19, <1>20, <1>21, <1>22, <1>23
      DEF Next, Step

\* Mounting keeps rows distinct, and unmounting spares filesystems with open
\* files.
LEMMA MountTableStep == IInv /\ [Next]_vars => FilesOnMountedFS'
<1> SUFFICES ASSUME IInv, [Next]_vars PROVE FilesOnMountedFS'
  OBVIOUS
<1> USE DEF IInv, TypeOK, FilesOnMountedFS, Off, tables, opvars, locals
<1>1. CASE UNCHANGED vars
  BY <1>1 DEF vars
<1>2. ASSUME NEW t \in Thread, NEW f \in FS, NEW n \in Name \cup {<<>>}, MountFs(t, f, n)
      PROVE FilesOnMountedFS'
  BY <1>2 DEF MountFs, Goto
<1>3. ASSUME NEW t \in Thread, MountStart(t) PROVE FilesOnMountedFS'
  BY <1>3 DEF MountStart, StartOp, MayStart, GiveUp, Goto
<1>4. ASSUME NEW t \in Thread, Mount(t) PROVE FilesOnMountedFS'
  <2>1. CASE Goto(t, "refused") /\ UNCHANGED <<filesystem, mountpoint>>
    BY <1>4, <2>1 DEF Mount, Goto
  <2>2. CASE /\ Goto(t, "end")
             /\ \E r \in Row : /\ FirstFreeRow(r) /\ ~ NameTaken(name[t])
                              /\ mountpoint' = [mountpoint EXCEPT ![r] = name[t]]
                              /\ filesystem' = [filesystem EXCEPT ![r] = fs[t]]
    <3>1. PICK r \in Row : /\ filesystem[r] = None
                          /\ \A q \in Row : mountpoint[q] # name[t]
                          /\ mountpoint' = [mountpoint EXCEPT ![r] = name[t]]
                          /\ filesystem' = [filesystem EXCEPT ![r] = fs[t]]
      BY <2>2 DEF FirstFreeRow, NameTaken
    <3>2. fs[t] \in live /\ \A q \in Row : filesystem[q] # fs[t]
      BY <1>4 DEF Mount, MountsOwn, Mounting
    <3>3. UNCHANGED <<live, file_fs>> /\ pc' = [pc EXCEPT ![t] = "end"] /\ pc[t] = "body"
      BY <1>4, <2>2 DEF Mount, Goto
    <3>4. ~ Off' => \A h \in File : file_fs'[h] # None =>
             \E q \in Row : filesystem'[q] = file_fs'[h]
      BY <3>1, <3>3
    <3> QED BY <3>1, <3>2, <3>3, <3>4
  <2> QED BY <1>4, <2>1, <2>2 DEF Mount
<1>5. ASSUME NEW t \in Thread, Discard(t) PROVE FilesOnMountedFS'
  <2>1. \A r \in Row : filesystem[r] # fs[t]
    BY <1>5 DEF Discard, MountsOwn, Mounting
  <2> QED BY <1>5, <2>1 DEF Discard, Leave, Goto
<1>6. ASSUME NEW t \in Thread, NEW c \in Calls[t], Begin(t, c) PROVE FilesOnMountedFS'
  BY <1>6 DEF Begin, StartOp, Goto
<1>7. ASSUME NEW t \in Thread, LockTable(t) PROVE FilesOnMountedFS'
  BY <1>7 DEF LockTable, Goto
<1>8. ASSUME NEW t \in Thread, Unmount(t) PROVE FilesOnMountedFS'
  <2>1. CASE UNCHANGED <<filesystem, live>>
    BY <1>8, <2>1 DEF Unmount, Goto
  <2>2. CASE ~ UNCHANGED <<filesystem, live>>
    <3> DEFINE f == GetFilesystem(name[t])
    <3>1. /\ filesystem' = [r \in Row |-> IF filesystem[r] = f THEN None ELSE filesystem[r]]
          /\ live' = live \ {f}
          /\ \A h \in File : file_fs[h] # f
      BY <1>8, <2>2 DEF Unmount, InUse
    <3>2. UNCHANGED <<mountpoint, file_fs>> /\ pc' = [pc EXCEPT ![t] = "end"] /\ pc[t] = "locked"
      BY <1>8 DEF Unmount, Goto
    <3> HIDE DEF f
    <3>3. ~ Off' => \A h \in File : file_fs'[h] # None =>
             \E q \in Row : filesystem'[q] = file_fs'[h]
      BY <3>1, <3>2
    <3> QED BY <3>1, <3>2, <3>3
  <2> QED BY <2>1, <2>2
<1>9. ASSUME NEW t \in Thread, Open(t) PROVE FilesOnMountedFS'
  <2> DEFINE f == GetFilesystem(name[t])
  <2>1. UNCHANGED file_fs \/ \E h \in File : f # None /\ file_fs' = [file_fs EXCEPT ![h] = f]
    BY <1>9 DEF Open, Claim
  <2>2. f # None => \E r \in Row : filesystem[r] = f
    BY GetFilesystemFacts
  <2>3. /\ UNCHANGED <<filesystem, mountpoint, live>> /\ pc[t] = "locked"
        /\ \E label \in {"call", "end"} : pc' = [pc EXCEPT ![t] = label]
    BY <1>9 DEF Open, Goto
  <2> HIDE DEF f
  <2> QED BY <2>1, <2>2, <2>3
<1>10. ASSUME NEW t \in Thread, OpenReturn(t) PROVE FilesOnMountedFS'
  BY <1>10 DEF OpenReturn, Goto
<1>11. ASSUME NEW t \in Thread, Close(t) PROVE FilesOnMountedFS'
  BY <1>11 DEF Close, VerifyOpen, Goto
<1>12. ASSUME NEW t \in Thread, Seek(t) PROVE FilesOnMountedFS'
  BY <1>12 DEF Seek, VerifyOpen, Goto
<1>13. ASSUME NEW t \in Thread, Transfer(t) PROVE FilesOnMountedFS'
  BY <1>13 DEF Transfer, VerifyOpen, Goto
<1>14. ASSUME NEW t \in Thread, TransferReturn(t) PROVE FilesOnMountedFS'
  BY <1>14 DEF TransferReturn, Goto
<1>15. ASSUME NEW t \in Thread, Lookup(t) PROVE FilesOnMountedFS'
  BY <1>15 DEF Lookup, UnlockTable, NameUsed, Goto
<1>16. ASSUME NEW t \in Thread, LookupReturn(t) PROVE FilesOnMountedFS'
  BY <1>16 DEF LookupReturn, UnlockTable, Goto
<1>17. ASSUME NEW t \in Thread, Halt(t) PROVE FilesOnMountedFS'
  BY <1>17 DEF Halt, OpsPending, Goto
<1>18. ASSUME NEW t \in Thread, HaltWake(t) PROVE FilesOnMountedFS'
  BY <1>18 DEF HaltWake, Goto
<1>19. ASSUME NEW t \in Thread, HaltAgain(t) PROVE FilesOnMountedFS'
  BY <1>19 DEF HaltAgain, Goto
<1>20. ASSUME NEW t \in Thread, HaltLock(t) PROVE FilesOnMountedFS'
  BY <1>20 DEF HaltLock, Goto
<1>21. ASSUME NEW t \in Thread, HaltUnmount(t) PROVE FilesOnMountedFS'
  BY <1>21 DEF HaltUnmount, Goto
<1>22. ASSUME NEW t \in Thread, EndOp(t) PROVE FilesOnMountedFS'
  BY <1>22 DEF EndOp, LastOp, Leave, NameUsed, Goto
<1>23. CASE PowerOff
  BY <1>23 DEF PowerOff, vars
<1> QED BY <1>1, <1>2, <1>3, <1>4, <1>5, <1>6, <1>7, <1>8, <1>9, <1>10, <1>11, <1>12,
         <1>13, <1>14, <1>15, <1>16, <1>17, <1>18, <1>19, <1>20, <1>21, <1>22, <1>23
      DEF Next, Step

-----------------------------------------------------------------------------
(* Theorems *)

\* At startup nothing is mounted, open or under way.
LEMMA InitInvariant == Init => IInv
<1> SUFFICES ASSUME Init PROVE IInv
  OBVIOUS
<1>1. TypeOK
  <2>1. 0 \in 0 .. MaxSeek /\ <<>> \in VolumeName
    BY NameFacts
  <2> QED BY <2>1 DEF Init, TypeOK
<1>2. OpsCounted
  <2>1. InOp = {}
    BY DEF Init, InOp
  <2> QED BY <2>1, FS_EmptySet DEF OpsCounted, Init
<1>3. TableGuarded /\ HaltWaits /\ MountsOwn
  BY DEF Init, TableGuarded, HoldsTable, HaltWaits, MountsOwn, Mounting
<1>4. RowsOwned /\ TableCallsMounted /\ FilesOnMountedFS
  BY DEF Init, RowsOwned, Opening, TableCallsMounted, FilesOnMountedFS
<1> QED BY <1>1, <1>2, <1>3, <1>4 DEF IInv

LEMMA Invariant == Spec => []IInv
<1>1. IInv /\ [Next]_vars => IInv'
  <2> SUFFICES ASSUME IInv, [Next]_vars PROVE IInv'
    OBVIOUS
  <2> QED BY TypeStep, OpsStep, TableSemStep, HaltStep, MountingStep, RowsStep,
             TableCallStep, MountTableStep DEF IInv
<1> QED BY InitInvariant, <1>1, PTL DEF Spec

\* The tables, counts and local variables of fs/vfs.c keep their types.
THEOREM TypeCorrect == Spec => []TypeOK
<1>1. IInv => TypeOK
  BY DEF IInv
<1> QED BY <1>1, Invariant, PTL

\* The drivers that vfs_open, vfs_read, vfs_write, vfs_create, vfs_remove and
\* vfs_getfree call belong to filesystems that are mounted.
LEMMA DriversMounted == IInv => CallsOnLiveFS
<1> SUFFICES ASSUME IInv, NEW t \in Thread, pc[t] = "call",
                    call[t] \notin {"filecount", "file"}
             PROVE  fs[t] \in live
  BY DEF CallsOnLiveFS
<1> USE DEF IInv
<1>1. ~ Off
  BY OpsFacts DEF Off, HaltWaits, InOp
<1>2. CASE call[t] \in TableCall
  BY <1>2 DEF TableCallsMounted, FilesOnMountedFS
<1>3. CASE call[t] \in {"open", "read", "write"}
  <2>1. file[t] \in File /\ file_fs[file[t]] = fs[t] /\ fs[t] # None
    BY <1>3 DEF RowsOwned, Opening, FileCall
  <2> QED BY <1>1, <2>1 DEF FilesOnMountedFS
<1> QED BY <1>2, <1>3 DEF TableCallsMounted

\* Unmounting, by vfs_unmount or by vfs_deinit for the shutdown, never takes a
\* filesystem from under an open file or a driver, except one that vfs_filecount
\* or vfs_file calls, and the shutdown unmounts only when no operation is under way.
THEOREM SafetyCorrect == Spec => []Safety
<1>1. IInv => UnmountWaitsForOps
  BY OpsFacts DEF IInv, HaltWaits, UnmountWaitsForOps
<1>2. IInv => Safety
  BY <1>1, DriversMounted DEF IInv, Safety
<1> QED BY <1>2, Invariant, PTL

\* A file that vfs_open returned stays open, on its filesystem, until its
\* opener closes it: the assertion in vfs_verify_open cannot fail for it.
THEOREM OpenFilesKept == Spec => OpenFileIsKept
<1> DEFINE Kept == \A h \in File : opener[h] # None /\ opener'[h] = opener[h] =>
                      file_fs[h] # None /\ file_fs'[h] = file_fs[h]
<1>1. IInv /\ [Next]_vars => [Kept]_vars
  <2> SUFFICES ASSUME IInv, [Next]_vars PROVE Kept
    OBVIOUS
  <2> USE DEF IInv, TypeOK, RowsOwned, tables
  <2>1. CASE UNCHANGED file_fs
    BY <2>1
  <2>2. ASSUME NEW t \in Thread, Open(t) PROVE Kept
    BY <2>2 DEF Open, FirstFreeFile, Claim
  <2>3. ASSUME NEW t \in Thread, OpenReturn(t) PROVE Kept
    BY <2>3 DEF OpenReturn, Opening
  <2>4. ASSUME NEW t \in Thread, Close(t) PROVE Kept
    BY <2>4 DEF Close, FileCall
  <2>5. ASSUME NEW t \in Thread,
               \/ \E f \in FS, n \in Name \cup {<<>>} : MountFs(t, f, n)
               \/ MountStart(t) \/ Mount(t) \/ Discard(t)
               \/ \E c \in Calls[t] : Begin(t, c)
               \/ LockTable(t) \/ Unmount(t) \/ Seek(t) \/ Transfer(t)
        PROVE  UNCHANGED file_fs
    BY <2>5 DEF MountFs, MountStart, Mount, Discard, Begin, LockTable, Unmount, Seek, Transfer
  <2>6. ASSUME NEW t \in Thread,
               \/ TransferReturn(t) \/ Lookup(t) \/ LookupReturn(t) \/ Halt(t) \/ HaltWake(t)
               \/ HaltAgain(t) \/ HaltLock(t) \/ HaltUnmount(t) \/ EndOp(t)
        PROVE  UNCHANGED file_fs
    BY <2>6 DEF TransferReturn, Lookup, LookupReturn, Halt, HaltWake, HaltAgain, HaltLock,
                HaltUnmount, EndOp
  <2>7. PowerOff \/ UNCHANGED vars => UNCHANGED file_fs
    BY DEF PowerOff, vars
  <2> QED BY <2>1, <2>2, <2>3, <2>4, <2>5, <2>6, <2>7 DEF Next, Step
<1>2. Spec => [][Kept]_vars
  BY <1>1, Invariant, PTL DEF Spec
<1> QED BY <1>2 DEF OpenFileIsKept
=============================================================================
