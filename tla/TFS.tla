-------------------------------- MODULE TFS --------------------------------
(***************************************************************************)
(* The trivial filesystem, fs/tfs.c, on a disk that may fail and in a      *)
(* machine that may stop.                                                  *)
(*                                                                         *)
(* A call keeps tfs->lock from its first transfer to its last, so at most  *)
(* one call is under way.  Its reads, and what it computes from them, are  *)
(* the step that begins it: nobody else changes the disk meanwhile, and a  *)
(* read that fails leaves the disk as it is.  Each block it writes is a    *)
(* step of its own.  A call that only reads changes nothing on the disk    *)
(* and is an operator; the properties evaluate it in every state.          *)
(*                                                                         *)
(* disk maps block numbers to contents: the magic number in the header     *)
(* block, the set of blocks in use, the directory, then inodes and data.   *)
(* What the image on the host does not hold yet reads as zeros.            *)
(***************************************************************************)
EXTENDS Integers, Sequences, FiniteSets

CONSTANTS
    Thread,       \* threads that use files
    Name,         \* file names
    NoName,       \* the empty name
    MaxFiles,     \* TFS_MAX_FILES
    TotalBlocks,  \* blocks of the disk, at most 8 * TFS_BLOCK_SIZE
    BlockSize,    \* TFS_BLOCK_SIZE
    BlocksMax,    \* TFS_BLOCKS_MAX
    Byte,         \* values of a byte, zero among them
    Sizes,        \* bound: sizes of files that programs create
    Payloads,     \* bound: byte sequences that programs write
    MaxFaults     \* bound: disk errors and crashes

TFS_HEADER_BLOCK     == 0
TFS_ALLOCATION_BLOCK == 1
TFS_DIRECTORY_BLOCK  == 2
SystemBlocks == {TFS_HEADER_BLOCK, TFS_ALLOCATION_BLOCK, TFS_DIRECTORY_BLOCK}

TFS_MAGIC == 3745
Block == 0 .. (TotalBlocks - 1)
Slot  == 0 .. (MaxFiles - 1)

ASSUME TFSAssumption ==
    /\ MaxFiles \in Nat \ {0} /\ BlockSize \in Nat \ {0} /\ BlocksMax \in Nat
    /\ TotalBlocks \in 3 .. (8 * BlockSize)
    /\ 0 \in Byte /\ Byte \subseteq Nat
    /\ NoName \notin Name /\ Sizes \subseteq Nat /\ MaxFaults \in Nat

VARIABLES
    image,      \* the image on the host: none, part of one, or whole
    disk,       \* the blocks on the disk
    mounted,    \* is the volume mounted: tfs_init returned a filesystem
    buffer_md,  \* the directory buffer, which all calls share
    call,       \* the call that keeps tfs->lock, with the writes it still has to do
    opening,    \* slot that tfs_open found, while it returns without the lock
    handle,     \* the file each thread has open
    faults,     \* counts disk errors and crashes
    files,      \* history: the files on the volume, as the calls promised
    cut,        \* history: the calls cut short, by what they left behind
    mixed       \* history: a call went on where a call cut short, or a removal, left the
                \* blocks of a file to others

media == <<image, disk, mounted, faults>>
history == <<files, cut, mixed>>
vars == <<media, buffer_md, call, opening, handle, history>>

\* The flag removed is history: tfs_remove was called for the file since
\* tfs_open found it.
NoCall     == [name |-> NoName, todo |-> <<>>, after |-> <<>>]
NoHandle   == [name |-> NoName, fileid |-> 0, removed |-> FALSE]
NotOpening == [name |-> NoName, slot |-> 0, removed |-> FALSE]
NothingCut == [left \in {"leak", "partial", "torn", "loose"} |-> {}]

-----------------------------------------------------------------------------
(* Blocks *)

FreeEntry == [inode |-> 0, name |-> NoName]
Inode(size, block) == [filesize |-> size, block |-> block]
Data(bytes) == [bytes |-> bytes]
ZeroBytes(n) == [i \in 1 .. n |-> 0]
ZeroBlock == Data(ZeroBytes(BlockSize))
Header == [magic |-> TFS_MAGIC]

\* A block that a cut tfs_create did not zero may still hold an old inode: its
\* bytes do not matter, no property looks at them.
Bytes(contents) ==
    IF "bytes" \in DOMAIN contents THEN contents.bytes ELSE ZeroBytes(BlockSize)

Lesser(a, b) == IF a < b THEN a ELSE b
BlocksFor(size) == (size + BlockSize - 1) \div BlockSize
NoFiles == [s \in Slot |-> FreeEntry]
NoVolume == \* nothing but zeros
    [b \in Block |-> CASE b = TFS_ALLOCATION_BLOCK -> {}
                       [] b = TFS_DIRECTORY_BLOCK -> NoFiles
                       [] OTHER -> ZeroBlock]

Directory == disk[TFS_DIRECTORY_BLOCK]
InUse == disk[TFS_ALLOCATION_BLOCK]
FreeSlots == {s \in Slot : Directory[s].inode = 0}
Find(n) == {s \in Slot : Directory[s].name = n}
SlotOf(n) == CHOOSE s \in Find(n) : \A r \in Find(n) : s <= r

\* bitmap_findnset, k times: the lowest k blocks that are free.
FindNSet(used, k) ==
    LET found[i \in 0 .. k] ==
          IF i = 0 THEN <<>>
          ELSE LET left == (Block \ used) \ {found[i - 1][j] : j \in 1 .. (i - 1)}
               IN  Append(found[i - 1], CHOOSE b \in left : \A c \in left : b <= c)
    IN  found[k]

IsInode(b) == b \in Block \ SystemBlocks /\ "filesize" \in DOMAIN disk[b]

\* Block b, read as an inode: zeros are an empty file, and a block that holds
\* data is not one that anything could be said of.
InodeAt(b) == IF IsInode(b) THEN disk[b] ELSE Inode(0, <<>>)
Garbled(b) == ~IsInode(b) /\ disk[b] # ZeroBlock

BlocksOf(inode) == {InodeAt(inode).block[i] : i \in 1 .. Len(InodeAt(inode).block)}

-----------------------------------------------------------------------------
(* Reads and writes at an offset, in pieces of at most a block *)

\* The pieces of n bytes from offset: the first may start inside its block,
\* the last may end inside its block.
Pieces(offset, n) ==
    LET b1 == offset \div BlockSize
        b2 == (offset + n - 1) \div BlockSize
        first == Lesser(BlockSize - (offset % BlockSize), n)
        Before(k) == IF k = 0 THEN 0 ELSE first + (k - 1) * BlockSize
    IN  [k \in 1 .. (b2 - b1 + 1) |->
            [index |-> b1 + k,
             at    |-> IF k = 1 THEN offset % BlockSize ELSE 0,
             from  |-> Before(k - 1),
             len   |-> CASE k = 1 -> first
                         [] k > 1 /\ b1 + k - 1 = b2 -> n - Before(k - 1)
                         [] OTHER -> BlockSize]]

VFS_ERROR == <<-1>>

BadFileId(fileid) == fileid < 2 \/ fileid > TotalBlocks
BadOffset(fileid, offset) == offset < 0 \/ offset > InodeAt(fileid).filesize

\* The bytes tfs_read puts into the buffer, or an error.
Read(fileid, size, offset) ==
    IF BadFileId(fileid) \/ BadOffset(fileid, offset) THEN VFS_ERROR
    ELSE LET n == Lesser(size, disk[fileid].filesize - offset)
             p == Pieces(offset, n)
             got[k \in 0 .. Len(p)] ==
                 IF k = 0 THEN <<>>
                 ELSE got[k - 1] \o SubSeq(Bytes(disk[disk[fileid].block[p[k].index]]),
                                           p[k].at + 1, p[k].at + p[k].len)
         IN  IF n = 0 THEN <<>> ELSE got[Len(p)]

\* Fault: a partial write does not read the block first.
Patch_Fault(bytes, p, data) ==
    [i \in 1 .. BlockSize |->
        IF i > p.at /\ i <= p.at + p.len THEN data[p.from + i - p.at] ELSE 0]

\* A block after a piece of data was copied into it; the rest of it is kept
\* because the block is read first.
Patch(bytes, p, data) ==
    [i \in 1 .. BlockSize |->
        IF i > p.at /\ i <= p.at + p.len THEN data[p.from + i - p.at] ELSE bytes[i]]

Overwrite(bytes, offset, data) == \* what a write is meant to do
    [i \in 1 .. Len(bytes) |->
        IF i > offset /\ i <= offset + Len(data) THEN data[i - offset] ELSE bytes[i]]

-----------------------------------------------------------------------------
(* Calls that only read *)

GetFree == (TotalBlocks - Cardinality(InUse \cap Block)) * BlockSize
FileCount == Cardinality({s \in Slot : Directory[s].inode # 0})

\* tfs_file passes index files and returns the name in the slot behind them.
FileAt(index) ==
    LET passed[s \in 0 .. MaxFiles] ==
          IF s = 0 THEN 0
          ELSE passed[s - 1] + (IF Directory[s - 1].inode # 0 THEN 1 ELSE 0)
        ends == {s \in 0 .. MaxFiles : passed[s] >= index}
        i == IF ends = {} THEN MaxFiles ELSE CHOOSE s \in ends : \A r \in ends : s <= r
    IN  IF i < MaxFiles THEN Directory[i].name ELSE VFS_ERROR

-----------------------------------------------------------------------------
(* Mounting *)

NoHandles == handle' = [t \in Thread |-> NoHandle] /\ opening' = [t \in Thread |-> NotOpening]

Init ==
    /\ image = "none" /\ disk = NoVolume /\ mounted = FALSE /\ faults = 0
    /\ buffer_md = NoFiles /\ call = NoCall
    /\ opening = [t \in Thread |-> NotOpening]
    /\ handle = [t \in Thread |-> NoHandle]
    /\ files = <<>> /\ cut = NothingCut /\ mixed = FALSE

\* The volume is followed no further: its image is deleted on the host, or
\* what a call does depends on data that it takes for something else.
LoseVolume ==
    /\ image' = "none" /\ disk' = NoVolume /\ mounted' = FALSE
    /\ buffer_md' = NoFiles /\ call' = NoCall /\ NoHandles
    /\ files' = <<>> /\ cut' = NothingCut /\ mixed' = FALSE
    /\ UNCHANGED faults

\* filesystems_try_all finds a filesystem on the disk: TFS is the only driver.
Formatted == disk[TFS_HEADER_BLOCK] = Header

\* A call enters tfs->lock.
Usable == mounted /\ call = NoCall

\* filesystems_try_all finds the volume and tfs_init initialises the driver.
\* The buffers are not read before a call fills them.
Mount ==
    /\ ~mounted /\ call = NoCall /\ Formatted
    /\ mounted' = TRUE
    /\ UNCHANGED <<image, disk, faults, buffer_md, call, opening, handle, history>>

\* vfs_unmount calls the driver only when no file is open.
Unmount ==
    /\ Usable
    /\ \A t \in Thread : handle[t] = NoHandle /\ opening[t] = NotOpening
    /\ mounted' = FALSE
    /\ buffer_md' = NoFiles
    /\ UNCHANGED <<image, disk, faults, call, opening, handle, history>>

-----------------------------------------------------------------------------
(* Opening and closing *)

Idle(t) == handle[t] = NoHandle /\ opening[t] = NotOpening

Found(n, s) == [name |-> n, slot |-> s, removed |-> FALSE]

\* Fault: a name that is not found is not noticed, i is behind the directory.
Open_Fault(t, n) ==
    /\ Usable /\ Idle(t)
    /\ buffer_md' = Directory
    /\ opening' = [opening EXCEPT ![t] = Found(n, IF Find(n) = {} THEN MaxFiles ELSE SlotOf(n))]
    /\ UNCHANGED <<media, call, handle, history>>

\* tfs_open, up to semaphore_V.
Open(t, n) ==
    /\ Usable /\ Idle(t)
    /\ buffer_md' = Directory
    /\ opening' = IF Find(n) = {} THEN opening
                  ELSE [opening EXCEPT ![t] = Found(n, SlotOf(n))]
    /\ UNCHANGED <<media, call, handle, history>>

\* The inode number is read from the shared buffer after the lock was
\* released; vfs_open takes a negative one for an error.
OpenReturn(t) ==
    LET inode == buffer_md[opening[t].slot].inode
    IN  /\ opening[t] # NotOpening
        /\ handle' = [handle EXCEPT ![t] =
                         IF inode < 0 THEN NoHandle
                         ELSE [name |-> opening[t].name, fileid |-> inode,
                               removed |-> opening[t].removed]]
        /\ opening' = [opening EXCEPT ![t] = NotOpening]
        /\ UNCHANGED <<media, buffer_md, call, history>>

Close(t) ==
    /\ handle[t] # NoHandle
    /\ handle' = [handle EXCEPT ![t] = NoHandle]
    /\ UNCHANGED <<media, buffer_md, call, opening, history>>

\* tfs_filecount and tfs_file fill the directory buffer.
ReadDirectory ==
    /\ Usable
    /\ buffer_md' = Directory
    /\ UNCHANGED <<media, call, opening, handle, history>>

-----------------------------------------------------------------------------
(* Calls that write.  Each write names the block, its new contents, and    *)
(* what is left behind when the call is cut short before it:               *)
(*   none    nothing changed                                               *)
(*   leak    blocks are marked as used and belong to no file               *)
(*   torn    the directory names a file whose inode is not written         *)
(*   loose   the directory names a file whose blocks are not marked as     *)
(*           used; with the name NoName, the system blocks are not         *)
(*   partial the file is there, parts of its data are not written          *)

Write(block, contents, ifcut) == [block |-> block, contents |-> contents, ifcut |-> ifcut]

\* A call begins that is going to mix the blocks of files, or not.
Begin(n, todo, after, mixes) ==
    /\ call' = [name |-> n, todo |-> todo, after |-> after]
    /\ mixed' = (mixed \/ mixes)
    /\ UNCHANGED <<disk, mounted, faults, files, cut>>

Refuse == UNCHANGED <<media, call, opening, handle, history>>

\* Fault: any slot is taken, in use or not.
NewSlot_Fault == CHOOSE s \in Slot : \A r \in Slot : r <= s

\* The directory slot tfs_create takes: the last free one.
NewSlot == CHOOSE s \in FreeSlots : \A r \in FreeSlots : r <= s

\* Fault: the directory is written before the allocation block.
CreateWrites_Fault(n, size, found) ==
    LET block == Tail(found)
        used  == {found[i] : i \in 1 .. Len(found)}
    IN  << Write(TFS_DIRECTORY_BLOCK,
                 [Directory EXCEPT ![NewSlot] = [inode |-> found[1], name |-> n]], "none"),
           Write(TFS_ALLOCATION_BLOCK, InUse \cup used, "leak"),
           Write(found[1], Inode(size, block), "torn") >>
        \o [i \in 1 .. Len(block) |-> Write(block[i], ZeroBlock, "partial")]

CreateWrites(n, size, found) ==
    LET block == Tail(found)
        used  == {found[i] : i \in 1 .. Len(found)}
    IN  << Write(TFS_ALLOCATION_BLOCK, InUse \cup used, "none"),
           Write(TFS_DIRECTORY_BLOCK,
                 [Directory EXCEPT ![NewSlot] = [inode |-> found[1], name |-> n]], "leak"),
           Write(found[1], Inode(size, block), "torn") >>
        \o [i \in 1 .. Len(block) |-> Write(block[i], ZeroBlock, "partial")]

Create(n, size) ==
    LET numblocks == BlocksFor(size)
        left == Cardinality(Block \ InUse)
        found == FindNSet(InUse, numblocks + 1)
    IN  /\ Usable
        /\ \/ /\ numblocks > BlocksMax
              /\ UNCHANGED buffer_md /\ Refuse
           \/ /\ numblocks <= BlocksMax /\ (Find(n) # {} \/ FreeSlots = {})
              /\ buffer_md' = Directory /\ Refuse
           \/ /\ numblocks <= BlocksMax /\ Find(n) = {} /\ FreeSlots # {}
              /\ left < numblocks + 1
              /\ buffer_md' = [Directory EXCEPT ![NewSlot] =
                     [inode |-> IF left = 0 THEN -1 ELSE FindNSet(InUse, 1)[1], name |-> n]]
              /\ Refuse
           \/ /\ numblocks <= BlocksMax /\ Find(n) = {} /\ FreeSlots # {}
              /\ left >= numblocks + 1
              /\ buffer_md' = CreateWrites(n, size, found)[2].contents
              /\ Begin(n, CreateWrites(n, size, found),
                       [m \in DOMAIN files \cup {n} |->
                           IF m = n THEN ZeroBytes(size) ELSE files[m]],
                       cut["loose"] # {})
              /\ UNCHANGED <<image, opening, handle>>

\* The blocks tfs_remove gives back: the inode and the blocks it lists.
Freed(inode) == {inode} \cup BlocksOf(inode)

Without(n) == [m \in DOMAIN files \ {n} |-> files[m]]

\* History: the file of a thread is removed under it.
Marked(use, n) == [t \in Thread |-> IF use[t].name = n THEN [use[t] EXCEPT !.removed = TRUE]
                                   ELSE use[t]]

\* The file may be open, or tfs_open may be about to return it.
Remove(n) ==
    LET s == SlotOf(n)
        inode == Directory[s].inode
        dir == [Directory EXCEPT ![s] = FreeEntry]
    IN  /\ Usable
        /\ \/ /\ Find(n) = {}
              /\ buffer_md' = Directory /\ Refuse
           \/ /\ Find(n) # {} /\ ~Garbled(inode)
              /\ buffer_md' = dir
              /\ Begin(n, << Write(TFS_ALLOCATION_BLOCK, InUse \ Freed(inode), "none"),
                             Write(TFS_DIRECTORY_BLOCK, dir, "loose") >>,
                       Without(n), n \in cut["torn"])
              /\ opening' = Marked(opening, n) /\ handle' = Marked(handle, n)
              /\ UNCHANGED image
           \/ Find(n) # {} /\ Garbled(inode) /\ LoseVolume

\* tfs_write through the handle of a thread, whatever became of the file.
WriteFile(t, offset, data) ==
    LET fileid == handle[t].fileid
        name == handle[t].name
        inode == InodeAt(fileid)
        n == Lesser(Len(data), inode.filesize - offset)
        p == Pieces(offset, n)
        b(k) == inode.block[p[k].index]
        part == SubSeq(data, 1, n)
        others == handle[t].removed \/ name \in cut["torn"]
    IN  /\ Usable /\ handle[t] # NoHandle /\ ~BadFileId(fileid)
        /\ \/ /\ ~Garbled(fileid) /\ ~BadOffset(fileid, offset) /\ n > 0
              /\ Begin(name,
                       [k \in 1 .. Len(p) |-> Write(b(k), Data(Patch(Bytes(disk[b(k)]), p[k], data)),
                                                    IF k = 1 THEN "none" ELSE "partial")],
                       IF others THEN files ELSE [files EXCEPT ![name] = Overwrite(@, offset, part)],
                       others)
              /\ UNCHANGED <<image, buffer_md, opening, handle>>
           \/ Garbled(fileid) /\ LoseVolume

\* What a call that returned says of the files that calls cut short left behind.
Settled == [left \in DOMAIN cut |-> IF left = "leak" THEN cut[left]
                                  ELSE cut[left] \cap (DOMAIN call.after \cup {NoName})]

\* The next write of the call; after the last one the call returns.
Transfer ==
    LET w == Head(call.todo)
        last == Len(call.todo) = 1
    IN  /\ call # NoCall
        /\ disk' = [disk EXCEPT ![w.block] = w.contents]
        /\ call' = IF last THEN NoCall ELSE [call EXCEPT !.todo = Tail(@)]
        /\ files' = IF last THEN call.after ELSE files
        /\ cut' = IF last THEN Settled ELSE cut
        /\ image' = IF last /\ call.name = NoName THEN "whole" ELSE image
        /\ UNCHANGED <<mounted, buffer_md, opening, handle, faults, mixed>>

-----------------------------------------------------------------------------
(* Failures *)

\* What the call under way leaves behind when it goes no further.
CutShort ==
    LET ifcut == IF call = NoCall THEN "none" ELSE Head(call.todo).ifcut
    IN  /\ call' = NoCall
        /\ cut' = IF ifcut = "none" THEN cut ELSE [cut EXCEPT ![ifcut] = @ \cup {call.name}]
        /\ files' = IF ifcut \notin {"none", "leak"} /\ call.name \in DOMAIN call.after
                    THEN call.after ELSE files
        /\ UNCHANGED mixed

\* The disk driver returns 0 for a transfer: the call gives up the lock and
\* returns VFS_ERROR, and does not undo what it wrote.
Fail ==
    /\ mounted /\ call # NoCall /\ faults < MaxFaults
    /\ faults' = faults + 1
    /\ CutShort
    /\ UNCHANGED <<image, disk, mounted, buffer_md, opening, handle>>

\* The machine, or the host, stops: only the disk remains.
Crash ==
    /\ faults < MaxFaults
    /\ faults' = faults + 1
    /\ CutShort
    /\ mounted' = FALSE
    /\ buffer_md' = NoFiles
    /\ NoHandles
    /\ UNCHANGED <<image, disk>>

Driver ==
    \/ Mount \/ Unmount \/ ReadDirectory \/ Transfer \/ Fail \/ Crash
    \/ \E n \in Name : Remove(n) \/ (\E size \in Sizes : Create(n, size))
    \/ \E t \in Thread :
          \/ OpenReturn(t) \/ Close(t)
          \/ \E n \in Name : Open(t, n)
          \/ \E data \in Payloads, offset \in 0 .. (BlocksMax * BlockSize) :
                WriteFile(t, offset, data)

-----------------------------------------------------------------------------
(* Properties *)

Entries == {s \in Slot : Directory[s].inode # 0}

TypeOK ==
    /\ image \in {"none", "part", "whole"}
    /\ DOMAIN disk = Block
    /\ mounted \in BOOLEAN
    /\ \A s \in Slot : buffer_md[s].inode \in Block \cup {-1} /\ buffer_md[s].name \in Name \cup {NoName}
    /\ call.name \in Name \cup {NoName} /\ Len(call.todo) <= TotalBlocks
    /\ \A t \in Thread : opening[t].slot \in Slot /\ handle[t].fileid \in Block
    /\ faults \in 0 .. MaxFaults
    /\ DOMAIN files \subseteq Name
    /\ DOMAIN cut = DOMAIN NothingCut /\ \A left \in DOMAIN cut : cut[left] \subseteq Name \cup {NoName}
    /\ mixed \in BOOLEAN

\* Names of the files that are left like this now: by a call cut short, or by
\* the call under way if it is cut short here.
Left(how) ==
    cut[how] \cup (IF call # NoCall /\ Head(call.todo).ifcut = how THEN {call.name} ELSE {})

Owned(s) == Freed(Directory[s].inode)

\* Whenever the machine stops or a transfer fails, and in what the calls make
\* of the volume afterwards: every file named in the directory has an inode,
\* unless its tfs_create was cut short before it wrote the inode, no block
\* belongs to two such files or to a file and the system, and names are unique.
\* Every block of a file is marked as used, unless its removal (or tfstool
\* write) was cut short between allocation block and directory, and calling
\* tfs_remove again makes that good.  Blocks marked as used belong to a file,
\* unless a tfs_create was cut short.  This holds until a call works on the
\* blocks of a file so left, or through a handle whose file was removed.
VolumeSound ==
    (Formatted /\ ~mixed) =>
        LET name(s) == Directory[s].name
            whole == {s \in Entries : name(s) \notin Left("torn")}
        IN  /\ \A s \in whole :
                  /\ IsInode(Directory[s].inode)
                  /\ Cardinality(BlocksOf(Directory[s].inode)) = Len(disk[Directory[s].inode].block)
                  /\ Directory[s].inode \notin BlocksOf(Directory[s].inode)
                  /\ Owned(s) \cap SystemBlocks = {}
                  /\ Owned(s) \subseteq InUse \/ name(s) \in Left("loose")
            /\ \A r, s \in whole : r # s => Owned(r) \cap Owned(s) = {}
            /\ \A r, s \in Entries : r # s => name(r) # name(s)
            /\ SystemBlocks \subseteq InUse \/ NoName \in Left("loose")
            /\ (Left("leak") = {} /\ whole = Entries) =>
                  InUse \subseteq SystemBlocks \cup UNION {Owned(s) : s \in Entries}

\* Every call that returned has done what it promised, and one that was cut
\* short has not changed another file: the volume holds the files that were
\* created and not removed, with what was written into them.  tfs_read returns
\* any part of a file exactly, tfs_getfree and tfs_filecount count right, and
\* tfs_file names the files when they fill the directory from its start.  Not
\* known are the data of a file whose own write was cut short, and of one whose
\* inode was not written.  This holds until a call works on the blocks of a
\* file that is left torn or loose, or through a handle whose file was removed.
FilesAsPromised ==
    (Formatted /\ ~mixed /\ call = NoCall) =>
        LET inode(n) == Directory[SlotOf(n)].inode
        IN  /\ {Directory[s].name : s \in Entries} = DOMAIN files
            /\ \A n \in DOMAIN files \ cut["torn"] : disk[inode(n)].filesize = Len(files[n])
            /\ \A n \in DOMAIN files \ (cut["torn"] \cup cut["partial"]) :
                  \A offset \in 0 .. (Len(files[n]) + 1), size \in 0 .. (Len(files[n]) + 1) :
                     Read(inode(n), size, offset) =
                        IF offset > Len(files[n]) THEN VFS_ERROR
                        ELSE SubSeq(files[n], offset + 1, Lesser(offset + size, Len(files[n])))
            /\ FileCount = Cardinality(DOMAIN files)
            /\ (Entries = 0 .. (Cardinality(Entries) - 1)) =>
                  \A s \in Entries : FileAt(s) = Directory[s].name
            /\ (cut["leak"] \cup cut["torn"] \cup cut["loose"] = {}) =>
                  GetFree = BlockSize * Cardinality(Block \ (SystemBlocks \cup
                                UNION {Owned(s) : s \in Entries}))

\* What tfs_open returned is the inode of the file as long as the file is
\* open and nobody calls tfs_remove for it, although the number was read
\* without the lock from a buffer that the calls of other threads fill.  A
\* tfs_remove between the unlock and that read makes it 0, and a tfs_create
\* after it the inode of another file.
HandleIsFile ==
    \A t \in Thread : (handle[t] # NoHandle /\ ~handle[t].removed /\ ~mixed) =>
        /\ Find(handle[t].name) # {}
        /\ handle[t].fileid = Directory[SlotOf(handle[t].name)].inode
=============================================================================
