------------------------------ MODULE TfsTool ------------------------------
(***************************************************************************)
(* The host tool util/tfstool.c beside the driver of fs/tfs.c: both work   *)
(* on the same volume, the tool while the machine does not run.  The tool  *)
(* may be stopped between two blocks it writes.                            *)
(***************************************************************************)
EXTENDS TFS

CONSTANT HostFiles   \* bound: contents of files on the host

ByTool == UNCHANGED <<buffer_md, opening, handle>>

\* tfstool create: refuses an image that exists.  The header comes first, then
\* the allocation block, an empty directory and empty data blocks.
CreateVol ==
    /\ image = "none"
    /\ image' = "part"
    /\ Begin(NoName, << Write(TFS_HEADER_BLOCK, Header, "none"),
                        Write(TFS_ALLOCATION_BLOCK, SystemBlocks, "loose"),
                        Write(TFS_DIRECTORY_BLOCK, NoFiles, "none") >>
                     \o [i \in 1 .. (TotalBlocks - 3) |-> Write(i + 2, ZeroBlock, "none")],
             <<>>, FALSE)
    /\ ByTool

\* The tool opens the image and does not look at the magic number.
MayUse == ~mounted /\ call = NoCall /\ image = "whole"

\* The image is deleted on the host, or the tool works on one whose creation
\* was cut short: it then takes what it did not read for a directory.
DeleteImage == ~mounted /\ call = NoCall /\ image # "none" /\ LoseVolume

\* The blocks the tool takes for a file: it reads until the end of the file
\* shows, so a file that fills its last block gets a block more, unless it has
\* the maximal size.
ToolBlocks(size) ==
    IF size = BlocksMax * BlockSize THEN BlocksMax ELSE (size \div BlockSize) + 1

\* The bytes of block i; fread leaves what was in the buffer behind the end.
ToolData(source, i, junk) ==
    Data([j \in 1 .. BlockSize |->
            IF (i - 1) * BlockSize + j <= Len(source) THEN source[(i - 1) * BlockSize + j] ELSE junk])

\* The directory slot the tool takes: the first free one.
ToolSlot == CHOOSE s \in FreeSlots : \A r \in FreeSlots : s <= r

\* tfstool write: data first, then inode, directory and allocation block.  When
\* the file does not fit, only blocks that stay free have been written.
ToolWrite(n, source, junk) ==
    LET size == Len(source)
        k == ToolBlocks(size)
        left == Cardinality(Block \ InUse)
        fits == k <= BlocksMax /\ left >= k + 1
        found == FindNSet(InUse, IF fits THEN k + 1 ELSE Lesser(left, BlocksMax + 1))
        block == Tail(found)
        data == [i \in 1 .. Len(block) |-> Write(block[i], ToolData(source, i, junk), "none")]
        dir == [Directory EXCEPT ![ToolSlot] = [inode |-> found[1], name |-> n]]
    IN  /\ MayUse /\ FreeSlots # {} /\ Find(n) = {} /\ left > 0
        /\ (fits \/ Len(block) > 0)
        /\ IF fits
           THEN Begin(n, data \o << Write(found[1], Inode(size, block), "none"),
                                    Write(TFS_DIRECTORY_BLOCK, dir, "none"),
                                    Write(TFS_ALLOCATION_BLOCK,
                                          InUse \cup {found[i] : i \in 1 .. Len(found)}, "loose") >>,
                      [m \in DOMAIN files \cup {n} |-> IF m = n THEN source ELSE files[m]],
                      cut["loose"] # {})
           ELSE Begin(n, data, files, cut["loose"] # {})
        /\ ByTool /\ UNCHANGED image

\* tfstool delete.
ToolDelete(n) ==
    LET inode == Directory[SlotOf(n)].inode
    IN  /\ MayUse /\ Find(n) # {} /\ ~Garbled(inode)
        /\ Begin(n, << Write(TFS_ALLOCATION_BLOCK, InUse \ Freed(inode), "none"),
                       Write(TFS_DIRECTORY_BLOCK,
                             [Directory EXCEPT ![SlotOf(n)] = FreeEntry], "loose") >>,
                 Without(n), n \in cut["torn"])
        /\ ByTool /\ UNCHANGED image

\* Fault: the last block is copied whole.
ToolRead_Fault(n) ==
    LET inode == disk[Directory[SlotOf(n)].inode]
        got[i \in 0 .. Len(inode.block)] ==
            IF i = 0 THEN <<>> ELSE got[i - 1] \o Bytes(disk[inode.block[i]])
    IN  got[Len(inode.block)]

\* tfstool read: block after block, as long as the inode lists one.
ToolRead(n) ==
    LET inode == disk[Directory[SlotOf(n)].inode]
        got[i \in 0 .. Len(inode.block)] ==
            IF i = 0 THEN <<>>
            ELSE got[i - 1] \o SubSeq(Bytes(disk[inode.block[i]]), 1,
                                      Lesser(BlockSize, inode.filesize - Len(got[i - 1])))
    IN  got[Len(inode.block)]

\* tfstool list: name, size and blocks of every file.
ToolList == {<<Directory[s].name, InodeAt(Directory[s].inode).filesize, BlocksOf(Directory[s].inode)>> :
                s \in Entries}

Next ==
    \/ Driver
    \/ CreateVol \/ DeleteImage
    \/ \E n \in Name : \/ ToolDelete(n)
                       \/ \E source \in HostFiles, junk \in Byte : ToolWrite(n, source, junk)

Spec == Init /\ [][Next]_vars

\* The tool reads and lists what the driver's calls promised, and the driver
\* what the tool wrote (FilesAsPromised), although the two lay files out
\* differently and either may be cut short, as long as FilesAsPromised speaks
\* of the file.
ToolAgrees ==
    (Formatted /\ ~mixed /\ call = NoCall) =>
        LET known == DOMAIN files \ cut["torn"]
        IN  /\ \A n \in known \ cut["partial"] : ToolRead(n) = files[n]
            /\ {<<e[1], e[2]>> : e \in {f \in ToolList : f[1] \notin cut["torn"]}} =
                  {<<n, Len(files[n])>> : n \in known}
=============================================================================
