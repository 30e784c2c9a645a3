------------------------------ MODULE VdfsImage ------------------------------
(***************************************************************************)
(* An image made by mkfs and unpacked again by unpack (unpack/unpack.c     *)
(* with lib/decompress.c): the product of the extractor is what unpack     *)
(* finds, so the two are checked together.                                 *)
(***************************************************************************)
EXTENDS Mkfs

VARIABLES
  unpack,    \* where unpack is, the names it still has to look at, the hard
             \* links it keeps for the end, the containers it has open
  target     \* the files it wrote: name -> first name of the inode, content

vars == <<mkfsVars, unpack, target>>

-----------------------------------------------------------------------------
(* Reading the image. *)

Nothing == <<"nothing", 0>>
BlockAt(b) == IF b \in DOMAIN disk.blocks THEN disk.blocks[b] ELSE TreeCell("none")
\* What a reader makes of a block it takes for data as it is, and of one it
\* takes for packed data (the decompressors).
AsItIs(cell) == IF "packed" \in DOMAIN cell /\ ~cell.packed THEN cell.data ELSE Nothing
Unpacked(cell) == IF "packed" \in DOMAIN cell /\ cell.packed THEN cell.data ELSE Nothing

\* create_file: the blocks of the fork, one by one.
PlainContent(fork) == [i \in 1 .. fork.len |-> AsItIs(BlockAt(fork.begin + i - 1))]

\* decode_file: the table is at the end of the fork (read_descriptor_info);
\* each chunk is where the table says, unpacked if it is packed.
Chunk(fork, ext) ==
  LET cell == BlockAt(fork.begin + ext.start)
  IN  IF ext.packed THEN Unpacked(cell) ELSE AsItIs(cell)
Decoded(fork, table) ==
  IF "ext" \in DOMAIN table THEN [k \in DOMAIN table.ext |-> Chunk(fork, table.ext[k])]
  ELSE <<Nothing>>
TableOf(fork) == BlockAt(fork.begin + fork.len - 1)

\* decode_file ends with an error when there is no table at the end of the fork
\* or a decompressor gets something else than packed data.
Readable(body) ==
  LET table == TableOf(body.fork)
  IN  "comp" \in body.flags =>
        /\ "ext" \in DOMAIN table
        /\ \A k \in DOMAIN table.ext :
             table.ext[k].packed => Chunk(body.fork, table.ext[k]) # Nothing

\* create_decompress_file or create_file, by the record's flags.
ContentOf(body) ==
  IF "comp" \in body.flags THEN Decoded(body.fork, TableOf(body.fork))
  ELSE PlainContent(body.fork)

-----------------------------------------------------------------------------
(* Containers are unpacked once and kept open, one of each kind            *)
(* (unpack_dlink_file).                                                    *)

IsAuthenticated(table) == "auth" \in DOMAIN table /\ table.auth

Kind(body) ==
  IF "comp" \notin body.flags THEN "plain"
  ELSE IF "signed" \in body.flags THEN "signed"
  ELSE IF "roauth" \in body.flags THEN "roauth"
  ELSE IF IsAuthenticated(TableOf(body.fork)) THEN "auth"
  ELSE "comp"

\* The plain container is known by being open, the others by their inode.
IsOpen(opened, body, ino) ==
  opened[Kind(body)].ino # 0 /\ (Kind(body) = "plain" \/ opened[Kind(body)].ino = ino)

OpenContainer(opened, body, ino) ==
  IF IsOpen(opened, body, ino) THEN opened
  ELSE [opened EXCEPT ![Kind(body)] = [ino |-> ino, cells |-> ContentOf(body)]]

CellAt(cells, at) == IF at + 1 \in DOMAIN cells THEN <<cells[at + 1]>> ELSE <<Nothing>>

-----------------------------------------------------------------------------
Trees == {"cattree", "exttree", "xattrtree"}
UnpackGo(at) == unpack' = [unpack EXCEPT !.at = at]
Put1(path, first, cells) ==
  target' = (path :> [first |-> first, cells |-> cells]) @@ target

\* init_sb_info: the first superblock says where the rest is.
Super == BlockAt(0)
ReadSuper ==
  /\ main.at = "done" /\ unpack.at = "start"
  /\ UnpackGo(IF "meta" \in DOMAIN Super THEN "tables" ELSE "failed")
  /\ UNCHANGED <<mkfsVars, target>>

\* fill_tables.  Without a table it reports no error, although it has freed
\* what is used next.
FillTables ==
  /\ unpack.at = "tables"
  /\ UnpackGo(IF "tables" \in DOMAIN BlockAt(Super.tables) THEN "trees" ELSE "undefined")
  /\ UNCHANGED <<mkfsVars, target>>

\* fill_btree: each tree is where the translation table says.
TreeAt(t) == BlockAt(Super.meta.first + BlockAt(Super.tables).tables[t])
FillTrees ==
  /\ unpack.at = "trees"
  /\ UnpackGo(IF \A t \in Trees : TreeAt(t) = TreeCell(t) THEN "folders" ELSE "failed")
  /\ UNCHANGED <<mkfsVars, target>>

\* make_folder_list, create_all_folders: every folder, wanted or not.
FolderList == {n \in DOMAIN catalog.names : catalog.names[n].type = "folder"}
Folder(path) == [first |-> path, cells |-> <<>>]
CreateFolders ==
  /\ unpack.at = "folders"
  /\ target' = [p \in FolderList |-> Folder(p)] @@ target
  /\ unpack' = [unpack EXCEPT !.at = "files", !.names = DOMAIN catalog.names \ FolderList]
  /\ UNCHANGED mkfsVars

\* The catalog is gone through in the order of its keys: by folder, by name.
ParentOf(path) ==
  IF EntryOf(path).dir \in DOMAIN catalog.names THEN catalog.names[EntryOf(path).dir].obj ELSE 0
Before(p, q) ==
  \/ ParentOf(p) < ParentOf(q)
  \/ ParentOf(p) = ParentOf(q) /\ EntryOf(p).rank < EntryOf(q).rank
FirstName(names) == CHOOSE p \in names : \A q \in names \ {p} : Before(p, q)

ObjectOf(path) == catalog.objects[catalog.names[path].obj]

\* A small file is copied out of its container, another file out of its fork.
\* A container that cannot be read is reported, and its file read all the same,
\* from a descriptor that was never set.
FromContainer(path, body, rest) ==
  LET box == catalog.objects[body.box]
      opened == OpenContainer(unpack.opened, box, body.box)
  IN  IF IsOpen(unpack.opened, box, body.box) \/ Readable(box)
      THEN /\ Put1(path, path, CellAt(opened[Kind(box)].cells, body.at))
           /\ unpack' = [rest EXCEPT !.opened = opened]
      ELSE UnpackGo("undefined") /\ UNCHANGED target

FromFork(path, body, rest) == Put1(path, path, ContentOf(body)) /\ unpack' = rest

\* unpack_files: what is not wanted is passed over, a hard link is kept; a file
\* that cannot be read ends it.
ExtractName(path, body, rest) ==
  IF path \notin plan.wanted THEN unpack' = rest /\ UNCHANGED target
  ELSE IF catalog.names[path].type = "hlink"
  THEN unpack' = [rest EXCEPT !.links = @ \cup {path}] /\ UNCHANGED target
  ELSE IF body.type = "dlink" THEN FromContainer(path, body, rest)
  ELSE IF Readable(body) THEN FromFork(path, body, rest)
  ELSE UnpackGo("failed") /\ UNCHANGED target

UnpackFile ==
  /\ unpack.at = "files" /\ unpack.names # {}
  /\ LET path == FirstName(unpack.names)
     IN  ExtractName(path, ObjectOf(path), [unpack EXCEPT !.names = @ \ {path}])
  /\ UNCHANGED mkfsVars

FilesDone ==
  /\ unpack.at = "files" /\ unpack.names = {}
  /\ UnpackGo("hlinks")
  /\ UNCHANGED <<mkfsVars, target>>

\* unpack_hlinks: sorted by object; the first name of an object is written,
\* the others are linked to it, even when it could not be read to its end.
FirstLink(links) ==
  CHOOSE p \in links : \A q \in links \ {p} :
    \/ catalog.names[p].obj < catalog.names[q].obj
    \/ catalog.names[p].obj = catalog.names[q].obj /\ Before(p, q)

SameObject(path) ==
  {q \in DOMAIN target : catalog.names[q] = catalog.names[path]}

CreateLink(path, rest) ==
  IF SameObject(path) = {}
  THEN IF ObjectOf(path).type = "dlink" THEN FromContainer(path, ObjectOf(path), rest)
       ELSE FromFork(path, ObjectOf(path), rest)
  ELSE /\ target' = (path :> target[CHOOSE q \in SameObject(path) : TRUE]) @@ target
       /\ unpack' = rest

UnpackHlink ==
  /\ unpack.at = "hlinks" /\ unpack.links # {}
  /\ CreateLink(FirstLink(unpack.links), [unpack EXCEPT !.links = @ \ {FirstLink(unpack.links)}])
  /\ UNCHANGED mkfsVars

HlinksDone ==
  /\ unpack.at = "hlinks" /\ unpack.links = {}
  /\ UnpackGo("done")
  /\ UNCHANGED <<mkfsVars, target>>

-----------------------------------------------------------------------------
Init ==
  /\ MkfsInit
  /\ unpack = [at |-> "start", names |-> {}, links |-> {},
               opened |-> [kind \in Range(BoxOrder) |-> NoBox]]
  /\ target = <<>>

UnpackNext ==
  \/ ReadSuper \/ FillTables \/ FillTrees \/ CreateFolders
  \/ UnpackFile \/ FilesDone \/ UnpackHlink \/ HlinksDone

Next == (MkfsNext /\ UNCHANGED <<unpack, target>>) \/ UnpackNext

Spec == Init /\ [][Next]_vars
FairSpec ==
  /\ Spec
  /\ WF_vars(MainStep /\ UNCHANGED <<unpack, target>>)
  /\ \A t \in Threads :
       /\ WF_vars(FileStep(t) /\ UNCHANGED <<unpack, target>>)
       /\ WF_vars(ChunkStep(t) /\ UNCHANGED <<unpack, target>>)
  /\ WF_vars(UnpackNext)

-----------------------------------------------------------------------------
(* Properties. *)

\* No write of its data, or of its container's, failed without being noticed.
Spared(path) == {catalog.names[path].obj, ObjectOf(path).box} \cap faults.lost = {}

\* What unpack writes is what was wanted of the source directory: each wanted
\* file has its content, whichever of the four ways it took (copied, compressed
\* by threads, in a container, shared with an equal one), but for the file or
\* the files of the one container whose data mkfs lost without noticing; two
\* names are one file exactly when they were, and no other file appears.
RestoresWanted ==
  unpack.at = "done" =>
    /\ \A p \in plan.wanted :
         /\ p \in DOMAIN target
         /\ Spared(p) => target[p].cells = Content(EntryOf(p))
         /\ \A q \in plan.wanted :
              target[p].first = target[q].first <=> EntryOf(p).ino = EntryOf(q).ino
    /\ \A p \in DOMAIN target \ plan.wanted : EntryOf(p).kind = "dir"

ForkBlocks(fork) == fork.begin .. fork.begin + fork.len - 1
\* The areas of a finished image: the data of the objects (one area when
\* objects share it), the metadata, the fixed areas.
DataAreas ==
  {ForkBlocks(catalog.objects[o].fork) :
     o \in {x \in DOMAIN catalog.objects : catalog.objects[x].fork.begin # 0}}
MetaArea == disk.meta.first .. disk.meta.first + disk.meta.count - 1

\* No two areas of the image overlap, and a block that holds any of them is
\* not given out again: threads of files, the main thread and the metadata
\* all take space from one space manager, each at an offset computed earlier.
AreasDisjoint ==
  /\ \A a, b \in DataAreas : a # b => a \cap b = {}
  /\ \A a \in DataAreas : a \cap (disk.fixed \cup MetaArea) = {}
  /\ disk.fixed \cap MetaArea = {}
  /\ \A a \in DataAreas \cup {disk.fixed, MetaArea} :
       \A b \in a : disk.meta.first > 0 \/ a # MetaArea => Taken(disk.space, b)

\* The space manager's list of free extents and its bitmap of used blocks are
\* changed by code of their own for each way an extent is cut; they agree
\* whatever the main thread and the threads of files ask for.
SpaceSound == Sound(disk.space)

\* A failure the code checks for is not forgotten on its way: mkfs reports
\* success only when no thread met one, and refuses a read-only image only when
\* one did or the list is wrong.  (What WriteLost loses is not checked for.)
VerdictHonest ==
  /\ main.at = "done" => faults.seen = 0
  /\ main.at = "failed" /\ plan.readOnly =>
       faults.seen > 0 \/ \E i \in DOMAIN plan.list : BadLine(plan.list[i])

\* A block that was given out and written is not written over by anyone, by no
\* thread and by no truncation of the image.  Only the superblocks, cleared at
\* the start, are written again at the end; and once a write was lost, which
\* leaves a table where the image ended, the last step of mkfs may write over
\* that, when it puts the metadata where it has its place.
KeepsData ==
  [][\A b \in DOMAIN disk.blocks \ {0, 1} :
       Taken(disk.space, b) =>
         \/ b \in DOMAIN disk'.blocks /\ disk'.blocks[b] = disk.blocks[b]
         \/ faults.lost # {} /\ main.at = "flush"]_disk

\* Making and unpacking the image comes to an end, whatever the threads
\* do: main never waits for a count that nobody will bring down.  The two other
\* ends are hazards of the code: a thread that sleeps through its exit signal
\* (stuck), and a frame left while threads still use it or the free list of a
\* full image read through a null pointer (undefined).
Ends ==
  <>(\/ unpack.at \in {"done", "failed", "undefined"}
     \/ main.at \in {"failed", "stuck", "undefined"})
===============================================================================
