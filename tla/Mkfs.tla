--------------------------------- MODULE Mkfs ---------------------------------
(***************************************************************************)
(* The making of an image (mkfs/mkfs.c with lib/compress.c,                *)
(* lib/disk_op.c, lib/snapshot.c and lib/flush_metadata.c): the main       *)
(* thread, which enters the directory in the catalog, has the listed files *)
(* compressed, copies the rest, packs small files into containers and      *)
(* places the metadata; and the two pools of threads it feeds, one thread  *)
(* per file (files) and one per chunk of a file (chunkers).                *)
(*                                                                         *)
(* Sizes are in chunks: a block of the model holds one chunk of a large    *)
(* file or the whole of a small one, and one more block holds the table of *)
(* chunks behind a compressed file.  The content of a file is the sequence *)
(* of its chunks <<data, i>>.                                              *)
(***************************************************************************)
EXTENDS SpaceManager, Sequences, SequencesExt, FiniteSets, TLC

CONSTANTS
  Plans,         \* what mkfs may be called with (see PlanAssumption)
  Processors,    \* threads in each pool
  MaxFaults      \* failures of reads, writes and compression in a run

\* As many as the machine has processors (sysconf); -1 is no thread as well.
ASSUME ProcessorsAssumption == Processors \in Int

\* A plan: readOnly; key (an RSA key is given); blocks (size of a sized
\* image); entries, in the order readdir gives them, a folder before what is
\* in it; list, the lines of the list of files and folders to compress; raw,
\* the chunks that do not get smaller.  Folders hold no folders, no two
\* entries have one path, no file is itself a compressed one (encode_file
\* would refuse it), a file is listed once, a symbolic link is shorter than a
\* chunk, a sized image has none, and no accepted list asks for the signed
\* container: is_dlink does not know it, so that a small one would be entered
\* as part of a container itself.
ASSUME PlanAssumption ==
  \A p \in Plans :
    /\ p.entries \in Seq(Range(p.entries)) /\ p.list \in Seq(Range(p.list))
    /\ p.readOnly \in BOOLEAN /\ (~p.readOnly => p.blocks \in Nat \ {0})
    /\ \A i \in DOMAIN p.entries :
         /\ p.entries[i].cells \in Nat
         /\ p.entries[i].kind \in {"reg", "link", "dir"}
         /\ p.entries[i].small => p.entries[i].cells = 1
         /\ p.entries[i].kind = "link" => p.readOnly /\ p.entries[i].small
    /\ \A i, j \in DOMAIN p.entries : i # j => p.entries[i].path # p.entries[j].path
    /\ \A i \in DOMAIN p.list : \E j \in DOMAIN p.entries : p.entries[j].path = p.list[i].path
    /\ \A i \in DOMAIN p.list : p.list[i].word = "DLINK" => ~p.readOnly \/ ~p.key
    /\ \A i, j \in DOMAIN p.list : i # j => p.list[i].path # p.list[j].path

VARIABLES
  plan,
  main,       \* where the main thread is, its loop counter and running offset
  catalog,    \* names, objects, hard links, last inode number (cattree, hlink)
  disk,       \* space, blocks of the image, known data ranges, metadata extent
  boxes,      \* the containers of small files (dl_inf)
  files, chunkers,   \* the threads (thread_file, thread)
  frames,     \* the counters and error cells the threads report to
  faults      \* failures so far: how many the code checked for (seen), the
              \* objects hit by one it does not check for (lost)

mkfsVars == <<plan, main, catalog, disk, boxes, files, chunkers, frames, faults>>
pools == <<files, chunkers, frames>>

MayFail == faults.seen + Cardinality(faults.lost) < MaxFaults
FailureSeen == faults' = [seen |-> faults.seen + 1, lost |-> faults.lost]
FailureLost(obj) == faults' = [seen |-> faults.seen, lost |-> faults.lost \cup {obj}]

-----------------------------------------------------------------------------
(* The source directory and the catalog. *)

Threads == 1 .. Processors
Content(e) == [i \in 1 .. e.cells |-> <<e.data, i>>]
EntryOf(path) == plan.entries[CHOOSE i \in DOMAIN plan.entries : plan.entries[i].path = path]
LinkCount(e) == Cardinality({i \in DOMAIN plan.entries : plan.entries[i].ino = e.ino})

Fork(begin, len) == [begin |-> begin, len |-> len]
Body(type, cells) ==
  [type |-> type, flags |-> {}, fork |-> Fork(0, cells), box |-> 0, at |-> 0]
Name(type, obj) == [type |-> type, obj |-> obj]

\* The type insert_record chooses before it looks at hard links.
BodyType(e) ==
  IF e.kind = "dir" THEN "folder"
  ELSE IF plan.readOnly /\ e.small THEN "dlink" ELSE "file"

\* Records entered in the catalog, or blocks of the image written, which
\* replace those of the same key (the @@ of TLC is a function the prover does
\* not look into).
Entered(new, old) ==
  [x \in DOMAIN new \cup DOMAIN old |-> IF x \in DOMAIN new THEN new[x] ELSE old[x]]

EnterOwn(c, e, obj) ==
  [c EXCEPT !.names = (e.path :> Name(BodyType(e), obj)) @@ @,
            !.objects = Entered([o \in {obj} |-> Body(BodyType(e), e.cells)], @),
            !.last = obj]
EnterFirstLink(c, e, obj) ==
  [c EXCEPT !.names = (e.path :> Name("hlink", obj)) @@ @,
            !.links = Append(@, [ino |-> e.ino, obj |-> obj, path |-> e.path]),
            !.last = obj]
\* The list of hard links (hl_list_insert) is sorted by object; objects are
\* numbered in order, so that a new one goes to the end.
LinksOf(c, ino) == {l \in Range(c.links) : l.ino = ino}
\* A further link gives its number back (test_and_clear_inode_n).
EnterLink(c, e) ==
  [c EXCEPT !.names = (e.path :> Name("hlink", (CHOOSE l \in LinksOf(c, e.ino) : TRUE).obj)) @@ @]

FreeInode(c) == c.last + 1

\* insert_record with a name.
InsertRecord(c, e) ==
  IF e.kind = "dir" \/ LinkCount(e) = 1 THEN EnterOwn(c, e, FreeInode(c))
  ELSE IF LinksOf(c, e.ino) # {} THEN EnterLink(c, e)
  ELSE EnterFirstLink(c, e, FreeInode(c))

\* The record of a hard-linked object, without a name (insert_hlinks_metadata).
SharedBodies(c) ==
  [c EXCEPT !.objects = Entered(
     [o \in {l.obj : l \in Range(c.links)} |->
        LET e == EntryOf((CHOOSE l \in Range(c.links) : l.obj = o).path)
        IN  Body(BodyType(e), e.cells)], @)]

\* vdfs4_cattree_find: the record under a name.
RecordOf(path) == catalog.names[path]

SetFork(c, obj, fork) == [c EXCEPT !.objects[obj].fork = fork]
AddFlags(c, obj, flags) == [c EXCEPT !.objects[obj].flags = @ \cup flags]
Flagged(c, obj, flag) == flag \in c.objects[obj].flags

-----------------------------------------------------------------------------
(* The blocks of the image. *)

DataCell(data, packed) == [data |-> data, packed |-> packed]
\* compress_zlib_chunk and its kin.
Packed(data) == DataCell(data, TRUE)
TableCell(ext, auth) == [ext |-> ext, auth |-> auth]
TreeCell(name) == [tree |-> name]
TablesCell(table) == [tables |-> table]
SuperCell(meta, tables) == [meta |-> meta, tables |-> tables]

PlainCells(cells) == [i \in DOMAIN cells |-> DataCell(cells[i], FALSE)]

EndOf(blocks) == Max(DOMAIN blocks) + 1       \* fstat: the file grows as it is written
Put(blocks, start, cells) ==
  Entered([b \in {start + i - 1 : i \in DOMAIN cells} |-> cells[b - start + 1]], blocks)
Truncate(blocks, len) == [b \in {x \in DOMAIN blocks : x < len} |-> blocks[b]]

SameData(blocks, a, b, len) ==
  \A k \in 0 .. len - 1 :
    /\ {a + k, b + k} \subseteq DOMAIN blocks
    /\ blocks[a + k] = blocks[b + k]

\* find_data_duplicate over the ranges written so far, newest first; 0: none.
DuplicateOf(d, start, len) ==
  LET found == SelectInSeq(d.ranges, LAMBDA r :
                 r.len = len /\ SameData(d.blocks, r.begin, start, len))
  IN  IF found = 0 THEN 0 ELSE d.ranges[found].begin

AddRange(d, fork) == IF plan.readOnly THEN [d EXCEPT !.ranges = <<fork>> \o @] ELSE d

\* copy_file_to_image at a given offset, then add_data_range.
CopyTo(d, grant, cells) ==
  [d EXCEPT !.space = grant.space, !.blocks = Put(@, grant.addr, PlainCells(cells))]

-----------------------------------------------------------------------------
(* The containers small files are packed into (copy_file_to_dlink). *)

BoxOrder == <<"signed", "roauth", "auth", "comp", "plain">>
NoBox == [ino |-> 0, cells |-> <<>>, ranges |-> <<>>]

\* The container a record's flags choose.
BoxOf(flags) ==
  IF "signed" \in flags THEN "signed"
  ELSE IF "roauth" \in flags THEN "roauth"
  ELSE IF "auth" \in flags THEN "auth"
  ELSE IF "comp" \in flags THEN "comp" ELSE "plain"

\* Where the entry's data is in the container: behind all, or with its twin
\* at place at (-1: no twin; a twin at the very front does not count).  The
\* target of a symbolic link is never looked for.
BoxOffset(box, e, at) ==
  IF e.kind = "link" THEN Len(box.cells)
  ELSE IF at \in {-1, 0} THEN Len(box.cells) ELSE at

\* The newest range of the container that holds the same data.
TwinOf(box, e) ==
  LET found == SelectInSeq(box.ranges, LAMBDA r : box.cells[r + 1] = <<e.data, 1>>)
  IN  IF found = 0 THEN -1 ELSE box.ranges[found]

FillBox(box, e, at) ==
  IF at < Len(box.cells) THEN box
  ELSE [box EXCEPT !.cells = Append(@, <<e.data, 1>>),
                   !.ranges = IF e.kind = "link" THEN @ ELSE <<at>> \o @]

\* The container is created, with an inode of its own, when it is first used.
OpenBox(class) ==
  IF boxes[class].ino # 0 THEN boxes[class] ELSE [NoBox EXCEPT !.ino = FreeInode(catalog)]

PackInto(class, box, at, e, obj) ==
  /\ boxes' = [boxes EXCEPT ![class] = FillBox(box, e, at)]
  /\ catalog' = [catalog EXCEPT
       !.last = IF boxes[class].ino = 0 THEN box.ino ELSE @,
       !.objects[obj].box = box.ino,
       !.objects[obj].at = at,
       !.objects[obj].flags = IF class = "plain" THEN @ ELSE {}]

CopyToBox(class, e, obj) ==
  PackInto(class, OpenBox(class),
           BoxOffset(OpenBox(class), e, TwinOf(OpenBox(class), e)), e, obj)

-----------------------------------------------------------------------------
(* The main thread. *)

Goto(at) == main' = [main EXCEPT !.at = at, !.i = 1]
Advance == main' = [main EXCEPT !.i = @ + 1]
\* Any error leads to err_destroy_all: the threads are ended, the image removed.
FailWith == main' = [main EXCEPT !.at = "exit", !.i = 1, !.error = TRUE]
At(phase, len) == main.at = phase /\ main.i <= len
Past(phase, len) == main.at = phase /\ main.i > len
Entry == plan.entries[main.i]

\* parse_list_cmd: DLINK asks for compression as well.
Commands(word) == {"compress"} \cup (IF word = "DLINK" THEN {"dlink"} ELSE {})
BadLine(line) ==
  \/ line.word \notin {"COMPRESS", "DLINK"}
  \/ line.word = "DLINK" /\ (~plan.readOnly \/ ~plan.key)
\* Each line of the list goes to the front of the tasks.
Tasks == Reverse([i \in DOMAIN plan.list |->
                    [path |-> plan.list[i].path, cmd |-> Commands(plan.list[i].word)]])

\* preprocess_sq_tasklist, before there are threads to end.
ReadList ==
  /\ main.at = "list"
  /\ Goto(IF \E i \in DOMAIN plan.list : BadLine(plan.list[i]) THEN "failed" ELSE "metadata")
  /\ UNCHANGED <<plan, catalog, disk, boxes, pools, faults>>

\* insert_metadata, one name at a time; then insert_hlinks_metadata.
InsertMetadata ==
  /\ At("metadata", Len(plan.entries))
  /\ catalog' = InsertRecord(catalog, Entry)
  /\ Advance
  /\ UNCHANGED <<plan, disk, boxes, pools, faults>>

InsertHlinksMetadata ==
  /\ Past("metadata", Len(plan.entries))
  /\ catalog' = SharedBodies(catalog)
  /\ Goto("fixed")
  /\ UNCHANGED <<plan, disk, boxes, pools, faults>>

\* allocate_fixed_areas and calculate_and_place_on_volume_snapshot: two
\* superblock blocks, the debug area and, last, the translation tables.
FixedAreas == <<0, 1, 2, AnyAddress>>
AllocateFixedArea ==
  /\ At("fixed", Len(FixedAreas))
  /\ LET grant == AllocateSpace(disk.space, FixedAreas[main.i], 1)
     IN  IF grant.addr = Refused THEN FailWith /\ UNCHANGED disk
         ELSE /\ disk' = [disk EXCEPT !.space = grant.space,
                                      !.fixed = @ \cup {grant.addr},
                                      !.tables = grant.addr]
              /\ Advance
  /\ UNCHANGED <<plan, catalog, boxes, pools, faults>>

FixedAreasDone ==
  /\ Past("fixed", Len(FixedAreas))
  /\ Goto("tune")
  /\ UNCHANGED <<plan, catalog, disk, boxes, pools, faults>>

-----------------------------------------------------------------------------
(* Handing work to the threads. *)

\* What a thread is told: the frame whose counter and error it reports to,
\* the path, or the inode of a container, the commands and the content.
Job(frame, path, box, cmd, cells) ==
  [frame |-> frame, path |-> path, box |-> box, cmd |-> cmd, cells |-> cells]
NoJob == Job("tune", "", 0, {}, <<>>)
PathJob(frame, path, cmd) == Job(frame, path, 0, cmd, Content(EntryOf(path)))

\* Threads without work: is_free.  Whether such a thread waits already or is
\* about to makes a difference only when it is to end (StopThread).
Idle(t) == t.pc = "idle" /\ ~t.has
FreeFiles == {f \in Threads : Idle(files[f])}
FreeChunkers == {c \in Threads : Idle(chunkers[c])}

\* get_free_file_thread scans from the first thread on; which idle thread it
\* takes makes no difference.
Dispatch(job) ==
  /\ FreeFiles # {}
  /\ files' = [files EXCEPT ![Min(FreeFiles)].has = TRUE, ![Min(FreeFiles)].job = job]
  /\ frames' = [frames EXCEPT ![job.frame].count = @ + 1]

Task == Tasks[main.i]
Compressible(e) == e.cells > 0 /\ (e.kind = "reg" \/ (e.kind = "link" /\ plan.readOnly))

\* tune_files: a listed file goes to a thread, an empty one is passed over.
TuneFile ==
  /\ At("tune", Len(Tasks))
  /\ EntryOf(Task.path).kind = "reg"
  /\ IF EntryOf(Task.path).cells = 0 THEN UNCHANGED pools
     ELSE Dispatch(PathJob("tune", Task.path, Task.cmd)) /\ UNCHANGED chunkers
  /\ Advance
  /\ UNCHANGED <<plan, catalog, disk, boxes, faults>>

\* tune_files: a listed folder is gone through by compress_dir.
TuneFolder ==
  /\ At("tune", Len(Tasks))
  /\ EntryOf(Task.path).kind = "dir"
  /\ main' = [main EXCEPT !.at = "folder", !.j = 1]
  /\ UNCHANGED <<plan, catalog, disk, boxes, pools, faults>>

Member == plan.entries[main.j]
CompressDirEntry ==
  /\ main.at = "folder"
  /\ main.j <= Len(plan.entries)
  /\ IF Member.dir = Task.path /\ Compressible(Member)
     THEN Dispatch(PathJob("folder", Member.path, Task.cmd))
          /\ UNCHANGED chunkers
     ELSE UNCHANGED pools
  /\ main' = [main EXCEPT !.j = @ + 1]
  /\ UNCHANGED <<plan, catalog, disk, boxes, faults>>

\* compress_dir ends with its own threads; an error ends tune_files as well,
\* without waiting for the threads tune_files started: those go on with the
\* counters of a function that has returned, and what follows is undefined.
CompressDirDone ==
  /\ main.at = "folder"
  /\ main.j > Len(plan.entries)
  /\ frames["folder"].count = 0
  /\ IF ~frames["folder"].error THEN main' = [main EXCEPT !.at = "tune", !.i = @ + 1]
     ELSE IF frames["tune"].count = 0 THEN FailWith ELSE Goto("undefined")
  /\ UNCHANGED <<plan, catalog, disk, boxes, pools, faults>>

\* wait_finish, then insert_data from the first free block on.  A sized image
\* that is full has no head of the list to ask: a null pointer is read.
TuneDone ==
  /\ Past("tune", Len(Tasks))
  /\ frames["tune"].count = 0
  /\ IF frames["tune"].error THEN FailWith
     ELSE IF ~plan.readOnly /\ disk.space.free = {} THEN Goto("undefined")
     ELSE main' = [main EXCEPT !.at = "data", !.i = 1, !.offset = MetadataSize(disk.space)]
  /\ UNCHANGED <<plan, catalog, disk, boxes, pools, faults>>

-----------------------------------------------------------------------------
(* Copying what is not compressed. *)

\* A file is copied to the running offset, which is the next free block; its
\* fork and the data ranges then know it.  An empty file takes no space.  The
\* search for an equal file before (find_file_duplicate) reads the new file at
\* the place of the old one in the image, which is behind its end: it never
\* finds one.
Copied(obj, cells, grant) ==
  /\ disk' = AddRange(CopyTo(disk, grant, cells), Fork(grant.addr, Len(cells)))
  /\ catalog' = SetFork(catalog, obj, Fork(grant.addr, Len(cells)))
  /\ main' = [main EXCEPT !.i = @ + 1, !.offset = grant.addr + Len(cells)]

CopyFile(obj, cells) ==
  LET grant == AllocateSpace(disk.space, main.offset, Len(cells))
  IN  IF cells = <<>> THEN Advance /\ UNCHANGED <<disk, catalog>>
      ELSE IF grant.addr = Refused THEN FailWith /\ UNCHANGED <<disk, catalog>>
      ELSE Copied(obj, cells, grant)

CopyObject(e, obj) ==
  IF catalog.objects[obj].type = "dlink"
  THEN CopyToBox(BoxOf(catalog.objects[obj].flags), e, obj) /\ Advance /\ UNCHANGED disk
  ELSE IF Flagged(catalog, obj, "comp")     \* already there
  THEN Advance /\ UNCHANGED <<disk, catalog, boxes>>
  ELSE CopyFile(obj, Content(e)) /\ UNCHANGED boxes

\* insert_data: folders and hard links are passed over.
InsertData ==
  /\ At("data", Len(plan.entries))
  /\ IF RecordOf(Entry.path).type \in {"folder", "hlink"}
     THEN Advance /\ UNCHANGED <<disk, catalog, boxes>>
     ELSE CopyObject(Entry, RecordOf(Entry.path).obj)
  /\ UNCHANGED <<plan, pools, faults>>

InsertDataDone ==
  /\ Past("data", Len(plan.entries))
  /\ Goto("hlinks")
  /\ UNCHANGED <<plan, catalog, disk, boxes, pools, faults>>

\* insert_hlinks_data: the objects with several names, each once.
InsertHlinkData ==
  /\ At("hlinks", Len(catalog.links))
  /\ CopyObject(EntryOf(catalog.links[main.i].path), catalog.links[main.i].obj)
  /\ UNCHANGED <<plan, pools, faults>>

InsertHlinksDone ==
  /\ Past("hlinks", Len(catalog.links))
  /\ Goto("boxes")
  /\ UNCHANGED <<plan, catalog, disk, boxes, pools, faults>>

\* A read or a write fails while main enters names, copies files or containers
\* or flushes: mkfs gives up.
CopyFails ==
  /\ main.at \in {"metadata", "data", "hlinks", "boxes", "flush"} /\ MayFail
  /\ FailWith
  /\ FailureSeen
  /\ UNCHANGED <<plan, catalog, disk, boxes, pools>>

-----------------------------------------------------------------------------
(* The containers themselves (copy_dlink_files), one after the other. *)

Box == boxes[BoxOrder[main.i]]
BoxCmd == [signed |-> {"compress", "auth", "dlink"}, roauth |-> {"compress", "auth"},
           auth |-> {"compress", "auth"}, comp |-> {"compress"}, plain |-> {}]
\* The nameless record insert_record gives a container.
BoxRecord(c) ==
  [c EXCEPT !.objects = Entered([o \in {Box.ino} |-> Body("file", Len(Box.cells))], @)]

SkipBox ==
  /\ At("boxes", Len(BoxOrder)) /\ Box.ino = 0
  /\ Advance
  /\ UNCHANGED <<plan, catalog, disk, boxes, pools, faults>>

\* A container to compress goes to a thread of files.
SendBox ==
  /\ At("boxes", Len(BoxOrder)) /\ Box.ino # 0
  /\ BoxOrder[main.i] # "plain"
  /\ catalog' = BoxRecord(catalog)
  /\ Dispatch(Job("dlinks", "", Box.ino, BoxCmd[BoxOrder[main.i]], Box.cells))
  /\ main' = [main EXCEPT !.at = "box"]
  /\ UNCHANGED <<plan, disk, boxes, chunkers, faults>>

\* wait_finish; an error is looked at only behind the last container.
BoxSent ==
  /\ main.at = "box"
  /\ frames["dlinks"].count = 0
  /\ main' = [main EXCEPT !.at = "boxes", !.i = @ + 1]
  /\ UNCHANGED <<plan, catalog, disk, boxes, pools, faults>>

\* The plain container is copied as it is, anywhere; its fork begins where the
\* next free block was.  Its range is not remembered.
CopyBox ==
  /\ At("boxes", Len(BoxOrder)) /\ Box.ino # 0
  /\ BoxOrder[main.i] = "plain"
  /\ LET grant == AllocateSpace(disk.space, AnyAddress, Len(Box.cells))
     IN  IF grant.addr = Refused THEN FailWith /\ UNCHANGED <<disk, catalog>>
         ELSE /\ disk' = CopyTo(disk, grant, Box.cells)
              /\ catalog' = SetFork(BoxRecord(catalog), Box.ino,
                                    Fork(MetadataSize(disk.space), Len(Box.cells)))
              /\ Advance
  /\ UNCHANGED <<plan, boxes, pools, faults>>

-----------------------------------------------------------------------------
(* The metadata: space is taken behind all data, then it is written. *)

\* One block each: the bitmaps of a sized image, the three trees, and the
\* preallocation, which a read-only image does without.
Subsystems ==
  (IF plan.readOnly THEN <<>> ELSE <<"spaceBitmap", "inodeBitmap">>)
    \o <<"cattree", "exttree", "xattrtree">>
Preallocation == IF plan.readOnly THEN 0 ELSE 1

BoxesDone ==
  /\ Past("boxes", Len(BoxOrder))
  /\ IF frames["dlinks"].error
         \/ (~plan.readOnly
             /\ main.offset + Len(Subsystems) + Preallocation > plan.blocks)
     THEN FailWith ELSE Goto("place")
  /\ UNCHANGED <<plan, catalog, disk, boxes, pools, faults>>

\* The metadata is one extent and must go on where it ended: space for len
\* more blocks of it.  The first address asked for is AnyAddress.
MetaEnd(d) == d.meta.first + d.meta.count
ExtendMeta(d, grant, len) ==
  [d EXCEPT !.space = grant.space,
            !.meta.first = IF @ = 0 THEN grant.addr ELSE @,
            !.meta.count = @ + len]

\* The translation table counts from the first block of the metadata.
EnterTable(d, name, addr) ==
  [d EXCEPT !.table = Entered([t \in {name} |-> addr - d.meta.first], @)]

\* place_on_volume_subsystem, then place_on_volume_preallocation.
PlaceSubsystem ==
  /\ At("place", Len(Subsystems))
  /\ LET grant == AllocateSpace(disk.space, MetaEnd(disk), 1)
     IN  IF grant.addr = Refused THEN FailWith /\ UNCHANGED disk
         ELSE /\ disk' = EnterTable(ExtendMeta(disk, grant, 1), Subsystems[main.i], grant.addr)
              /\ Advance
  /\ UNCHANGED <<plan, catalog, boxes, pools, faults>>

PlacePreallocation ==
  /\ Past("place", Len(Subsystems))
  /\ LET grant == AllocateSpace(disk.space, MetaEnd(disk), Preallocation)
     IN  IF grant.addr = Refused THEN FailWith /\ UNCHANGED disk
         ELSE disk' = ExtendMeta(disk, grant, Preallocation) /\ Goto("flush")
  /\ UNCHANGED <<plan, catalog, boxes, pools, faults>>

MetaBlock(d, t) == d.meta.first + d.table[t]
FlushTrees(d) ==
  [d EXCEPT !.blocks = Entered(
     [b \in {MetaBlock(d, t) : t \in DOMAIN d.table} |->
        TreeCell(CHOOSE t \in DOMAIN d.table : MetaBlock(d, t) = b)], @)]

FlushSnapshot(d) ==
  [d EXCEPT !.blocks = Entered(
     [b \in {2, d.tables} |->
        IF b = d.tables THEN TablesCell(d.table) ELSE TreeCell("debug")], @)]
\* Both superblocks say where the metadata and the tables are.
FlushSuperblocks(d) ==
  [d EXCEPT !.blocks = Entered([b \in {0, 1} |-> SuperCell(d.meta, d.tables)], @)]

\* The flush_ functions: every subsystem goes to the block its table entry
\* names, then the debug area and the tables, then the superblocks.
Flush ==
  /\ main.at = "flush"
  /\ disk' = FlushSuperblocks(FlushSnapshot(FlushTrees(disk)))
  /\ Goto("exit")
  /\ UNCHANGED <<plan, catalog, boxes, pools, faults>>

\* destroy_threads ends the threads one by one and joins them.  A thread that
\* waits is woken and ends; one that has tested its exit flag and not yet
\* begun to wait misses the signal, waits for ever, and main with it.
StopThread ==
  /\ At("exit", 2 * Processors)
  /\ \/ Advance
     \/ Goto("stuck")
  /\ UNCHANGED <<plan, catalog, disk, boxes, pools, faults>>

EndMkfs ==
  /\ Past("exit", 2 * Processors)
  /\ Goto(IF main.error THEN "failed" ELSE "done")
  /\ UNCHANGED <<plan, catalog, disk, boxes, pools, faults>>

-----------------------------------------------------------------------------
(* A thread of files: compress_file_thread, encode_file, compress_file. *)

FileGo(f, pc) == files' = [files EXCEPT ![f].pc = pc]
\* The object a job is about: find_record, or the container's own record.
Object(job) == IF job.path = "" THEN job.box ELSE RecordOf(job.path).obj
HasLinks(job) == job.path # "" /\ RecordOf(job.path).type = "hlink"
Marks(job) == {"comp"} \cup (IF "dlink" \in job.cmd THEN {"signed"} ELSE {})
\* Whether the data is to carry hashes and a signature.
Authenticated(job) ==
  plan.key /\ (IF job.path = "" THEN "auth" \in job.cmd ELSE EntryOf(job.path).signed)
BoxMarks(job) ==
  {"comp"} \cup (IF EntryOf(job.path).kind # "link" /\ Authenticated(job)
                 THEN {"auth"} ELSE {})

\* The thread has work; after an error of another thread of the frame it
\* only counts itself out.
TakeJob(f) ==
  /\ files[f].pc = "idle" /\ files[f].has
  /\ files' = [files EXCEPT ![f].has = FALSE,
                            ![f].pc = IF frames[files[f].job.frame].error
                                      THEN "finish" ELSE "look"]
  /\ UNCHANGED <<plan, main, catalog, disk, boxes, chunkers, frames, faults>>

\* The record is found.  What is flagged compressed already is left alone.
\* An object with several names is flagged here, before its data is written,
\* so that the thread with another of its names leaves it alone; a small file
\* is only flagged: its container is compressed later.
LookAt(f, job, obj) ==
  IF Flagged(catalog, obj, "comp") THEN FileGo(f, "finish") /\ UNCHANGED catalog
  ELSE /\ catalog' = AddFlags(catalog, obj,
            (IF HasLinks(job) THEN Marks(job) ELSE {})
              \cup (IF catalog.objects[obj].type = "dlink" THEN BoxMarks(job) ELSE {}))
       /\ files' = [files EXCEPT
            ![f].pc = IF catalog.objects[obj].type = "dlink" THEN "finish" ELSE "split",
            ![f].left = Len(job.cells)]

Look(f) ==
  /\ files[f].pc = "look"
  /\ LookAt(f, files[f].job, Object(files[f].job))
  /\ UNCHANGED <<plan, main, disk, boxes, chunkers, frames, faults>>

\* The next chunk is read and given to a thread of chunkers.
SplitChunk(f) ==
  /\ files[f].pc = "split" /\ files[f].k <= Len(files[f].job.cells)
  /\ FreeChunkers # {}
  /\ chunkers' = [chunkers EXCEPT ![Min(FreeChunkers)] =
                    [@ EXCEPT !.has = TRUE, !.owner = f, !.chunk = files[f].k]]
  /\ files' = [files EXCEPT ![f].k = @ + 1]
  /\ UNCHANGED <<plan, main, catalog, disk, boxes, frames, faults>>

\* A read of the source fails: compress_file returns at once, although the
\* threads that have chunks of this file go on with its variables.
SplitFails(f) ==
  /\ files[f].pc = "split" /\ files[f].k <= Len(files[f].job.cells)
  /\ MayFail /\ FailureSeen
  /\ IF files[f].left = Len(files[f].job.cells) - files[f].k + 1
     THEN files' = [files EXCEPT ![f].pc = "finish", ![f].bad = TRUE] /\ UNCHANGED main
     ELSE Goto("undefined") /\ FileGo(f, "lost")
  /\ UNCHANGED <<plan, catalog, disk, boxes, chunkers, frames>>

\* wait_file_finish.
ChunksDone(f) ==
  /\ files[f].pc = "split" /\ files[f].left = 0
  /\ FileGo(f, IF files[f].bad THEN "finish" ELSE "write")
  /\ UNCHANGED <<plan, main, catalog, disk, boxes, chunkers, frames, faults>>

\* What goes into the image: the chunks that did not get smaller, in the
\* order of the file, then the packed ones in the order they were finished.
RawChunks(t) ==
  LET raw == {k \in DOMAIN t.ext : ~t.ext[k].packed}
  IN  [i \in 1 .. t.raw |-> CHOOSE k \in raw : Cardinality({j \in raw : j <= k}) = i]
StoredData(t, rawChunks) ==
  [i \in DOMAIN rawChunks |-> DataCell(t.job.cells[rawChunks[i]], FALSE)]
    \o [i \in DOMAIN t.pack |-> Packed(t.pack[i])]

\* (mutant of FinalTable) Packed chunks are counted from the front.
FinalTableFront(t, rawChunks) ==
  [k \in DOMAIN t.ext |->
     IF t.ext[k].packed THEN t.ext[k]
     ELSE [t.ext[k] EXCEPT !.start = (CHOOSE i \in DOMAIN rawChunks : rawChunks[i] = k) - 1]]

\* The table: packed chunks are counted from behind the others.
FinalTable(t, rawChunks) ==
  [k \in DOMAIN t.ext |->
     [t.ext[k] EXCEPT
        !.start = IF t.ext[k].packed THEN @ + Len(rawChunks)
                  ELSE (CHOOSE i \in DOMAIN rawChunks : rawChunks[i] = k) - 1]]

\* The data is written where the space manager says, the table at the end of
\* the image file.
Written(t) == StoredData(t, RawChunks(t))
Table(t) == TableCell(FinalTable(t, RawChunks(t)), Authenticated(t.job))
Stored(d, dst, cells) == [d EXCEPT !.blocks = Put(@, dst, cells)]
WithTable(d, table) == [d EXCEPT !.blocks = Put(@, EndOf(@), <<table>>)]

\* (mutant of DropCopy) One block too many is cut off.
DropCopyMore(d, dst) == [d EXCEPT !.blocks = Truncate(@, dst - 1)]

\* What is known to be in the image already is cut off again.
DropCopy(d, dst) == [d EXCEPT !.blocks = Truncate(@, dst)]

FileFails(f) == files' = [files EXCEPT ![f].pc = "finish", ![f].bad = TRUE]
FileStored(f, fork) == files' = [files EXCEPT ![f].pc = "mark", ![f].fork = fork]

TakeSpace(f, d, grant, len) ==
  IF grant.addr = Refused THEN disk' = d /\ FileFails(f)
  ELSE /\ disk' = AddRange([d EXCEPT !.space = grant.space], Fork(grant.addr, len))
       /\ FileStored(f, Fork(grant.addr, len))

Settle(f, d, dst, len, twin) ==
  IF twin # 0 THEN disk' = DropCopy(d, dst) /\ FileStored(f, Fork(twin, len))
  ELSE TakeSpace(f, d, AllocateSpace(d.space, dst, len), len)

SettleNew(f, d, dst, len) ==
  Settle(f, d, dst, len, IF plan.readOnly THEN DuplicateOf(d, dst, len) ELSE 0)

\* Under write_file_mutex: chunks and table are written behind what is there;
\* if a read-only image held the same already, that is used instead.
Full == ~plan.readOnly /\ disk.space.free = {}
Write(f, cells) ==
  SettleNew(f, WithTable(Stored(disk, MetadataSize(disk.space), cells), Table(files[f])),
            MetadataSize(disk.space), Len(files[f].job.cells) + 1)

WriteImage(f) ==
  /\ files[f].pc = "write"
  /\ IF Full THEN FileFails(f) /\ UNCHANGED disk ELSE Write(f, Written(files[f]))
  /\ UNCHANGED <<plan, main, catalog, boxes, chunkers, frames, faults>>

\* Nobody asks whether the chunks were written, or the packed ones read back:
\* what comes behind those that were not takes their place, the table too.
Without(cells, i, j) == SubSeq(cells, 1, i - 1) \o SubSeq(cells, j + 1, Len(cells))
WriteLost(f) ==
  /\ files[f].pc = "write" /\ ~Full
  /\ MayFail /\ FailureLost(Object(files[f].job))
  /\ \E i, j \in DOMAIN Written(files[f]) :
       i <= j /\ Write(f, Without(Written(files[f]), i, j))
  /\ UNCHANGED <<plan, main, catalog, boxes, chunkers, frames>>

\* A read of the chunks that did not get smaller, or a write of the table,
\* fails: what was written stays in the image, no space is taken for it.
WriteFails(f) ==
  /\ files[f].pc = "write" /\ ~Full
  /\ MayFail /\ FailureSeen
  /\ \/ \E n \in 0 .. files[f].raw :
          disk' = Stored(disk, MetadataSize(disk.space), SubSeq(Written(files[f]), 1, n))
     \/ disk' = Stored(disk, MetadataSize(disk.space), Written(files[f]))
     \/ disk' = WithTable(Stored(disk, MetadataSize(disk.space), Written(files[f])),
                          TreeCell("torn"))
  /\ FileFails(f)
  /\ UNCHANGED <<plan, main, catalog, boxes, chunkers, frames>>

\* The record is told: first its flags, then its fork.
MarkRecord(f) ==
  /\ files[f].pc = "mark"
  /\ catalog' = SetFork(AddFlags(catalog, Object(files[f].job), Marks(files[f].job)),
                        Object(files[f].job), files[f].fork)
  /\ FileGo(f, "finish")
  /\ UNCHANGED <<plan, main, disk, boxes, chunkers, frames, faults>>

NewFile == [pc |-> "idle", has |-> FALSE, job |-> NoJob, k |-> 1, left |-> 0,
            bad |-> FALSE, raw |-> 0, pack |-> <<>>, ext |-> <<>>, fork |-> Fork(0, 0)]

\* (mutant of CountOut) The error of a thread is forgotten.
CountOutOnly(frame, bad) == [frame EXCEPT !.count = @ - 1]

CountOut(frame, bad) == [frame EXCEPT !.count = @ - 1, !.error = @ \/ bad]

\* The thread reports to its frame and is free again.
FinishJob(f) ==
  /\ files[f].pc = "finish"
  /\ frames' = [frames EXCEPT ![files[f].job.frame] = CountOut(@, files[f].bad)]
  /\ files' = [files EXCEPT ![f] = NewFile]
  /\ UNCHANGED <<plan, main, catalog, disk, boxes, chunkers, faults>>

-----------------------------------------------------------------------------
(* A thread of chunkers: compress_chunk_thread. *)

NewChunker == [pc |-> "idle", has |-> FALSE, owner |-> 1, chunk |-> 0, bad |-> FALSE]

TakeChunk(c) ==
  /\ chunkers[c].pc = "idle" /\ chunkers[c].has
  /\ chunkers' = [chunkers EXCEPT ![c].has = FALSE,
                     ![c].pc = IF files[chunkers[c].owner].bad THEN "retire" ELSE "append"]
  /\ UNCHANGED <<plan, main, catalog, disk, boxes, files, frames, faults>>

\* compress_chunk: the compressed chunk would not be smaller.
Incompressible(cell) == cell \in plan.raw

\* The chunk goes to the end of the temporary file for its kind.
AddChunk(t, k, cell) ==
  IF Incompressible(cell)
  THEN [t EXCEPT !.ext = (k :> [packed |-> FALSE, start |-> t.raw]) @@ @, !.raw = @ + 1]
  ELSE [t EXCEPT !.ext = (k :> [packed |-> TRUE, start |-> Len(t.pack)]) @@ @,
                 !.pack = Append(@, cell)]

AppendChunk(c) ==
  /\ chunkers[c].pc = "append"
  /\ files' = [files EXCEPT ![chunkers[c].owner] =
       AddChunk(@, chunkers[c].chunk, @.job.cells[chunkers[c].chunk])]
  /\ chunkers' = [chunkers EXCEPT ![c].pc = "retire"]
  /\ UNCHANGED <<plan, main, catalog, disk, boxes, frames, faults>>

AppendFails(c) ==
  /\ chunkers[c].pc = "append"
  /\ MayFail /\ FailureSeen
  /\ chunkers' = [chunkers EXCEPT ![c].pc = "retire", ![c].bad = TRUE]
  /\ UNCHANGED <<plan, main, catalog, disk, boxes, files, frames>>

\* (mutant of CountChunk) A failed chunk is reported, but not counted.
CountChunkDone(t, bad) ==
  IF bad THEN [t EXCEPT !.bad = TRUE] ELSE [t EXCEPT !.left = @ - 1]

CountChunk(t, bad) == [t EXCEPT !.left = @ - 1, !.bad = @ \/ bad]

RetireChunk(c) ==
  /\ chunkers[c].pc = "retire"
  /\ files' = [files EXCEPT ![chunkers[c].owner] = CountChunk(@, chunkers[c].bad)]
  /\ chunkers' = [chunkers EXCEPT ![c] = NewChunker]
  /\ UNCHANGED <<plan, main, catalog, disk, boxes, frames, faults>>

-----------------------------------------------------------------------------
CleanSuperblocks == [b \in {0, 1} |-> TreeCell("clean")]

MkfsInit ==
  /\ plan \in Plans
  /\ main = [at |-> "list", i |-> 1, j |-> 1, offset |-> 0, error |-> FALSE]
  /\ catalog = [names |-> <<>>, objects |-> <<>>, links |-> <<>>, last |-> 0]
  /\ disk = [space |-> NewSpace(plan.readOnly, plan.blocks),
             blocks |-> CleanSuperblocks, ranges |-> <<>>, fixed |-> {}, tables |-> 0,
             meta |-> [first |-> 0, count |-> 0], table |-> <<>>]
  /\ boxes = [class \in Range(BoxOrder) |-> NoBox]
  /\ files = [f \in Threads |-> NewFile]
  /\ chunkers = [c \in Threads |-> NewChunker]
  /\ frames = [frame \in {"tune", "folder", "dlinks"} |-> [count |-> 0, error |-> FALSE]]
  /\ faults = [seen |-> 0, lost |-> {}]

MainStep ==
  \/ ReadList \/ InsertMetadata \/ InsertHlinksMetadata \/ AllocateFixedArea \/ FixedAreasDone
  \/ TuneFile \/ TuneFolder \/ CompressDirEntry \/ CompressDirDone \/ TuneDone
  \/ InsertData \/ InsertDataDone \/ InsertHlinkData \/ InsertHlinksDone
  \/ SkipBox \/ SendBox \/ BoxSent \/ CopyBox \/ BoxesDone
  \/ PlaceSubsystem \/ PlacePreallocation \/ Flush \/ StopThread \/ EndMkfs
FileStep(f) ==
  \/ TakeJob(f) \/ Look(f) \/ SplitChunk(f) \/ ChunksDone(f)
  \/ WriteImage(f) \/ MarkRecord(f) \/ FinishJob(f)
ChunkStep(c) == TakeChunk(c) \/ AppendChunk(c) \/ RetireChunk(c)
Mishap ==
  \/ CopyFails
  \/ \E t \in Threads : SplitFails(t) \/ AppendFails(t) \/ WriteLost(t) \/ WriteFails(t)

MkfsNext ==
  \/ MainStep
  \/ \E t \in Threads : FileStep(t) \/ ChunkStep(t)
  \/ Mishap
===============================================================================
