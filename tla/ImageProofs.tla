------------------------------ MODULE ImageProofs ------------------------------
(***************************************************************************)
(* The space manager in the program that uses it: in every run of mkfs,    *)
(* with any plan, any number of threads and any number of faults, its list *)
(* and its bitmap agree, and what was given out stays given out.           *)
(*                                                                         *)
(* Both follow from AllocateSpaceGood and GivenOnce of SpaceProofs once    *)
(* every request is known to be one these speak of: an offset and a length *)
(* that are natural numbers.  Offsets come from main's running offset, from*)
(* the end of the metadata and from the space itself; lengths are lengths  *)
(* of files, of containers and of the jobs of threads.  So the invariant   *)
(* says of each of these that it has its shape.                            *)
(*                                                                         *)
(* And the verdict of mkfs is honest: a failure the code checks for reaches*)
(* main from wherever it was met, and main fails for no other reason.  That*)
(* needs the counters main and the threads of files wait for: each is the  *)
(* number of threads still at work.                                        *)
(*                                                                         *)
(* And no two areas of the image overlap: what a file, the fixed areas or  *)
(* the metadata were given is given to nobody else, whoever asks when.     *)
(*                                                                         *)
(* Last, what was written into such an area stays as it is.  A thread      *)
(* writes before it asks for the space, and cuts the image off again when  *)
(* it finds the data there already, so that this needs what is given out   *)
(* to lie in front of what is free, the image to end where that ends, and  *)
(* the chunks a thread writes to be as many as it then asks space for.  A  *)
(* write that is lost unnoticed breaks the last two, and nothing before the*)
(* flush of the metadata.                                                  *)
(***************************************************************************)
EXTENDS VdfsImage, SpaceProofs, FiniteSetTheorems

IsSeq(s) == \E S : s \in Seq(S)

\* The paths a plan knows.
Paths(p) == {p.entries[i].path : i \in DOMAIN p.entries}

MainOk ==
  /\ DOMAIN main = {"at", "i", "j", "offset", "error"}
  /\ main.i \in Nat \ {0} /\ main.j \in Nat \ {0} /\ main.offset \in Nat

DiskLike(d) ==
  /\ DOMAIN d = {"space", "blocks", "ranges", "fixed", "tables", "meta", "table"}
  /\ DOMAIN d.meta = {"first", "count"}
  /\ d.meta.first \in Nat /\ d.meta.count \in Nat
  /\ GoodSpace(d.space)

\* The kind of image never changes, so that the plan tells it as well.
KindOk == disk.space.readOnly = plan.readOnly

BoxLike(box) == DOMAIN box = {"ino", "cells", "ranges"} /\ IsSeq(box.cells)
BoxesOk == DOMAIN boxes = Range(BoxOrder) /\ \A class \in DOMAIN boxes : BoxLike(boxes[class])

FileLike(t) ==
  /\ DOMAIN t = {"pc", "has", "job", "k", "left", "bad", "raw", "pack", "ext", "fork"}
  /\ IsSeq(t.job.cells)
FilesOk == DOMAIN files = Threads /\ \A f \in Threads : FileLike(files[f])

LinksOk ==
  /\ DOMAIN catalog = {"names", "objects", "links", "last"}
  /\ IsSeq(catalog.links)
  /\ \A i \in DOMAIN catalog.links : catalog.links[i].path \in Paths(plan)

\* The inductive invariant.
ImageInv ==
  /\ plan \in Plans
  /\ MainOk /\ DiskLike(disk) /\ KindOk /\ BoxesOk /\ FilesOk /\ LinksOk

--------------------------------------------------------------------------------
(* Sequences.                                                              *)

LEMMA SeqLen ==
  ASSUME NEW s, IsSeq(s)
  PROVE  Len(s) \in Nat /\ DOMAIN s = 1 .. Len(s)
  BY DEF IsSeq

LEMMA SeqAppend ==
  ASSUME NEW s, IsSeq(s), NEW x
  PROVE  /\ IsSeq(Append(s, x))
         /\ \A i \in DOMAIN Append(s, x) :
              Append(s, x)[i] = x \/ (i \in DOMAIN s /\ Append(s, x)[i] = s[i])
  <1>1. PICK S : s \in Seq(S)
    BY DEF IsSeq
  <1>2. s \in Seq(S \cup {x}) /\ x \in S \cup {x}
    BY <1>1
  <1>3. Append(s, x) \in Seq(S \cup {x})
    BY <1>2
  <1>4. \A i \in DOMAIN Append(s, x) :
          Append(s, x)[i] = x \/ (i \in DOMAIN s /\ Append(s, x)[i] = s[i])
    BY <1>2, <1>3
  <1> QED BY <1>3, <1>4 DEF IsSeq

LEMMA SeqIsSeq ==
  ASSUME NEW S, NEW s \in Seq(S)
  PROVE  IsSeq(s)
  BY DEF IsSeq

LEMMA SeqEmpty == \A s : s = <<>> => IsSeq(s)
  <1>1. \A s : s = <<>> => s \in Seq(Nat)
    OBVIOUS
  <1>2. QED
    BY <1>1, SeqIsSeq

LEMMA ContentSeq ==
  ASSUME NEW e, e.cells \in Nat
  PROVE  IsSeq(Content(e))
  <1> DEFINE S == {<<e.data, i>> : i \in Nat}
  <1>1. Content(e) \in [1 .. e.cells -> S]
    BY DEF Content
  <1>2. Content(e) \in Seq(S)
    <2> HIDE DEF S
    <2> QED BY <1>1
  <1> QED BY <1>2 DEF IsSeq

--------------------------------------------------------------------------------
(* What the plan says of a path.                                           *)

LEMMA EntryIsEntry ==
  ASSUME NEW i \in DOMAIN plan.entries, plan \in Plans
  PROVE  /\ plan.entries[i].cells \in Nat
         /\ plan.entries[i].path \in Paths(plan)
         /\ IsSeq(Content(plan.entries[i]))
  <1>1. plan.entries[i].cells \in Nat
    BY PlanAssumption
  <1>2. plan.entries[i].path \in Paths(plan)
    BY DEF Paths
  <1> QED BY <1>1, <1>2, ContentSeq

LEMMA KnownPath ==
  ASSUME plan \in Plans, NEW path \in Paths(plan)
  PROVE  IsSeq(Content(EntryOf(path)))
  <1>1. \E i \in DOMAIN plan.entries : plan.entries[i].path = path
    BY DEF Paths
  <1> DEFINE k == CHOOSE i \in DOMAIN plan.entries : plan.entries[i].path = path
  <1>2. k \in DOMAIN plan.entries
    BY <1>1
  <1>3. EntryOf(path) = plan.entries[k]
    BY DEF EntryOf
  <1> HIDE DEF k
  <1> QED BY <1>2, <1>3, EntryIsEntry

\* The lines of the list name files and folders of the plan, and so do the
\* tasks made of them.
LEMMA TaskKnown ==
  ASSUME plan \in Plans, main.i \in Nat \ {0}, main.i <= Len(Tasks)
  PROVE  Task.path \in Paths(plan)
  <1> DEFINE tasks == [i \in DOMAIN plan.list |->
                         [path |-> plan.list[i].path, cmd |-> Commands(plan.list[i].word)]]
             T == {tasks[i] : i \in DOMAIN plan.list}
  <1>1. plan.list \in Seq(Range(plan.list))
    BY PlanAssumption
  <1>2. Len(plan.list) \in Nat /\ DOMAIN plan.list = 1 .. Len(plan.list)
    BY <1>1
  <1>3. tasks \in [1 .. Len(plan.list) -> T]
    BY <1>2
  <1>4. tasks \in Seq(T)
    <2> HIDE DEF T, tasks
    <2> QED BY <1>2, <1>3
  <1>5. Len(tasks) = Len(plan.list)
    <2>1. DOMAIN tasks = 1 .. Len(plan.list)
      BY <1>2
    <2> HIDE DEF tasks
    <2> QED BY <1>2, <1>4, <2>1
  <1>6. Tasks = [i \in 1 .. Len(tasks) |-> tasks[Len(tasks) - i + 1]]
    BY DEF Tasks, Reverse
  <1>7. Len(Tasks) = Len(plan.list) /\ Task = tasks[Len(plan.list) - main.i + 1]
    <2>1. DOMAIN Tasks = 1 .. Len(plan.list)
      BY <1>5, <1>6
    <2>2. Tasks \in Seq(T)
      <3> HIDE DEF tasks
      <3>1. Tasks \in [1 .. Len(plan.list) -> T]
        <4>1. \A i \in 1 .. Len(plan.list) : Len(plan.list) - i + 1 \in 1 .. Len(plan.list)
          BY <1>2
        <4> HIDE DEF T
        <4> QED BY <1>3, <1>5, <1>6, <4>1
      <3> HIDE DEF T
      <3> QED BY <1>2, <3>1
    <2>3. Len(Tasks) = Len(plan.list)
      <3> HIDE DEF tasks, T
      <3> QED BY <1>2, <2>1, <2>2
    <2> HIDE DEF tasks
    <2>4. main.i \in 1 .. Len(plan.list)
      BY <1>2, <2>3
    <2> QED BY <1>5, <1>6, <2>3, <2>4 DEF Task
  <1>8. Len(plan.list) - main.i + 1 \in DOMAIN plan.list
    BY <1>2, <1>7
  <1>9. Task.path = plan.list[Len(plan.list) - main.i + 1].path
    BY <1>7, <1>8
  <1>10. \E j \in DOMAIN plan.entries : plan.entries[j].path = Task.path
    <2>1. \A i \in DOMAIN plan.list :
            \E j \in DOMAIN plan.entries : plan.entries[j].path = plan.list[i].path
      BY PlanAssumption, Zenon
    <2> QED BY <1>8, <1>9, <2>1
  <1> QED BY <1>10 DEF Paths

--------------------------------------------------------------------------------
(* What a step may do to the space: nothing, or one request.               *)

SpaceStep ==
  \/ disk'.space = disk.space
  \/ \E offset, len \in Nat : disk'.space = AllocateSpace(disk.space, offset, len).space

\* The fields of the disk other than the space.
DiskShape(d) ==
  /\ DOMAIN d = {"space", "blocks", "ranges", "fixed", "tables", "meta", "table"}
  /\ DOMAIN d.meta = {"first", "count"}
  /\ d.meta.first \in Nat /\ d.meta.count \in Nat

LEMMA SpaceStepGood ==
  ASSUME DiskLike(disk), DiskShape(disk'), SpaceStep
  PROVE  DiskLike(disk')
  <1>1. GoodSpace(disk.space)
    BY DEF DiskLike
  <1>2. GoodSpace(disk'.space)
    BY <1>1, AllocateSpaceGood DEF SpaceStep
  <1> QED BY <1>2 DEF DiskLike, DiskShape

\* A granted address is a number.
LEMMA GrantedAddress ==
  ASSUME NEW space, GoodSpace(space), NEW offset \in Nat, NEW len \in Nat,
         AllocateSpace(space, offset, len).addr # Refused
  PROVE  AllocateSpace(space, offset, len).addr \in Nat
  BY GivenOnce DEF Granted

\* Where the next data goes is a number, if there is a free block.
LEMMA NextOffset ==
  ASSUME NEW space, GoodSpace(space), space.readOnly \/ space.free # {}
  PROVE  MetadataSize(space) \in Nat
  <1>1. space \in Spaces
    BY DEF GoodSpace
  <1>2. CASE space.readOnly
    BY <1>1, <1>2 DEF MetadataSize, Spaces
  <1>3. CASE ~space.readOnly
    <2>1. space.free \in SUBSET Extents /\ space.free # {}
      BY <1>1, <1>3 DEF Spaces
    <2>2. FirstOf(space.free) \in Extents
      BY <2>1, FirstOfIsFirst
    <2> QED BY <1>3, <2>2 DEF MetadataSize, Extents
  <1> QED BY <1>2, <1>3

LEMMA KindStays ==
  ASSUME DiskLike(disk), SpaceStep
  PROVE  disk'.space.readOnly = disk.space.readOnly
  <1>1. GoodSpace(disk.space) /\ disk.space \in Spaces
    BY DEF DiskLike, GoodSpace
  <1>2. ASSUME NEW offset \in Nat, NEW len \in Nat,
               disk'.space = AllocateSpace(disk.space, offset, len).space
        PROVE  disk'.space.readOnly = disk.space.readOnly
    <2> DEFINE grant == AllocateSpace(disk.space, offset, len)
    <2>1. CASE grant.space = disk.space
      BY <1>2, <2>1
    <2>2. CASE grant.space = [disk.space EXCEPT !.first = @ + len]
      BY <1>1, <1>2, <2>2 DEF Spaces
    <2>3. CASE \E e \in disk.space.free :
                 /\ grant.addr \in Nat
                 /\ e.start <= grant.addr /\ grant.addr + len <= e.start + e.len
                 /\ grant.space = Take(disk.space, e, grant.addr, len).space
      BY <1>1, <1>2, <2>3, TakeGood
    <2> QED BY <1>1, <2>1, <2>2, <2>3, AllocateCases
  <1> QED BY <1>2 DEF SpaceStep

--------------------------------------------------------------------------------
(* The pieces actions are made of.                                         *)

LEMMA MainMoves ==
  ASSUME MainOk
  PROVE  /\ \A at : Goto(at) => MainOk'
         /\ Advance => MainOk'
         /\ FailWith => MainOk'
         /\ (UNCHANGED main) => MainOk'
  <1>1. ASSUME NEW at, Goto(at) PROVE MainOk'
    BY <1>1 DEF MainOk, Goto
  <1>2. Advance => MainOk'
    BY DEF MainOk, Advance
  <1>3. FailWith => MainOk'
    BY DEF MainOk, FailWith
  <1>4. (UNCHANGED main) => MainOk'
    BY DEF MainOk
  <1> QED BY <1>1, <1>2, <1>3, <1>4

\* The links of the catalog, after a change to its objects only.
LEMMA LinksStay ==
  ASSUME LinksOk, UNCHANGED plan,
         DOMAIN catalog' = DOMAIN catalog, catalog'.links = catalog.links
  PROVE  LinksOk'
  BY DEF LinksOk, Paths

\* A file is copied by main.
LEMMA CopyFileSteps ==
  ASSUME ImageInv, UNCHANGED plan, NEW obj, NEW cells, IsSeq(cells), CopyFile(obj, cells)
  PROVE  /\ MainOk'
         /\ DiskShape(disk') /\ SpaceStep
         /\ LinksOk'
  <1> DEFINE grant == AllocateSpace(disk.space, main.offset, Len(cells))
  <1>1. MainOk /\ DiskLike(disk) /\ LinksOk /\ Len(cells) \in Nat /\ main.offset \in Nat
    BY SeqLen DEF ImageInv, MainOk
  <1>2. DiskShape(disk)
    BY <1>1 DEF DiskLike, DiskShape
  <1>3. CASE UNCHANGED <<disk, catalog>> /\ (Advance \/ FailWith)
    BY <1>1, <1>2, <1>3, MainMoves, LinksStay DEF SpaceStep
  <1>4. CASE grant.addr # Refused /\ Copied(obj, cells, grant)
    <2>1. grant.addr \in Nat
      BY <1>1, <1>4, GrantedAddress DEF DiskLike
    <2>2. MainOk'
      BY <1>1, <1>4, <2>1 DEF Copied, MainOk
    <2>3. /\ DOMAIN disk' = DOMAIN disk
          /\ disk'.meta = disk.meta
          /\ disk'.space = grant.space
      BY <1>2, <1>4 DEF Copied, AddRange, CopyTo, DiskShape
    <2>4. DiskShape(disk') /\ SpaceStep
      BY <1>1, <1>2, <2>3 DEF DiskShape, SpaceStep
    <2>5. DOMAIN catalog' = DOMAIN catalog /\ catalog'.links = catalog.links
      BY <1>1, <1>4 DEF Copied, SetFork, LinksOk
    <2> QED BY <1>1, <2>2, <2>4, <2>5, LinksStay
  <1> QED BY <1>3, <1>4 DEF CopyFile

\* A small file goes to the end of its container, or to its twin.
LEMMA PackSteps ==
  ASSUME ImageInv, UNCHANGED plan, NEW class, NEW e, NEW obj, CopyToBox(class, e, obj)
  PROVE  BoxesOk' /\ LinksOk'
  <1> DEFINE box == OpenBox(class)
             at == BoxOffset(box, e, TwinOf(box, e))
  <1>1. BoxesOk /\ LinksOk
    BY DEF ImageInv
  <1>2. BoxLike(NoBox)
    BY SeqEmpty DEF NoBox, BoxLike
  <1>3. class \in DOMAIN boxes => BoxLike(box)
    BY <1>1, <1>2 DEF OpenBox, BoxesOk, BoxLike
  <1> HIDE DEF box, at
  <1>4. BoxLike(box) => BoxLike(FillBox(box, e, at))
    <2>1. BoxLike(box) => IsSeq(Append(box.cells, <<e.data, 1>>))
      BY SeqAppend DEF BoxLike
    <2> QED BY <2>1 DEF FillBox, BoxLike
  <1>5. /\ boxes' = [boxes EXCEPT ![class] = FillBox(box, e, at)]
        /\ DOMAIN catalog' = DOMAIN catalog /\ catalog'.links = catalog.links
    BY <1>1 DEF CopyToBox, PackInto, LinksOk, box, at
  <1>6. BoxesOk'
    BY <1>1, <1>3, <1>4, <1>5 DEF BoxesOk
  <1> QED BY <1>1, <1>5, <1>6, LinksStay

LEMMA CopyObjectSteps ==
  ASSUME ImageInv, UNCHANGED plan, NEW e, IsSeq(Content(e)), NEW obj, CopyObject(e, obj)
  PROVE  MainOk' /\ DiskShape(disk') /\ SpaceStep /\ LinksOk' /\ BoxesOk'
  <1>1. MainOk /\ LinksOk /\ BoxesOk /\ DiskShape(disk)
    BY DEF ImageInv, DiskLike, DiskShape
  <1>2. CASE /\ CopyToBox(BoxOf(catalog.objects[obj].flags), e, obj)
             /\ Advance /\ UNCHANGED disk
    <2>1. BoxesOk' /\ LinksOk'
      BY <1>2, PackSteps
    <2> QED BY <1>1, <1>2, <2>1, MainMoves DEF SpaceStep
  <1>3. CASE Advance /\ UNCHANGED <<disk, catalog, boxes>>
    BY <1>1, <1>3, MainMoves, LinksStay DEF SpaceStep, BoxesOk
  <1>4. CASE CopyFile(obj, Content(e)) /\ UNCHANGED boxes
    <2>1. MainOk' /\ DiskShape(disk') /\ SpaceStep /\ LinksOk'
      BY <1>4, CopyFileSteps
    <2> QED BY <1>1, <1>4, <2>1 DEF BoxesOk
  <1> QED BY <1>2, <1>3, <1>4 DEF CopyObject

\* A thread is given a job.
LEMMA DispatchSteps ==
  ASSUME FilesOk, NEW job, IsSeq(job.cells), Dispatch(job)
  PROVE  FilesOk'
  BY DEF FilesOk, FileLike, Dispatch

--------------------------------------------------------------------------------
(* Every step.  StepOk is what each of them is shown to do.                *)

StepOk ==
  /\ UNCHANGED plan
  /\ DiskShape(disk') /\ SpaceStep
  /\ MainOk' /\ BoxesOk' /\ FilesOk' /\ LinksOk'

LEMMA Unmoved ==
  ASSUME ImageInv
  PROVE  /\ (UNCHANGED disk) => DiskShape(disk') /\ SpaceStep
         /\ (UNCHANGED main) => MainOk'
         /\ (UNCHANGED boxes) => BoxesOk'
         /\ (UNCHANGED files) => FilesOk'
         /\ (UNCHANGED <<plan, catalog>>) => LinksOk'
  <1>1. (UNCHANGED disk) => DiskShape(disk') /\ SpaceStep
    BY DEF ImageInv, DiskLike, DiskShape, SpaceStep
  <1>2. (UNCHANGED boxes) => BoxesOk'
    BY DEF ImageInv, BoxesOk
  <1>3. (UNCHANGED files) => FilesOk'
    BY DEF ImageInv, FilesOk
  <1>4. (UNCHANGED <<plan, catalog>>) => LinksOk'
    BY LinksStay DEF ImageInv
  <1>5. (UNCHANGED main) => MainOk'
    BY MainMoves DEF ImageInv
  <1> QED BY <1>1, <1>2, <1>3, <1>4, <1>5

\* Steps of main that only move it on.
LEMMA QuietSteps ==
  ASSUME ImageInv,
         ReadList \/ FixedAreasDone \/ TuneFolder \/ CompressDirDone
           \/ InsertDataDone \/ InsertHlinksDone \/ SkipBox \/ BoxSent \/ BoxesDone
           \/ StopThread \/ EndMkfs \/ CopyFails
  PROVE  StepOk
  <1>1. MainOk
    BY DEF ImageInv
  <1>2. UNCHANGED <<plan, disk, catalog, boxes, files>>
    BY DEF ReadList, FixedAreasDone, TuneFolder, CompressDirDone, InsertDataDone,
           InsertHlinksDone, SkipBox, BoxSent, BoxesDone, StopThread, EndMkfs, CopyFails, pools
  <1>3. CASE \/ \E at : Goto(at)
             \/ Advance \/ FailWith
    BY <1>1, <1>2, <1>3, MainMoves, Unmoved DEF StepOk
  <1>4. CASE TuneFolder
    <2>1. MainOk'
      BY <1>1, <1>4 DEF TuneFolder, MainOk
    <2> QED BY <1>2, <2>1, Unmoved DEF StepOk
  <1>5. CASE CompressDirDone
    <2>1. MainOk'
      <3>1. CASE main' = [main EXCEPT !.at = "tune", !.i = @ + 1]
        BY <1>1, <3>1 DEF MainOk
      <3> QED BY <1>1, <1>5, <3>1, MainMoves DEF CompressDirDone
    <2> QED BY <1>2, <2>1, Unmoved DEF StepOk
  <1>6. CASE BoxSent
    <2>1. MainOk'
      BY <1>1, <1>6 DEF BoxSent, MainOk
    <2> QED BY <1>2, <2>1, Unmoved DEF StepOk
  <1>7. CASE \/ ReadList \/ FixedAreasDone \/ InsertDataDone \/ InsertHlinksDone \/ SkipBox
             \/ BoxesDone \/ StopThread \/ EndMkfs \/ CopyFails
    <2>1. \/ \E at : Goto(at)
          \/ Advance \/ FailWith
      BY <1>7 DEF ReadList, FixedAreasDone, InsertDataDone, InsertHlinksDone, SkipBox,
                  BoxesDone, StopThread, EndMkfs, CopyFails
    <2> QED BY <1>3, <2>1
  <1> QED BY <1>4, <1>5, <1>6, <1>7

\* Names are entered in the catalog.
LEMMA MetadataSteps ==
  ASSUME ImageInv, InsertMetadata \/ InsertHlinksMetadata
  PROVE  StepOk
  <1>1. MainOk /\ LinksOk /\ plan \in Plans
    BY DEF ImageInv
  <1>2. UNCHANGED <<plan, disk, boxes, files>>
    BY DEF InsertMetadata, InsertHlinksMetadata, pools
  <1>3. CASE InsertMetadata
    <2>1. Entry.path \in Paths(plan)
      <3>1. plan.entries \in Seq(Range(plan.entries))
        BY <1>1, PlanAssumption
      <3>2. main.i \in DOMAIN plan.entries
        BY <1>1, <1>3, <3>1 DEF InsertMetadata, At, MainOk
      <3> QED BY <1>1, <3>2, EntryIsEntry DEF Entry
    <2>2. LinksOk'
      <3> DEFINE link == [ino |-> Entry.ino, obj |-> FreeInode(catalog), path |-> Entry.path]
      <3>1. CASE DOMAIN catalog' = DOMAIN catalog /\ catalog'.links = catalog.links
        BY <1>1, <1>2, <3>1, LinksStay
      <3>2. CASE /\ DOMAIN catalog' = DOMAIN catalog
                 /\ catalog'.links = Append(catalog.links, link)
        <4>1. link.path = Entry.path
          OBVIOUS
        <4> HIDE DEF link
        <4>2. IsSeq(catalog'.links)
          BY <1>1, <3>2, SeqAppend DEF LinksOk
        <4>3. ASSUME NEW i \in DOMAIN catalog'.links
              PROVE  catalog'.links[i].path \in Paths(plan)
          <5>1. catalog'.links[i] = link
                  \/ (i \in DOMAIN catalog.links /\ catalog'.links[i] = catalog.links[i])
            BY <1>1, <3>2, <4>3, SeqAppend DEF LinksOk
          <5> QED BY <1>1, <2>1, <4>1, <5>1 DEF LinksOk
        <4>4. Paths(plan') = Paths(plan)
          BY <1>2
        <4> QED BY <1>1, <3>2, <4>2, <4>3, <4>4 DEF LinksOk
      <3>3. catalog' = InsertRecord(catalog, Entry)
        BY <1>3 DEF InsertMetadata
      <3>4. DOMAIN catalog = {"names", "objects", "links", "last"}
        BY <1>1 DEF LinksOk
      <3>5. CASE catalog' = EnterOwn(catalog, Entry, FreeInode(catalog))
        BY <3>1, <3>4, <3>5 DEF EnterOwn
      <3>6. CASE catalog' = EnterLink(catalog, Entry)
        BY <3>1, <3>4, <3>6 DEF EnterLink
      <3>7. CASE catalog' = EnterFirstLink(catalog, Entry, FreeInode(catalog))
        BY <3>2, <3>4, <3>7 DEF EnterFirstLink
      <3> QED BY <3>3, <3>5, <3>6, <3>7 DEF InsertRecord
    <2>3. Advance
      BY <1>3 DEF InsertMetadata
    <2> QED BY <1>1, <1>2, <2>2, <2>3, MainMoves, Unmoved DEF StepOk
  <1>4. CASE InsertHlinksMetadata
    <2>1. Goto("fixed") /\ catalog' = SharedBodies(catalog)
      BY <1>4 DEF InsertHlinksMetadata
    <2>2. DOMAIN catalog' = DOMAIN catalog /\ catalog'.links = catalog.links
      BY <1>1, <2>1 DEF SharedBodies, LinksOk
    <2> QED BY <1>1, <1>2, <2>1, <2>2, LinksStay, MainMoves, Unmoved DEF StepOk
  <1> QED BY <1>3, <1>4

\* The fixed areas and the metadata are placed.
LEMMA PlaceSteps ==
  ASSUME ImageInv, AllocateFixedArea \/ PlaceSubsystem \/ PlacePreallocation
  PROVE  StepOk
  <1>1. MainOk /\ DiskLike(disk) /\ DiskShape(disk) /\ MetaEnd(disk) \in Nat
    BY DEF ImageInv, DiskLike, DiskShape, MetaEnd
  <1>2. UNCHANGED <<plan, catalog, boxes, files>>
    BY DEF AllocateFixedArea, PlaceSubsystem, PlacePreallocation, pools
  <1>3. ASSUME UNCHANGED disk, FailWith
        PROVE  StepOk
    BY <1>1, <1>2, <1>3, MainMoves, Unmoved DEF StepOk
  <1>4. CASE AllocateFixedArea
    <2> DEFINE grant == AllocateSpace(disk.space, FixedAreas[main.i], 1)
    <2>1. FixedAreas[main.i] \in Nat
      BY <1>1, <1>4 DEF AllocateFixedArea, At, FixedAreas, AnyAddress, MainOk
    <2>2. CASE /\ disk' = [disk EXCEPT !.space = grant.space,
                                       !.fixed = @ \cup {grant.addr},
                                       !.tables = grant.addr]
               /\ Advance
      <3>1. /\ DOMAIN disk' = DOMAIN disk /\ disk'.meta = disk.meta
            /\ disk'.space = grant.space
        BY <1>1, <2>2 DEF DiskShape
      <3>2. DiskShape(disk') /\ SpaceStep
        BY <1>1, <2>1, <3>1 DEF DiskShape, SpaceStep
      <3> QED BY <1>1, <1>2, <2>2, <3>2, MainMoves, Unmoved DEF StepOk
    <2> QED BY <1>3, <1>4, <2>2 DEF AllocateFixedArea
  <1>5. ASSUME NEW len \in Nat, NEW grant,
               grant = AllocateSpace(disk.space, MetaEnd(disk), len), grant.addr # Refused,
               NEW table, disk' = [ExtendMeta(disk, grant, len) EXCEPT !.table = table]
        PROVE  DiskShape(disk') /\ SpaceStep
    <2>1. grant.addr \in Nat
      BY <1>1, <1>5, GrantedAddress DEF DiskLike
    <2>2. /\ DOMAIN disk' = DOMAIN disk
          /\ disk'.space = grant.space
          /\ DOMAIN disk'.meta = {"first", "count"}
          /\ disk'.meta.first = IF disk.meta.first = 0 THEN grant.addr ELSE disk.meta.first
          /\ disk'.meta.count = disk.meta.count + len
      BY <1>1, <1>5 DEF DiskShape, ExtendMeta
    <2> QED BY <1>1, <1>5, <2>1, <2>2 DEF DiskShape, SpaceStep
  <1>6. CASE PlaceSubsystem
    <2> DEFINE grant == AllocateSpace(disk.space, MetaEnd(disk), 1)
    <2>1. CASE /\ grant.addr # Refused /\ Advance
               /\ disk' = EnterTable(ExtendMeta(disk, grant, 1), Subsystems[main.i], grant.addr)
      <3>1. \E table : disk' = [ExtendMeta(disk, grant, 1) EXCEPT !.table = table]
        BY <2>1 DEF EnterTable
      <3> HIDE DEF grant
      <3>2. DiskShape(disk') /\ SpaceStep
        BY <1>5, <2>1, <3>1 DEF grant
      <3> QED BY <1>1, <1>2, <2>1, <3>2, MainMoves, Unmoved DEF StepOk
    <2> QED BY <1>3, <1>6, <2>1 DEF PlaceSubsystem
  <1>7. CASE PlacePreallocation
    <2> DEFINE grant == AllocateSpace(disk.space, MetaEnd(disk), Preallocation)
    <2>1. Preallocation \in Nat
      BY DEF Preallocation
    <2>2. CASE /\ grant.addr # Refused /\ Goto("flush")
               /\ disk' = ExtendMeta(disk, grant, Preallocation)
      <3>1. \E table : disk' = [ExtendMeta(disk, grant, Preallocation) EXCEPT !.table = table]
        <4>1. disk' = [ExtendMeta(disk, grant, Preallocation)
                         EXCEPT !.table = ExtendMeta(disk, grant, Preallocation).table]
          BY <1>1, <2>2 DEF ExtendMeta, DiskShape
        <4> QED BY <4>1
      <3> HIDE DEF grant
      <3>2. DiskShape(disk') /\ SpaceStep
        BY <1>5, <2>1, <2>2, <3>1 DEF grant
      <3> QED BY <1>1, <1>2, <2>2, <3>2, MainMoves, Unmoved DEF StepOk
    <2> QED BY <1>3, <1>7, <2>2 DEF PlacePreallocation
  <1> QED BY <1>4, <1>6, <1>7

\* The threads are waited for, and the metadata is written.
LEMMA TuneDoneSteps ==
  ASSUME ImageInv, TuneDone \/ Flush
  PROVE  StepOk
  <1>1. MainOk /\ DiskLike(disk) /\ KindOk /\ DiskShape(disk)
    BY DEF ImageInv, DiskLike, DiskShape
  <1>2. UNCHANGED <<plan, catalog, boxes, files>>
    BY DEF TuneDone, Flush, pools
  <1>3. CASE TuneDone
    <2>1. CASE FailWith \/ Goto("undefined")
      BY <1>1, <1>2, <1>3, <2>1, MainMoves, Unmoved DEF TuneDone, StepOk
    <2>2. CASE /\ plan.readOnly \/ disk.space.free # {}
               /\ main' = [main EXCEPT !.at = "data", !.i = 1, !.offset = MetadataSize(disk.space)]
      <3>1. MetadataSize(disk.space) \in Nat
        BY <1>1, <2>2, NextOffset DEF DiskLike, KindOk
      <3>2. MainOk'
        BY <1>1, <2>2, <3>1 DEF MainOk
      <3> QED BY <1>2, <1>3, <3>2, Unmoved DEF TuneDone, StepOk
    <2> QED BY <1>3, <2>1, <2>2 DEF TuneDone
  <1>4. CASE Flush
    <2>1. DOMAIN disk' = DOMAIN disk /\ disk'.meta = disk.meta /\ disk'.space = disk.space
      BY <1>1, <1>4 DEF Flush, FlushTrees, FlushSnapshot, FlushSuperblocks, DiskShape
    <2>2. DiskShape(disk') /\ SpaceStep
      BY <1>1, <2>1 DEF DiskShape, SpaceStep
    <2> QED BY <1>1, <1>2, <1>4, <2>2, MainMoves, Unmoved DEF Flush, StepOk
  <1> QED BY <1>3, <1>4

\* Main copies what is not compressed.
LEMMA DataSteps ==
  ASSUME ImageInv, InsertData \/ InsertHlinkData
  PROVE  StepOk
  <1>1. MainOk /\ LinksOk /\ plan \in Plans
    BY DEF ImageInv
  <1>2. UNCHANGED <<plan, files>>
    BY DEF InsertData, InsertHlinkData, pools
  <1>3. ASSUME NEW e, IsSeq(Content(e)), NEW obj, CopyObject(e, obj)
        PROVE  StepOk
    BY <1>2, <1>3, CopyObjectSteps, Unmoved DEF StepOk
  <1>4. CASE InsertData
    <2>1. CASE Advance /\ UNCHANGED <<disk, catalog, boxes>>
      BY <1>1, <1>2, <2>1, MainMoves, Unmoved DEF StepOk
    <2>2. CASE CopyObject(Entry, RecordOf(Entry.path).obj)
      <3>1. plan.entries \in Seq(Range(plan.entries))
        BY <1>1, PlanAssumption
      <3>2. main.i \in DOMAIN plan.entries
        BY <1>1, <1>4, <3>1 DEF InsertData, At, MainOk
      <3>3. IsSeq(Content(Entry))
        BY <1>1, <3>2, EntryIsEntry DEF Entry
      <3> QED BY <1>3, <2>2, <3>3
    <2> QED BY <1>4, <2>1, <2>2 DEF InsertData
  <1>5. CASE InsertHlinkData
    <2>1. main.i \in DOMAIN catalog.links
      BY <1>1, <1>5, SeqLen DEF InsertHlinkData, At, MainOk, LinksOk
    <2>2. IsSeq(Content(EntryOf(catalog.links[main.i].path)))
      BY <1>1, <2>1, KnownPath DEF LinksOk
    <2>3. CopyObject(EntryOf(catalog.links[main.i].path), catalog.links[main.i].obj)
      BY <1>5 DEF InsertHlinkData
    <2> QED BY <1>3, <2>2, <2>3
  <1> QED BY <1>4, <1>5

\* The containers are copied, or given to a thread.
LEMMA BoxSteps ==
  ASSUME ImageInv, CopyBox \/ SendBox
  PROVE  StepOk
  <1>1. MainOk /\ LinksOk /\ BoxesOk /\ FilesOk /\ DiskLike(disk) /\ DiskShape(disk)
    BY DEF ImageInv, DiskLike, DiskShape
  <1>2. UNCHANGED <<plan, boxes>>
    BY DEF CopyBox, SendBox, pools
  <1>3. IsSeq(Box.cells)
    <2>1. Len(BoxOrder) = 5 /\ DOMAIN BoxOrder = 1 .. 5
      BY DEF BoxOrder
    <2>2. main.i \in DOMAIN BoxOrder
      <3>1. main.i <= Len(BoxOrder)
        BY DEF CopyBox, SendBox, At
      <3> QED BY <1>1, <2>1, <3>1 DEF MainOk
    <2>3. BoxOrder[main.i] \in Range(BoxOrder)
      BY <2>2 DEF Range
    <2> QED BY <1>1, <2>3 DEF BoxesOk, BoxLike, Box
  <1>5. DOMAIN BoxRecord(catalog) = DOMAIN catalog /\ BoxRecord(catalog).links = catalog.links
    BY <1>1 DEF BoxRecord, LinksOk
  <1>6. CASE CopyBox
    <2> DEFINE grant == AllocateSpace(disk.space, AnyAddress, Len(Box.cells))
    <2>1. UNCHANGED files
      BY <1>6 DEF CopyBox, pools
    <2>2. CASE FailWith /\ UNCHANGED <<disk, catalog>>
      BY <1>1, <1>2, <2>1, <2>2, MainMoves, Unmoved DEF StepOk
    <2>3. ASSUME NEW fork,
                 disk' = CopyTo(disk, grant, Box.cells),
                 catalog' = SetFork(BoxRecord(catalog), Box.ino, fork), Advance
          PROVE  StepOk
      <3>1. DOMAIN disk' = DOMAIN disk /\ disk'.meta = disk.meta /\ disk'.space = grant.space
        BY <1>1, <2>3 DEF CopyTo, DiskShape
      <3>2. Len(Box.cells) \in Nat /\ AnyAddress \in Nat
        BY <1>3, SeqLen DEF AnyAddress
      <3>3. DiskShape(disk') /\ SpaceStep
        BY <1>1, <3>1, <3>2 DEF DiskShape, SpaceStep
      <3>4. DOMAIN catalog' = DOMAIN catalog /\ catalog'.links = catalog.links
        BY <1>1, <1>5, <2>3 DEF SetFork, LinksOk
      <3> QED BY <1>1, <1>2, <2>1, <2>3, <3>3, <3>4, MainMoves, LinksStay, Unmoved DEF StepOk
    <2> QED BY <1>6, <2>2, <2>3 DEF CopyBox
  <1>7. CASE SendBox
    <2> DEFINE job == Job("dlinks", "", Box.ino, BoxCmd[BoxOrder[main.i]], Box.cells)
    <2>1. IsSeq(job.cells)
      BY <1>3 DEF Job
    <2>2. Dispatch(job) /\ catalog' = BoxRecord(catalog) /\ UNCHANGED disk
          /\ main' = [main EXCEPT !.at = "box"]
      BY <1>7 DEF SendBox
    <2> HIDE DEF job
    <2>3. FilesOk'
      BY <1>1, <2>1, <2>2, DispatchSteps
    <2>4. MainOk'
      BY <1>1, <2>2 DEF MainOk
    <2> QED BY <1>1, <1>2, <1>5, <2>2, <2>3, <2>4, LinksStay, Unmoved DEF StepOk
  <1> QED BY <1>6, <1>7

\* Main hands the files of the list, and those of its folders, to threads.
LEMMA HandSteps ==
  ASSUME ImageInv, TuneFile \/ CompressDirEntry
  PROVE  StepOk
  <1>1. MainOk /\ FilesOk /\ plan \in Plans
    BY DEF ImageInv
  <1>2. UNCHANGED <<plan, disk, catalog, boxes>>
    BY DEF TuneFile, CompressDirEntry
  <1>3. ASSUME NEW frame, NEW path \in Paths(plan), NEW cmd, Dispatch(PathJob(frame, path, cmd))
        PROVE  FilesOk'
    <2>1. IsSeq(PathJob(frame, path, cmd).cells)
      BY <1>1, KnownPath DEF PathJob, Job
    <2> QED BY <1>1, <1>3, <2>1, DispatchSteps
  <1>4. CASE TuneFile
    <2>1. UNCHANGED files \/ Dispatch(PathJob("tune", Task.path, Task.cmd))
      BY <1>4 DEF TuneFile, pools
    <2>2. Task.path \in Paths(plan)
      BY <1>1, <1>4, TaskKnown DEF TuneFile, At, MainOk
    <2>3. FilesOk'
      BY <1>3, <2>1, <2>2, Unmoved
    <2>4. MainOk'
      BY <1>1, <1>4, MainMoves DEF TuneFile
    <2> QED BY <1>2, <2>3, <2>4, Unmoved DEF StepOk
  <1>5. CASE CompressDirEntry
    <2>1. UNCHANGED files \/ Dispatch(PathJob("folder", Member.path, Task.cmd))
      BY <1>5 DEF CompressDirEntry, pools
    <2>2. Member.path \in Paths(plan)
      <3>1. plan.entries \in Seq(Range(plan.entries))
        BY <1>1, PlanAssumption
      <3>2. main.j \in DOMAIN plan.entries
        BY <1>1, <1>5, <3>1 DEF CompressDirEntry, MainOk
      <3> QED BY <1>1, <3>2, EntryIsEntry DEF Member
    <2>3. FilesOk'
      BY <1>3, <2>1, <2>2, Unmoved
    <2>4. MainOk'
      BY <1>1, <1>5 DEF CompressDirEntry, MainOk
    <2> QED BY <1>2, <2>3, <2>4, Unmoved DEF StepOk
  <1> QED BY <1>4, <1>5

\* A thread moves on, without touching the disk.
LEMMA ThreadSteps ==
  ASSUME ImageInv, NEW f,
         TakeJob(f) \/ Look(f) \/ SplitChunk(f) \/ ChunksDone(f) \/ MarkRecord(f)
           \/ FinishJob(f) \/ SplitFails(f)
  PROVE  StepOk
  <1>1. MainOk /\ FilesOk /\ LinksOk
    BY DEF ImageInv
  <1>2. UNCHANGED <<plan, disk, boxes>>
    BY DEF TakeJob, Look, SplitChunk, ChunksDone, MarkRecord, FinishJob, SplitFails
  <1>3. MainOk'
    BY <1>1, MainMoves
    DEF TakeJob, Look, SplitChunk, ChunksDone, MarkRecord, FinishJob, SplitFails
  <1>4. \A pc : FileGo(f, pc) => FilesOk'
    BY <1>1 DEF FileGo, FilesOk, FileLike
  <1>5. \A obj, flags : catalog' = AddFlags(catalog, obj, flags) => LinksOk'
    <2>1. ASSUME NEW obj, NEW flags, catalog' = AddFlags(catalog, obj, flags)
          PROVE  LinksOk'
      <3>1. DOMAIN catalog' = DOMAIN catalog /\ catalog'.links = catalog.links
        BY <1>1, <2>1 DEF AddFlags, LinksOk
      <3> QED BY <1>1, <1>2, <3>1, LinksStay
    <2> QED BY <2>1
  <1>6. CASE TakeJob(f) \/ SplitChunk(f) \/ ChunksDone(f) \/ SplitFails(f)
    <2>1. UNCHANGED catalog
      BY <1>6 DEF TakeJob, SplitChunk, ChunksDone, SplitFails
    <2>2. FilesOk'
      <3>1. CASE TakeJob(f)
        BY <1>1, <3>1 DEF TakeJob, FilesOk, FileLike
      <3>2. CASE SplitChunk(f)
        BY <1>1, <3>2 DEF SplitChunk, FilesOk, FileLike
      <3>3. CASE ChunksDone(f)
        BY <1>4, <3>3 DEF ChunksDone
      <3>4. CASE SplitFails(f)
        <4>1. CASE files' = [files EXCEPT ![f].pc = "finish", ![f].bad = TRUE]
          BY <1>1, <4>1 DEF FilesOk, FileLike
        <4> QED BY <1>4, <3>4, <4>1 DEF SplitFails
      <3> QED BY <1>6, <3>1, <3>2, <3>3, <3>4
    <2> QED BY <1>2, <1>3, <2>1, <2>2, Unmoved DEF StepOk
  <1>7. CASE Look(f)
    <2> DEFINE job == files[f].job
               obj == Object(files[f].job)
    <2>1. FilesOk'
      <3>1. CASE FileGo(f, "finish")
        BY <1>4, <3>1
      <3>2. CASE \E pc, left : files' = [files EXCEPT ![f].pc = pc, ![f].left = left]
        BY <1>1, <3>2 DEF FilesOk, FileLike
      <3> QED BY <1>7, <3>1, <3>2 DEF Look, LookAt
    <2>2. LinksOk'
      <3>1. UNCHANGED catalog \/ \E flags : catalog' = AddFlags(catalog, obj, flags)
        BY <1>7 DEF Look, LookAt
      <3> QED BY <1>2, <1>5, <3>1, Unmoved
    <2> QED BY <1>2, <1>3, <2>1, <2>2, Unmoved DEF StepOk
  <1>8. CASE MarkRecord(f)
    <2> DEFINE obj == Object(files[f].job)
               flagged == AddFlags(catalog, obj, Marks(files[f].job))
    <2>1. catalog' = SetFork(flagged, obj, files[f].fork)
      BY <1>8 DEF MarkRecord
    <2>2. DOMAIN flagged = DOMAIN catalog /\ flagged.links = catalog.links
      BY <1>1 DEF AddFlags, LinksOk
    <2> HIDE DEF flagged
    <2>3. DOMAIN catalog' = DOMAIN catalog /\ catalog'.links = catalog.links
      BY <1>1, <2>1, <2>2 DEF SetFork, LinksOk
    <2>4. FilesOk'
      BY <1>4, <1>8 DEF MarkRecord
    <2> QED BY <1>1, <1>2, <1>3, <2>3, <2>4, LinksStay, Unmoved DEF StepOk
  <1>9. CASE FinishJob(f)
    <2>1. FileLike(NewFile)
      BY SeqEmpty DEF NewFile, NoJob, Job, FileLike
    <2>2. files' = [files EXCEPT ![f] = NewFile] /\ UNCHANGED catalog
      BY <1>9 DEF FinishJob
    <2>3. FilesOk'
      BY <1>1, <2>1, <2>2 DEF FilesOk
    <2> QED BY <1>2, <1>3, <2>2, <2>3, Unmoved DEF StepOk
  <1> QED BY <1>6, <1>7, <1>8, <1>9

\* A thread of chunkers moves on.
LEMMA ChunkSteps ==
  ASSUME ImageInv, NEW c, TakeChunk(c) \/ AppendChunk(c) \/ RetireChunk(c) \/ AppendFails(c)
  PROVE  StepOk
  <1>1. FilesOk
    BY DEF ImageInv
  <1>2. UNCHANGED <<plan, main, catalog, disk, boxes>>
    BY DEF TakeChunk, AppendChunk, RetireChunk, AppendFails
  <1>3. CASE TakeChunk(c) \/ AppendFails(c)
    <2>1. UNCHANGED files
      BY <1>3 DEF TakeChunk, AppendFails
    <2> QED BY <1>2, <2>1, Unmoved DEF StepOk
  <1>4. CASE AppendChunk(c)
    <2>1. \A t, k, cell : FileLike(t) => FileLike(AddChunk(t, k, cell))
      BY DEF FileLike, AddChunk
    <2>2. \E k, cell : \E g : files' = [files EXCEPT ![g] = AddChunk(@, k, cell)]
      BY <1>4 DEF AppendChunk
    <2>3. FilesOk'
      BY <1>1, <2>1, <2>2 DEF FilesOk
    <2> QED BY <1>2, <2>3, Unmoved DEF StepOk
  <1>5. CASE RetireChunk(c)
    <2>1. \A t, bad : FileLike(t) => FileLike(CountChunk(t, bad))
      BY DEF FileLike, CountChunk
    <2>2. files' = [files EXCEPT ![chunkers[c].owner] = CountChunk(@, chunkers[c].bad)]
      BY <1>5 DEF RetireChunk
    <2>3. FilesOk'
      BY <1>1, <2>1, <2>2 DEF FilesOk
    <2> QED BY <1>2, <2>3, Unmoved DEF StepOk
  <1> QED BY <1>3, <1>4, <1>5

\* A thread writes its file into the image: it does not come to it, or it
\* writes cells and a table and settles what was written, or it stops on the
\* way and leaves in the image what it wrote.
Writes(f) == WriteImage(f) \/ WriteLost(f) \/ WriteFails(f)
Leaves(f, d) == disk' = d /\ FileFails(f)
Puts(f, cells, table) ==
  SettleNew(f, WithTable(Stored(disk, MetadataSize(disk.space), cells), table),
            MetadataSize(disk.space), Len(files[f].job.cells) + 1)

LEMMA WritesAre ==
  ASSUME NEW f, Writes(f)
  PROVE  /\ files[f].pc = "write"
         /\ UNCHANGED <<plan, main, catalog, boxes, chunkers, frames>>
         /\ \/ Full /\ FileFails(f) /\ UNCHANGED <<disk, faults>>
            \/ /\ ~Full /\ faults'.seen = faults.seen
               /\ \E cells, table : Puts(f, cells, table)
            \/ /\ ~Full /\ faults'.seen = faults.seen + 1
               /\ \/ \E cells : Leaves(f, Stored(disk, MetadataSize(disk.space), cells))
                  \/ \E cells, table :
                       Leaves(f, WithTable(Stored(disk, MetadataSize(disk.space), cells), table))
  <1>1. CASE WriteImage(f)
    BY <1>1 DEF WriteImage, Write, Puts
  <1>2. CASE WriteLost(f)
    BY <1>2 DEF WriteLost, Write, Puts, FailureLost
  <1>3. CASE WriteFails(f)
    BY <1>3 DEF WriteFails, Leaves, FailureSeen
  <1> QED BY <1>1, <1>2, <1>3 DEF Writes

LEMMA WriteSteps ==
  ASSUME ImageInv, NEW f \in Threads, Writes(f)
  PROVE  StepOk
  <1>1. FilesOk /\ DiskLike(disk) /\ DiskShape(disk) /\ KindOk
    BY DEF ImageInv, DiskLike, DiskShape
  <1>2. UNCHANGED <<plan, main, catalog, boxes>>
    BY WritesAre
  <1>3. FileFails(f) => FilesOk'
    BY <1>1 DEF FileFails, FilesOk, FileLike
  <1>4. \A fork : FileStored(f, fork) => FilesOk'
    BY <1>1 DEF FileStored, FilesOk, FileLike
  <1>5. CASE FileFails(f) /\ UNCHANGED disk
    BY <1>2, <1>3, <1>5, Unmoved DEF StepOk
  <1>50. ASSUME NEW cells, NEW d, d = Stored(disk, MetadataSize(disk.space), cells)
         PROVE  DOMAIN d = DOMAIN disk /\ d.meta = disk.meta /\ d.space = disk.space
    BY <1>1, <1>50 DEF Stored, DiskShape
  <1>51. ASSUME NEW cells, NEW table, NEW d,
                d = WithTable(Stored(disk, MetadataSize(disk.space), cells), table)
         PROVE  DOMAIN d = DOMAIN disk /\ d.meta = disk.meta /\ d.space = disk.space
    <2>1. PICK e : e = Stored(disk, MetadataSize(disk.space), cells)
      OBVIOUS
    <2>2. DOMAIN e = DOMAIN disk /\ e.meta = disk.meta /\ e.space = disk.space
      BY <1>50, <2>1
    <2> QED BY <1>1, <1>51, <2>1, <2>2 DEF WithTable, DiskShape
  <1>52. ASSUME NEW d, DOMAIN d = DOMAIN disk, d.meta = disk.meta, d.space = disk.space,
                Leaves(f, d)
         PROVE  StepOk
    <2>1. DiskShape(disk') /\ SpaceStep
      BY <1>1, <1>52 DEF DiskShape, SpaceStep, Leaves
    <2> QED BY <1>2, <1>3, <1>52, <2>1, Unmoved DEF StepOk, Leaves
  <1>6. ASSUME ~Full, NEW cells, NEW table, NEW d,
               d = WithTable(Stored(disk, MetadataSize(disk.space), cells), table),
               SettleNew(f, d, MetadataSize(disk.space), Len(files[f].job.cells) + 1)
        PROVE  StepOk
    <2> DEFINE dst == MetadataSize(disk.space)
               len == Len(files[f].job.cells) + 1
    <2>1. dst \in Nat
      BY <1>1, <1>6, NextOffset DEF DiskLike, KindOk, Full
    <2>2. len \in Nat
      BY <1>1, SeqLen DEF FilesOk, FileLike
    <2>3. DOMAIN d = DOMAIN disk /\ d.meta = disk.meta /\ d.space = disk.space
      BY <1>51, <1>6
    <2>4. \E twin : Settle(f, d, dst, len, twin)
      BY <1>6 DEF SettleNew
    <2> HIDE DEF dst, len
    <2>5. CASE \E twin : disk' = DropCopy(d, dst) /\ FileStored(f, Fork(twin, len))
      <3>1. DOMAIN disk' = DOMAIN disk /\ disk'.meta = disk.meta /\ disk'.space = disk.space
        BY <1>1, <2>3, <2>5 DEF DropCopy, DiskShape
      <3>2. DiskShape(disk') /\ SpaceStep
        BY <1>1, <3>1 DEF DiskShape, SpaceStep
      <3> QED BY <1>2, <1>4, <2>5, <3>2, Unmoved DEF StepOk
    <2>6. CASE TakeSpace(f, d, AllocateSpace(d.space, dst, len), len)
      <3> DEFINE grant == AllocateSpace(d.space, dst, len)
      <3>1. CASE disk' = d /\ FileFails(f)
        BY <1>52, <2>3, <3>1 DEF Leaves
      <3>2. CASE /\ disk' = AddRange([d EXCEPT !.space = grant.space], Fork(grant.addr, len))
                 /\ FileStored(f, Fork(grant.addr, len))
        <4>1. /\ DOMAIN disk' = DOMAIN disk /\ disk'.meta = disk.meta
              /\ disk'.space = AllocateSpace(disk.space, dst, len).space
          BY <1>1, <2>3, <3>2 DEF AddRange, DiskShape
        <4>2. DiskShape(disk') /\ SpaceStep
          BY <1>1, <2>1, <2>2, <4>1 DEF DiskShape, SpaceStep
        <4> QED BY <1>2, <1>4, <3>2, <4>2, Unmoved DEF StepOk
      <3> QED BY <2>6, <3>1, <3>2 DEF TakeSpace
    <2> QED BY <2>4, <2>5, <2>6 DEF Settle
  <1>7. CASE ~Full /\ \E cells, table : Puts(f, cells, table)
    <2>1. PICK cells, table : Puts(f, cells, table)
      BY <1>7
    <2>2. PICK d : d = WithTable(Stored(disk, MetadataSize(disk.space), cells), table)
      OBVIOUS
    <2> QED BY <1>6, <1>7, <2>1, <2>2 DEF Puts
  <1>8. ASSUME NEW cells, Leaves(f, Stored(disk, MetadataSize(disk.space), cells))
        PROVE  StepOk
    <2>1. PICK d : d = Stored(disk, MetadataSize(disk.space), cells)
      OBVIOUS
    <2> QED BY <1>8, <1>50, <1>52, <2>1
  <1>9. ASSUME NEW cells, NEW table,
               Leaves(f, WithTable(Stored(disk, MetadataSize(disk.space), cells), table))
        PROVE  StepOk
    <2>1. PICK d : d = WithTable(Stored(disk, MetadataSize(disk.space), cells), table)
      OBVIOUS
    <2> QED BY <1>9, <1>51, <1>52, <2>1
  <1> QED BY <1>5, <1>7, <1>8, <1>9, WritesAre

--------------------------------------------------------------------------------
(* The program.                                                            *)

LEMMA NextOk ==
  ASSUME ImageInv, Next
  PROVE  StepOk
  <1>1. CASE MainStep
    BY <1>1, QuietSteps, MetadataSteps, PlaceSteps, TuneDoneSteps, DataSteps, BoxSteps, HandSteps
    DEF MainStep
  <1>2. CASE Mishap
    BY <1>2, QuietSteps, ThreadSteps, ChunkSteps, WriteSteps DEF Mishap, Writes
  <1>3. CASE \E t \in Threads : FileStep(t) \/ ChunkStep(t)
    BY <1>3, ThreadSteps, ChunkSteps, WriteSteps DEF FileStep, ChunkStep, Writes
  <1>4. CASE UnpackNext
    <2>1. UNCHANGED <<plan, main, catalog, disk, boxes, files>>
      BY <1>4 DEF UnpackNext, ReadSuper, FillTables, FillTrees, CreateFolders, UnpackFile,
                  FilesDone, UnpackHlink, HlinksDone, mkfsVars
    <2> QED BY <2>1, Unmoved DEF StepOk
  <1> QED BY <1>1, <1>2, <1>3, <1>4 DEF Next, MkfsNext

LEMMA ImageInvInit ==
  ASSUME Init
  PROVE  ImageInv
  <1>1. MkfsInit /\ plan \in Plans
    BY DEF Init, MkfsInit
  <1>2. GoodSpace(NewSpace(plan.readOnly, plan.blocks))
    <2>1. CASE plan.readOnly
      BY <2>1 DEF NewSpace, GoodSpace, Spaces, Sound
    <2>2. CASE ~plan.readOnly
      BY <1>1, <2>2, PlanAssumption, NewSpaceGood
    <2> QED BY <2>1, <2>2
  <1>3. MainOk /\ DiskLike(disk) /\ KindOk
    BY <1>1, <1>2 DEF MkfsInit, MainOk, DiskLike, KindOk, NewSpace
  <1>4. BoxesOk
    BY <1>1, SeqEmpty DEF MkfsInit, BoxesOk, BoxLike, NoBox
  <1>5. FilesOk
    BY <1>1, SeqEmpty DEF MkfsInit, FilesOk, FileLike, NewFile, NoJob, Job
  <1>6. LinksOk
    BY <1>1, SeqEmpty DEF MkfsInit, LinksOk
  <1> QED BY <1>1, <1>3, <1>4, <1>5, <1>6 DEF ImageInv

LEMMA ImageInvStep ==
  ASSUME ImageInv, [Next]_vars
  PROVE  ImageInv' /\ SpaceStep
  <1>1. CASE Next
    <2>1. StepOk
      BY <1>1, NextOk
    <2>2. DiskLike(disk')
      BY <2>1, SpaceStepGood DEF StepOk, ImageInv
    <2>3. KindOk'
      BY <2>1, KindStays DEF StepOk, ImageInv, KindOk
    <2> QED BY <2>1, <2>2, <2>3 DEF StepOk, ImageInv
  <1>2. CASE UNCHANGED vars
    BY <1>2 DEF vars, mkfsVars, ImageInv, MainOk, KindOk, BoxesOk, FilesOk, LinksOk, Paths, SpaceStep
  <1> QED BY <1>1, <1>2

\* Whatever the plan, the number of threads and the faults, the free extents
\* never overlap and never hold a block that is in use.
THEOREM SpaceAlwaysSound == Spec => []SpaceSound
  <1>1. Init => ImageInv
    BY ImageInvInit
  <1>2. ImageInv /\ [Next]_vars => ImageInv'
    BY ImageInvStep
  <1>3. ImageInv => SpaceSound
    BY DEF ImageInv, DiskLike, GoodSpace, SpaceSound
  <1> QED BY <1>1, <1>2, <1>3, PTL DEF Spec

\* No step of main or of a thread takes back a block it or another was given:
\* what is in use stays in use to the end of the run.
THEOREM GivenStaysGiven ==
  Spec => [][\A b \in Nat : Taken(disk.space, b) => Taken(disk'.space, b)]_vars
  <1>1. Init => ImageInv
    BY ImageInvInit
  <1>2. ImageInv /\ [Next]_vars => ImageInv'
    BY ImageInvStep
  <1>3. ImageInv /\ [Next]_vars
          => [\A b \in Nat : Taken(disk.space, b) => Taken(disk'.space, b)]_vars
    <2> SUFFICES ASSUME ImageInv, [Next]_vars, NEW b \in Nat, Taken(disk.space, b)
                 PROVE  Taken(disk'.space, b)
      OBVIOUS
    <2>1. SpaceStep /\ GoodSpace(disk.space)
      BY ImageInvStep DEF ImageInv, DiskLike
    <2> QED BY <2>1, GivenOnce DEF SpaceStep
  <1> QED BY <1>1, <1>2, <1>3, PTL DEF Spec

--------------------------------------------------------------------------------
(* The verdict.  An error travels from the thread that meets it to main:   *)
(* from a chunk to its file, from there to the frame, and from the frame   *)
(* to main, which looks at each frame at one place only.  That it arrives  *)
(* hangs on the counters: a thread is counted as long as it works, so that *)
(* nobody who looks at a count of zero misses an error still on its way.   *)

FrameNames == {"tune", "folder", "dlinks"}

\* Who is counted where.
Workers(frame) == {f \in Threads : ~Idle(files[f]) /\ files[f].job.frame = frame}
Helpers(f) == {c \in Threads : ~Idle(chunkers[c]) /\ chunkers[c].owner = f}

FramesOk == frames \in [FrameNames -> [count : Nat, error : BOOLEAN]]

WorkLike(t) ==
  /\ t.job.frame \in FrameNames /\ t.has \in BOOLEAN /\ t.bad \in BOOLEAN
  /\ t.left \in Int /\ t.k \in Nat /\ t.k <= Len(t.job.cells) + 1
  /\ t.pc \in {"idle", "look"} => t.k = 1
  /\ t.bad => t.pc \in {"split", "finish"}
WorkOk == \A f \in Threads : WorkLike(files[f])

ChunkLike(t) ==
  /\ DOMAIN t = {"pc", "has", "owner", "chunk", "bad"}
  /\ t.has \in BOOLEAN /\ t.bad \in BOOLEAN
  /\ ~Idle(t) => t.owner \in Threads
  /\ t.bad => t.pc = "retire"
ChunkersOk == DOMAIN chunkers = Threads /\ \A c \in Threads : ChunkLike(chunkers[c])

\* A frame counts the threads that work for it; a file counts its chunks that
\* are still to be read and those that threads of chunkers work on.
CountOk(frame) == frames[frame].count = Cardinality(Workers(frame))
LeftOk(f) ==
  IF files[f].pc = "split"
  THEN files[f].left = Len(files[f].job.cells) - files[f].k + 1 + Cardinality(Helpers(f))
  ELSE Helpers(f) = {}
CountsOk == (\A frame \in FrameNames : CountOk(frame)) /\ \A f \in Threads : LeftOk(f)

\* While a frame counts a thread, main is where it waits for the frame.
WaitingOk ==
  /\ frames["tune"].count > 0 => main.at \in {"tune", "folder"}
  /\ frames["folder"].count > 0 => main.at = "folder"
  /\ frames["dlinks"].count > 0 => main.at = "box"

\* An error in a frame is one main has seen, or is yet to look at.
SeenOk ==
  /\ main.error \in BOOLEAN
  /\ main.error => main.at \in {"exit", "failed", "stuck"}
  /\ frames["tune"].error => main.error \/ main.at \in {"tune", "folder"}
  /\ frames["folder"].error => main.error \/ main.at = "folder"
  /\ frames["dlinks"].error => main.error \/ main.at \in {"boxes", "box"}

\* An error that is not lost, wherever it is on its way to main.
Trouble ==
  \/ main.error
  \/ \E frame \in FrameNames : frames[frame].error
  \/ \E f \in Threads : files[f].bad
  \/ \E c \in Threads : chunkers[c].bad
BadList == \E i \in DOMAIN plan.list : BadLine(plan.list[i])

BlameOk ==
  /\ faults.seen \in Nat
  /\ faults.seen > 0 => Trouble
  /\ plan.readOnly /\ Trouble => faults.seen > 0
  /\ main.at = "failed" => Trouble \/ BadList

\* A read-only image refuses nothing: what main asks for is always the next
\* free block, so that there every error is a fault.
TailOk ==
  plan.readOnly =>
    /\ main.at \in {"list", "metadata"} => disk.space.first = 0
    /\ main.at = "fixed" => disk.space.first = main.i - 1
    /\ main.at \in {"tune", "folder", "data", "hlinks", "boxes", "box", "place"}
         => disk.space.first > 0
    /\ main.at \in {"data", "hlinks"} => main.offset = disk.space.first
    /\ main.at \in {"list", "metadata", "fixed", "tune", "folder", "data", "hlinks", "boxes", "box"}
         => disk.meta.first = 0 /\ disk.meta.count = 0
    /\ main.at = "place" =>
         \/ disk.meta.first = 0 /\ disk.meta.count = 0
         \/ disk.meta.first > 0 /\ MetaEnd(disk) = disk.space.first

\* What an undefined program does is not followed.
Good ==
  /\ FramesOk /\ WorkOk /\ ChunkersOk /\ CountsOk
  /\ WaitingOk /\ SeenOk /\ BlameOk /\ TailOk
VerdictInv == main.at # "undefined" => Good

--------------------------------------------------------------------------------
(* Counting.                                                               *)

LEMMA ThreadsFinite ==
  /\ IsFiniteSet(Threads)
  /\ \A frame : IsFiniteSet(Workers(frame)) /\ Cardinality(Workers(frame)) \in Nat
  /\ \A f : IsFiniteSet(Helpers(f)) /\ Cardinality(Helpers(f)) \in Nat
  <1>1. IsFiniteSet(Threads)
    BY ProcessorsAssumption, FS_Interval DEF Threads
  <1>2. ASSUME NEW frame
        PROVE  IsFiniteSet(Workers(frame)) /\ Cardinality(Workers(frame)) \in Nat
    <2>1. Workers(frame) \subseteq Threads
      BY DEF Workers
    <2> QED BY <1>1, <2>1, FS_Subset, FS_CardinalityType
  <1>3. ASSUME NEW f
        PROVE  IsFiniteSet(Helpers(f)) /\ Cardinality(Helpers(f)) \in Nat
    <2>1. Helpers(f) \subseteq Threads
      BY DEF Helpers
    <2> QED BY <1>1, <2>1, FS_Subset, FS_CardinalityType
  <1> QED BY <1>1, <1>2, <1>3

\* A thread of files that works is counted, and main waits for it.
LEMMA BusyWhere ==
  ASSUME Good, NEW f \in Threads, ~Idle(files[f])
  PROVE  /\ files[f].job.frame \in FrameNames
         /\ frames[files[f].job.frame].count > 0
         /\ main.at \in {"tune", "folder", "box"}
  <1> DEFINE frame == files[f].job.frame
  <1>1. frame \in FrameNames
    BY DEF Good, WorkOk, WorkLike
  <1>2. f \in Workers(frame)
    BY DEF Workers
  <1>3. Cardinality(Workers(frame)) > 0
    BY <1>2, ThreadsFinite, FS_EmptySet
  <1>4. frames[frame].count > 0
    BY <1>1, <1>3 DEF Good, CountsOk, CountOk
  <1> QED BY <1>1, <1>4 DEF Good, WaitingOk, FrameNames

\* A thread of chunkers that works has a chunk of a file that is being split.
LEMMA HelperWhere ==
  ASSUME Good, NEW c \in Threads, ~Idle(chunkers[c])
  PROVE  /\ chunkers[c].owner \in Threads
         /\ c \in Helpers(chunkers[c].owner)
         /\ files[chunkers[c].owner].pc = "split"
  <1>1. chunkers[c].owner \in Threads
    BY DEF Good, ChunkersOk, ChunkLike
  <1>2. c \in Helpers(chunkers[c].owner)
    BY DEF Helpers
  <1> QED BY <1>1, <1>2 DEF Good, CountsOk, LeftOk

\* When no frame counts anybody, all threads are idle.
LEMMA NobodyWorks ==
  ASSUME Good, main.at \notin {"tune", "folder", "box"}
  PROVE  /\ \A f \in Threads : Idle(files[f]) /\ ~files[f].bad
         /\ \A c \in Threads : Idle(chunkers[c]) /\ ~chunkers[c].bad
  <1>1. \A f \in Threads : Idle(files[f])
    BY BusyWhere
  <1>2. \A f \in Threads : ~files[f].bad
    BY <1>1 DEF Good, WorkOk, WorkLike, Idle
  <1>3. \A c \in Threads : Idle(chunkers[c])
    BY <1>1, HelperWhere DEF Idle
  <1>4. \A c \in Threads : ~chunkers[c].bad
    BY <1>3 DEF Good, ChunkersOk, ChunkLike, Idle
  <1> QED BY <1>1, <1>2, <1>3, <1>4

--------------------------------------------------------------------------------
(* Main moves.                                                             *)

\* What main may do while the pools stay as they are: leave a frame's phase
\* only when the frame counts nobody, and with its error in hand.
Passes ==
  /\ UNCHANGED <<plan, pools, faults>>
  /\ main'.error \in BOOLEAN /\ (main.error => main'.error)
  /\ main'.error => main'.at \in {"exit", "failed", "stuck"}
  /\ main'.error /\ ~main.error /\ plan.readOnly => faults.seen > 0
  /\ main'.at = "failed" => main'.error \/ BadList
  /\ main'.at \notin {"tune", "folder"} =>
       frames["tune"].count = 0 /\ (frames["tune"].error => main'.error)
  /\ main'.at # "folder" =>
       frames["folder"].count = 0 /\ (frames["folder"].error => main'.error)
  /\ main'.at # "box" => frames["dlinks"].count = 0
  /\ main'.at \notin {"boxes", "box"} => (frames["dlinks"].error => main'.error)

LEMMA PoolsStay ==
  ASSUME Good, UNCHANGED pools
  PROVE  FramesOk' /\ WorkOk' /\ ChunkersOk' /\ CountsOk'
  <1>1. files' = files /\ chunkers' = chunkers /\ frames' = frames
    BY DEF pools
  <1>2. \A frame : Workers(frame)' = Workers(frame)
    BY <1>1 DEF Workers
  <1>3. \A f : Helpers(f)' = Helpers(f)
    BY <1>1 DEF Helpers
  <1>4. CountsOk'
    BY <1>1, <1>2, <1>3 DEF Good, CountsOk, CountOk, LeftOk
  <1> QED BY <1>1, <1>4 DEF Good, FramesOk, WorkOk, ChunkersOk

LEMMA PassesOk ==
  ASSUME Good, Passes
  PROVE  /\ FramesOk' /\ WorkOk' /\ ChunkersOk' /\ CountsOk'
         /\ WaitingOk' /\ SeenOk' /\ BlameOk'
  <1>1. /\ files' = files /\ chunkers' = chunkers /\ frames' = frames
        /\ plan' = plan /\ faults' = faults
    BY DEF Passes, pools
  <1>2. FramesOk' /\ WorkOk' /\ ChunkersOk' /\ CountsOk'
    BY PoolsStay DEF Passes
  <1>3. WaitingOk'
    BY <1>1 DEF Passes, Good, FramesOk, FrameNames, WaitingOk
  <1>4. SeenOk'
    BY <1>1 DEF Passes, SeenOk
  <1>5. BlameOk'
    <2>1. Trouble' <=> Trouble \/ main'.error
      BY <1>1 DEF Trouble, Passes
    <2>2. BadList' <=> BadList
      BY <1>1 DEF BadList, BadLine
    <2>3. plan.readOnly /\ Trouble' => faults.seen > 0
      BY <2>1 DEF Passes, Good, BlameOk, Trouble
    <2>4. faults.seen > 0 => Trouble'
      BY <2>1 DEF Good, BlameOk
    <2>5. main'.at = "failed" => Trouble' \/ BadList'
      BY <2>1, <2>2 DEF Passes
    <2> QED BY <1>1, <2>3, <2>4, <2>5 DEF Good, BlameOk
  <1> QED BY <1>2, <1>3, <1>4, <1>5

\* The fields of main after a move.
LEMMA Moved ==
  ASSUME ImageInv
  PROVE  /\ \A at : Goto(at) =>
              /\ main'.at = at /\ main'.i = 1
              /\ main'.offset = main.offset /\ main'.error = main.error
         /\ Advance =>
              /\ main'.at = main.at /\ main'.i = main.i + 1
              /\ main'.offset = main.offset /\ main'.error = main.error
         /\ FailWith => main'.at = "exit" /\ main'.error = TRUE
  BY DEF ImageInv, MainOk, Goto, Advance, FailWith

\* While main stays where it is, it passes nothing by.
LEMMA StayPasses ==
  ASSUME Good, UNCHANGED <<plan, pools, faults>>, main'.at = main.at, main'.error = main.error
  PROVE  Passes
  <1>1. frames \in [FrameNames -> [count : Nat, error : BOOLEAN]]
    BY DEF Good, FramesOk
  <1>2. SeenOk /\ WaitingOk
    BY DEF Good
  <1>3. main.at = "failed" => main.error \/ BadList
    <2>1. main.at = "failed" /\ ~BadList => Trouble
      BY DEF Good, BlameOk
    <2>2. ASSUME main.at = "failed", ~BadList, ~main.error
          PROVE  FALSE
      <3>1. \A f \in Threads : ~files[f].bad
        BY <2>2, NobodyWorks
      <3>2. \A c \in Threads : ~chunkers[c].bad
        BY <2>2, NobodyWorks
      <3>3. \A frame \in FrameNames : ~frames[frame].error
        BY <1>2, <2>2 DEF SeenOk, FrameNames
      <3> QED BY <2>1, <2>2, <3>1, <3>2, <3>3 DEF Trouble
    <2> QED BY <2>2
  <1> QED BY <1>1, <1>2, <1>3 DEF Passes, SeenOk, WaitingOk, FrameNames

\* A read-only image grants what is asked for at its end.
LEMMA TailGrants ==
  ASSUME ImageInv, plan.readOnly, NEW offset \in {AnyAddress, disk.space.first}, NEW len \in Nat,
         NEW grant, grant = AllocateSpace(disk.space, offset, len)
  PROVE  /\ disk.space.first \in Nat
         /\ grant.addr = disk.space.first /\ grant.addr # Refused
         /\ grant.space.first = disk.space.first + len
  <1>1. disk.space \in Spaces /\ disk.space.readOnly
    BY DEF ImageInv, DiskLike, GoodSpace, KindOk
  <1>2. grant = Grant(disk.space, disk.space.first, [disk.space EXCEPT !.first = @ + len])
    BY <1>1 DEF AllocateSpace, GetFreeTail
  <1>3. disk.space.first \in Nat
    BY <1>1 DEF Spaces
  <1> QED BY <1>1, <1>2, <1>3 DEF Grant, Refused, Spaces

\* The tail of the image depends on little.
LEMMA TailStays ==
  ASSUME TailOk, UNCHANGED plan, disk'.space.first = disk.space.first, disk'.meta = disk.meta,
         main'.at = main.at, main'.offset = main.offset, main.at # "fixed"
  PROVE  TailOk'
  BY DEF TailOk, MetaEnd

LEMMA GoodStep ==
  ASSUME Good, Passes, TailOk'
  PROVE  Good'
  BY PassesOk DEF Good

\* Outside the last phases nothing is asked of an image that has failed.
LEMMA TailOver ==
  ASSUME main'.at \notin {"list", "metadata", "fixed", "tune", "folder", "data", "hlinks",
                          "boxes", "box", "place"}
  PROVE  TailOk'
  BY DEF TailOk

\* Main fails: at the end of the image in a sized one, or with a fault.
LEMMA FailsGood ==
  ASSUME ImageInv, Good, FailWith, UNCHANGED <<plan, pools, faults>>,
         main.at \notin {"tune", "folder", "box"}, plan.readOnly => faults.seen > 0
  PROVE  Good'
  <1>1. main'.at = "exit" /\ main'.error = TRUE
    BY Moved
  <1>2. frames["tune"].count = 0 /\ frames["folder"].count = 0 /\ frames["dlinks"].count = 0
    BY DEF Good, WaitingOk, FramesOk, FrameNames
  <1>3. Passes
    BY <1>1, <1>2 DEF Passes
  <1> QED BY <1>1, <1>3, TailOver, GoodStep

--------------------------------------------------------------------------------
(* The steps of main.                                                      *)

LEMMA ListGood ==
  ASSUME ImageInv, Good,
         ReadList \/ InsertMetadata \/ InsertHlinksMetadata \/ FixedAreasDone
  PROVE  Good'
  <1>1. UNCHANGED <<plan, disk, pools, faults>>
    BY DEF ReadList, InsertMetadata, InsertHlinksMetadata, FixedAreasDone
  <1>2. SeenOk /\ WaitingOk /\ FramesOk /\ TailOk /\ MainOk
    BY DEF Good, ImageInv
  <1>3. main.at \in {"list", "metadata", "fixed"}
    BY DEF ReadList, InsertMetadata, InsertHlinksMetadata, FixedAreasDone, At, Past
  <1>4. ~main.error /\ \A frame \in FrameNames : frames[frame].count = 0 /\ ~frames[frame].error
    BY <1>2, <1>3 DEF SeenOk, WaitingOk, FramesOk, FrameNames
  <1>5. main'.error = FALSE
    BY <1>4, Moved, <1>2
    DEF ReadList, InsertMetadata, InsertHlinksMetadata, FixedAreasDone, SeenOk
  <1>6. main'.at = "failed" => BadList
    BY <1>3, Moved DEF ReadList, InsertMetadata, InsertHlinksMetadata, FixedAreasDone, BadList
  <1>7. Passes
    BY <1>1, <1>4, <1>5, <1>6 DEF Passes, FrameNames
  <1>8. TailOk'
    <2>1. CASE ReadList
      <3>1. main'.at \in {"failed", "metadata"} /\ main.at = "list"
        BY <2>1, Moved DEF ReadList
      <3> QED BY <1>1, <1>2, <3>1 DEF TailOk
    <2>2. CASE InsertMetadata
      <3>1. main'.at = "metadata" /\ main.at = "metadata"
        BY <2>2, Moved DEF InsertMetadata, At
      <3> QED BY <1>1, <1>2, <3>1 DEF TailOk
    <2>3. CASE InsertHlinksMetadata
      <3>1. main'.at = "fixed" /\ main'.i = 1 /\ main.at = "metadata"
        BY <2>3, Moved DEF InsertHlinksMetadata, Past
      <3> QED BY <1>1, <1>2, <3>1 DEF TailOk
    <2>4. CASE FixedAreasDone
      <3>1. main'.at = "tune" /\ main.at = "fixed" /\ main.i > 4
        BY <2>4, Moved DEF FixedAreasDone, Past, FixedAreas
      <3> QED BY <1>1, <1>2, <3>1 DEF TailOk, MainOk
    <2> QED BY <2>1, <2>2, <2>3, <2>4
  <1> QED BY <1>7, <1>8, GoodStep

\* Each fixed area is asked for where the one before it ended.
LEMMA FixedGood ==
  ASSUME ImageInv, Good, AllocateFixedArea
  PROVE  Good'
  <1> DEFINE offset == FixedAreas[main.i]
             grant == AllocateSpace(disk.space, offset, 1)
  <1>1. UNCHANGED <<plan, pools, faults>> /\ main.at = "fixed" /\ main.i \in 1 .. 4
    BY DEF AllocateFixedArea, At, FixedAreas, ImageInv, MainOk
  <1>2. plan.readOnly => disk.space.first = main.i - 1 /\ disk.meta.first = 0 /\ disk.meta.count = 0
    BY <1>1 DEF Good, TailOk
  <1>3. plan.readOnly => offset \in {AnyAddress, disk.space.first}
    <2>1. offset \in {AnyAddress, main.i - 1}
      <3>1. CASE main.i = 1
        BY <3>1 DEF FixedAreas, AnyAddress
      <3>2. CASE main.i = 2
        BY <3>2 DEF FixedAreas, AnyAddress
      <3>3. CASE main.i = 3
        BY <3>3 DEF FixedAreas, AnyAddress
      <3>4. CASE main.i = 4
        BY <3>4 DEF FixedAreas, AnyAddress
      <3> QED BY <1>1, <3>1, <3>2, <3>3, <3>4
    <2> QED BY <1>2, <2>1
  <1>4. plan.readOnly => grant.addr # Refused /\ grant.space.first = main.i
    <2> HIDE DEF offset
    <2>1. plan.readOnly => grant.addr # Refused /\ grant.space.first = disk.space.first + 1
      BY <1>3, TailGrants
    <2> QED BY <1>1, <1>2, <2>1
  <1> HIDE DEF grant
  <1>5. CASE grant.addr = Refused /\ FailWith
    BY <1>1, <1>4, <1>5, FailsGood
  <1>6. CASE /\ disk' = [disk EXCEPT !.space = grant.space,
                                     !.fixed = @ \cup {grant.addr},
                                     !.tables = grant.addr]
             /\ Advance
    <2>1. main'.at = main.at /\ main'.i = main.i + 1 /\ main'.error = main.error
      BY <1>6, Moved
    <2>2. disk'.space = grant.space /\ disk'.meta = disk.meta
      BY <1>6 DEF ImageInv, DiskLike
    <2>3. TailOk'
      BY <1>1, <1>2, <1>4, <2>1, <2>2 DEF TailOk
    <2> QED BY <1>1, <2>1, <2>3, StayPasses, GoodStep
  <1> QED BY <1>5, <1>6 DEF AllocateFixedArea, grant

\* Main goes through the list while threads work on it.
LEMMA WaitGood ==
  ASSUME ImageInv, Good, TuneFolder \/ CompressDirDone \/ TuneDone
  PROVE  main'.at = "undefined" \/ Good'
  <1>1. UNCHANGED <<plan, disk, pools, faults>>
    BY DEF TuneFolder, CompressDirDone, TuneDone
  <1>2. SeenOk /\ WaitingOk /\ FramesOk /\ TailOk /\ MainOk /\ BlameOk
    BY DEF Good, ImageInv
  <1>3. main.at \in {"tune", "folder"}
    BY DEF TuneFolder, CompressDirDone, TuneDone, At, Past
  <1>4. ~main.error /\ frames["dlinks"].count = 0 /\ ~frames["dlinks"].error
    BY <1>2, <1>3 DEF SeenOk, WaitingOk, FramesOk, FrameNames
  <1>5. \A frame \in FrameNames : plan.readOnly /\ frames[frame].error => faults.seen > 0
    BY <1>2 DEF BlameOk, Trouble
  <1>6. CASE TuneFolder
    <2>1. main'.at = "folder" /\ main'.error = main.error /\ main.at = "tune"
      BY <1>2, <1>6 DEF TuneFolder, MainOk, At
    <2>2. Passes
      BY <1>1, <1>2, <1>4, <2>1 DEF Passes, SeenOk
    <2>3. TailOk'
      BY <1>1, <1>2, <2>1 DEF TailOk
    <2> QED BY <2>2, <2>3, GoodStep
  <1>7. CASE CompressDirDone
    <2>1. main.at = "folder" /\ frames["folder"].count = 0
      BY <1>7 DEF CompressDirDone
    <2>2. CASE ~frames["folder"].error /\ main' = [main EXCEPT !.at = "tune", !.i = @ + 1]
      <3>1. main'.at = "tune" /\ main'.error = main.error
        BY <1>2, <2>2 DEF MainOk
      <3>2. Passes
        BY <1>1, <1>2, <1>4, <2>1, <2>2, <3>1 DEF Passes, SeenOk
      <3>3. TailOk'
        BY <1>1, <1>2, <2>1, <3>1 DEF TailOk
      <3> QED BY <3>2, <3>3, GoodStep
    <2>3. CASE frames["folder"].error /\ frames["tune"].count = 0 /\ FailWith
      <3>1. main'.at = "exit" /\ main'.error = TRUE
        BY <2>3, Moved
      <3>2. Passes
        BY <1>1, <1>4, <1>5, <2>1, <2>3, <3>1 DEF Passes, FrameNames
      <3> QED BY <3>1, <3>2, TailOver, GoodStep
    <2>4. CASE Goto("undefined")
      BY <2>4, Moved
    <2> QED BY <1>7, <2>2, <2>3, <2>4 DEF CompressDirDone
  <1>8. CASE TuneDone
    <2>1. main.at = "tune" /\ frames["tune"].count = 0
      BY <1>8 DEF TuneDone, Past
    <2>2. frames["folder"].count = 0 /\ ~frames["folder"].error
      BY <1>2, <1>4, <2>1 DEF SeenOk, WaitingOk, FramesOk, FrameNames
    <2>3. CASE frames["tune"].error /\ FailWith
      <3>1. main'.at = "exit" /\ main'.error = TRUE
        BY <2>3, Moved
      <3>2. Passes
        BY <1>1, <1>4, <1>5, <2>1, <2>2, <2>3, <3>1 DEF Passes, FrameNames
      <3> QED BY <3>1, <3>2, TailOver, GoodStep
    <2>4. CASE Goto("undefined")
      BY <2>4, Moved
    <2>5. CASE /\ ~frames["tune"].error
               /\ main' = [main EXCEPT !.at = "data", !.i = 1, !.offset = MetadataSize(disk.space)]
      <3>1. main'.at = "data" /\ main'.error = main.error /\ main'.offset = MetadataSize(disk.space)
        BY <1>2, <2>5 DEF MainOk
      <3>2. Passes
        BY <1>1, <1>2, <1>4, <2>1, <2>2, <2>5, <3>1 DEF Passes, SeenOk
      <3>3. plan.readOnly => main'.offset = disk.space.first
        BY <3>1 DEF MetadataSize, ImageInv, KindOk
      <3>4. TailOk'
        BY <1>1, <1>2, <2>1, <3>1, <3>3 DEF TailOk
      <3> QED BY <3>2, <3>4, GoodStep
    <2> QED BY <1>8, <2>3, <2>4, <2>5 DEF TuneDone
  <1> QED BY <1>6, <1>7, <1>8

\* What main copies goes where the image ends; only a sized one may refuse.
LEMMA CopyGood ==
  ASSUME ImageInv, Good, UNCHANGED <<plan, pools, faults>>, main.at \in {"data", "hlinks"},
         NEW obj, NEW cells, IsSeq(cells), CopyFile(obj, cells)
  PROVE  Good'
  <1> DEFINE grant == AllocateSpace(disk.space, main.offset, Len(cells))
  <1>1. Len(cells) \in Nat /\ TailOk /\ MainOk
    BY SeqLen DEF Good, ImageInv
  <1>2. plan.readOnly => main.offset = disk.space.first /\ disk.space.first > 0
                           /\ disk.meta.first = 0 /\ disk.meta.count = 0
    BY <1>1 DEF TailOk
  <1>3. plan.readOnly => /\ disk.space.first \in Nat
                         /\ grant.addr = disk.space.first /\ grant.addr # Refused
                         /\ grant.space.first = disk.space.first + Len(cells)
    BY <1>1, <1>2, TailGrants
  <1> HIDE DEF grant
  <1>4. CASE Advance /\ UNCHANGED <<disk, catalog>>
    <2>1. main'.at = main.at /\ main'.offset = main.offset /\ main'.error = main.error
      BY <1>4, Moved
    <2> QED BY <1>1, <1>4, <2>1, StayPasses, TailStays, GoodStep
  <1>5. CASE grant.addr = Refused /\ FailWith
    BY <1>3, <1>5, FailsGood
  <1>6. CASE Copied(obj, cells, grant)
    <2>1. /\ main'.at = main.at /\ main'.error = main.error
          /\ main'.offset = grant.addr + Len(cells)
      BY <1>1, <1>6 DEF Copied, MainOk
    <2>2. disk'.space = grant.space /\ disk'.meta = disk.meta
      <3>1. DOMAIN disk = {"space", "blocks", "ranges", "fixed", "tables", "meta", "table"}
        BY DEF ImageInv, DiskLike
      <3> QED BY <1>6, <3>1 DEF Copied, AddRange, CopyTo
    <2>3. TailOk'
      BY <1>1, <1>2, <1>3, <2>1, <2>2 DEF TailOk
    <2> QED BY <2>1, <2>3, StayPasses, GoodStep
  <1> QED BY <1>4, <1>5, <1>6 DEF CopyFile, grant

LEMMA ObjectGood ==
  ASSUME ImageInv, Good, UNCHANGED <<plan, pools, faults>>, main.at \in {"data", "hlinks"},
         NEW e, IsSeq(Content(e)), NEW obj, CopyObject(e, obj)
  PROVE  Good'
  <1>1. CASE Advance /\ UNCHANGED disk
    <2>1. main'.at = main.at /\ main'.offset = main.offset /\ main'.error = main.error
      BY <1>1, Moved
    <2> QED BY <1>1, <2>1, StayPasses, TailStays, GoodStep DEF Good
  <1>2. CASE CopyFile(obj, Content(e))
    BY <1>2, CopyGood
  <1> QED BY <1>1, <1>2 DEF CopyObject

LEMMA DataGood ==
  ASSUME ImageInv, Good, InsertData \/ InsertHlinkData
  PROVE  Good'
  <1>1. MainOk /\ LinksOk /\ plan \in Plans
    BY DEF ImageInv
  <1>2. UNCHANGED <<plan, pools, faults>> /\ main.at \in {"data", "hlinks"}
    BY DEF InsertData, InsertHlinkData, At
  <1>3. CASE InsertData
    <2>1. CASE Advance /\ UNCHANGED <<disk, catalog, boxes>>
      <3>1. main'.at = main.at /\ main'.offset = main.offset /\ main'.error = main.error
        BY <2>1, Moved
      <3> QED BY <1>2, <2>1, <3>1, StayPasses, TailStays, GoodStep DEF Good
    <2>2. CASE CopyObject(Entry, RecordOf(Entry.path).obj)
      <3>1. plan.entries \in Seq(Range(plan.entries))
        BY <1>1, PlanAssumption
      <3>2. main.i \in DOMAIN plan.entries
        BY <1>1, <1>3, <3>1 DEF InsertData, At, MainOk
      <3>3. IsSeq(Content(Entry))
        BY <1>1, <3>2, EntryIsEntry DEF Entry
      <3> QED BY <1>2, <2>2, <3>3, ObjectGood
    <2> QED BY <1>3, <2>1, <2>2 DEF InsertData
  <1>4. CASE InsertHlinkData
    <2>1. main.i \in DOMAIN catalog.links
      BY <1>1, <1>4, SeqLen DEF InsertHlinkData, At, MainOk, LinksOk
    <2>2. IsSeq(Content(EntryOf(catalog.links[main.i].path)))
      BY <1>1, <2>1, KnownPath DEF LinksOk
    <2>3. CopyObject(EntryOf(catalog.links[main.i].path), catalog.links[main.i].obj)
      BY <1>4 DEF InsertHlinkData
    <2> QED BY <1>2, <2>2, <2>3, ObjectGood
  <1> QED BY <1>3, <1>4

\* Main goes on, with nothing to wait for.
LEMMA OnwardGood ==
  ASSUME ImageInv, Good, InsertDataDone \/ InsertHlinksDone \/ SkipBox \/ BoxSent \/ BoxesDone
  PROVE  Good'
  <1>1. UNCHANGED <<plan, disk, pools, faults>>
    BY DEF InsertDataDone, InsertHlinksDone, SkipBox, BoxSent, BoxesDone
  <1>2. SeenOk /\ WaitingOk /\ FramesOk /\ TailOk /\ MainOk /\ BlameOk
    BY DEF Good, ImageInv
  <1>3. main.at \in {"data", "hlinks", "boxes", "box"}
    BY DEF InsertDataDone, InsertHlinksDone, SkipBox, BoxSent, BoxesDone, At, Past
  <1>4. /\ ~main.error
        /\ \A frame \in {"tune", "folder"} : frames[frame].count = 0 /\ ~frames[frame].error
    BY <1>2, <1>3 DEF SeenOk, WaitingOk, FramesOk, FrameNames
  <1>5. CASE InsertDataDone
    <2>1. /\ main.at = "data" /\ main'.at = "hlinks"
          /\ main'.error = main.error /\ main'.offset = main.offset
      BY <1>5, Moved DEF InsertDataDone, Past
    <2>2. Passes
      BY <1>1, <1>2, <1>4, <2>1 DEF Passes, SeenOk, WaitingOk, FramesOk, FrameNames
    <2>3. TailOk'
      BY <1>1, <1>2, <2>1 DEF TailOk
    <2> QED BY <2>2, <2>3, GoodStep
  <1>6. CASE InsertHlinksDone
    <2>1. main.at = "hlinks" /\ main'.at = "boxes" /\ main'.error = main.error
      BY <1>6, Moved DEF InsertHlinksDone, Past
    <2>2. Passes
      BY <1>1, <1>2, <1>4, <2>1 DEF Passes, SeenOk, WaitingOk, FramesOk, FrameNames
    <2>3. TailOk'
      BY <1>1, <1>2, <2>1 DEF TailOk
    <2> QED BY <2>2, <2>3, GoodStep
  <1>7. CASE SkipBox
    <2>1. /\ main.at = "boxes" /\ main'.at = "boxes"
          /\ main'.error = main.error /\ main'.offset = main.offset
      BY <1>7, Moved DEF SkipBox, At
    <2> QED BY <1>1, <1>2, <2>1, StayPasses, TailStays, GoodStep
  <1>8. CASE BoxSent
    <2>1. /\ main.at = "box" /\ main'.at = "boxes"
          /\ main'.error = main.error /\ frames["dlinks"].count = 0
      BY <1>2, <1>8 DEF BoxSent, MainOk
    <2>2. Passes
      BY <1>1, <1>2, <1>4, <2>1 DEF Passes, SeenOk, WaitingOk, FramesOk, FrameNames
    <2>3. TailOk'
      BY <1>1, <1>2, <2>1 DEF TailOk
    <2> QED BY <2>2, <2>3, GoodStep
  <1>9. CASE BoxesDone
    <2>1. main.at = "boxes"
      BY <1>9 DEF BoxesDone, Past
    <2>2. frames["dlinks"].count = 0
      BY <1>2, <2>1 DEF WaitingOk, FramesOk, FrameNames
    <2>3. CASE FailWith
      <3>1. plan.readOnly => frames["dlinks"].error \/ ~FailWith
        <4>1. plan.readOnly /\ ~frames["dlinks"].error => Goto("place")
          BY <1>9 DEF BoxesDone
        <4>2. Goto("place") => main'.at = "place"
          BY Moved
        <4>3. FailWith => main'.at = "exit"
          BY Moved
        <4> QED BY <4>1, <4>2, <4>3
      <3>2. plan.readOnly => faults.seen > 0
        BY <1>2, <2>3, <3>1 DEF BlameOk, Trouble, FrameNames
      <3> QED BY <1>1, <2>1, <2>3, <3>2, FailsGood
    <2>4. CASE ~frames["dlinks"].error /\ Goto("place")
      <3>1. main'.at = "place" /\ main'.error = main.error
        BY <2>4, Moved
      <3>2. Passes
        BY <1>1, <1>2, <1>4, <2>2, <2>4, <3>1 DEF Passes, SeenOk
      <3>3. TailOk'
        BY <1>1, <1>2, <2>1, <3>1 DEF TailOk
      <3> QED BY <3>2, <3>3, GoodStep
    <2> QED BY <1>9, <2>3, <2>4 DEF BoxesDone
  <1> QED BY <1>5, <1>6, <1>7, <1>8, <1>9

\* The content of a container is a sequence.
LEMMA BoxSeq ==
  ASSUME ImageInv, At("boxes", Len(BoxOrder))
  PROVE  IsSeq(Box.cells)
  <1>1. Len(BoxOrder) = 5 /\ DOMAIN BoxOrder = 1 .. 5
    BY DEF BoxOrder
  <1>2. main.i \in DOMAIN BoxOrder
    <2>1. main.i <= Len(BoxOrder) /\ MainOk
      BY DEF At, ImageInv
    <2> QED BY <1>1, <2>1 DEF MainOk
  <1>3. BoxOrder[main.i] \in Range(BoxOrder)
    BY <1>2 DEF Range
  <1> QED BY <1>3 DEF ImageInv, BoxesOk, BoxLike, Box

\* The plain container is copied behind what is there.
LEMMA CopyBoxGood ==
  ASSUME ImageInv, Good, CopyBox
  PROVE  Good'
  <1> DEFINE grant == AllocateSpace(disk.space, AnyAddress, Len(Box.cells))
  <1>1. UNCHANGED <<plan, pools, faults>> /\ main.at = "boxes"
    BY DEF CopyBox, At
  <1>2. Len(Box.cells) \in Nat
    BY BoxSeq, SeqLen DEF CopyBox
  <1>3. plan.readOnly => /\ disk.space.first \in Nat /\ grant.addr # Refused
                         /\ grant.space.first = disk.space.first + Len(Box.cells)
    BY <1>2, TailGrants
  <1> HIDE DEF grant
  <1>4. CASE grant.addr = Refused /\ FailWith
    BY <1>1, <1>3, <1>4, FailsGood
  <1>5. CASE disk' = CopyTo(disk, grant, Box.cells) /\ Advance
    <2>1. main'.at = main.at /\ main'.error = main.error
      BY <1>5, Moved
    <2>2. disk'.space = grant.space /\ disk'.meta = disk.meta
      <3>1. DOMAIN disk = {"space", "blocks", "ranges", "fixed", "tables", "meta", "table"}
        BY DEF ImageInv, DiskLike
      <3> QED BY <1>5, <3>1 DEF CopyTo
    <2>3. TailOk'
      BY <1>1, <1>2, <1>3, <2>1, <2>2 DEF Good, TailOk
    <2> QED BY <1>1, <2>1, <2>3, StayPasses, GoodStep
  <1> QED BY <1>4, <1>5 DEF CopyBox, grant

\* The metadata is one extent at the end, and goes on where it ended.
LEMMA PlaceGood ==
  ASSUME ImageInv, Good, PlaceSubsystem \/ PlacePreallocation
  PROVE  Good'
  <1>1. UNCHANGED <<plan, pools, faults>> /\ main.at = "place" /\ TailOk /\ DiskLike(disk)
    BY DEF PlaceSubsystem, PlacePreallocation, At, Past, Good, ImageInv
  <1>2. ASSUME NEW len \in Nat, NEW grant, grant = AllocateSpace(disk.space, MetaEnd(disk), len)
        PROVE  plan.readOnly =>
                 /\ disk.space.first \in Nat /\ disk.space.first > 0
                 /\ grant.addr = disk.space.first /\ grant.addr # Refused
                 /\ grant.space.first = disk.space.first + len
    <2>1. plan.readOnly => MetaEnd(disk) \in {AnyAddress, disk.space.first} /\ disk.space.first > 0
      BY <1>1 DEF TailOk, MetaEnd, AnyAddress
    <2> QED BY <1>2, <2>1, TailGrants
  <1>3. CASE PlaceSubsystem
    <2> DEFINE grant == AllocateSpace(disk.space, MetaEnd(disk), 1)
    <2>1. plan.readOnly =>
            /\ disk.space.first \in Nat /\ disk.space.first > 0
            /\ grant.addr = disk.space.first /\ grant.addr # Refused
            /\ grant.space.first = disk.space.first + 1
      BY <1>2
    <2> HIDE DEF grant
    <2>2. CASE grant.addr = Refused /\ FailWith
      BY <1>1, <2>1, <2>2, FailsGood
    <2>3. CASE /\ disk' = EnterTable(ExtendMeta(disk, grant, 1), Subsystems[main.i], grant.addr)
               /\ Advance
      <3>1. main'.at = main.at /\ main'.error = main.error
        BY <2>3, Moved
      <3>2. /\ disk'.space = grant.space
            /\ disk'.meta.first = IF disk.meta.first = 0 THEN grant.addr ELSE disk.meta.first
            /\ disk'.meta.count = disk.meta.count + 1
        BY <1>1, <2>3 DEF EnterTable, ExtendMeta, DiskLike
      <3>3. TailOk'
        BY <1>1, <2>1, <3>1, <3>2 DEF TailOk, MetaEnd, DiskLike
      <3> QED BY <1>1, <3>1, <3>3, StayPasses, GoodStep
    <2> QED BY <1>3, <2>2, <2>3 DEF PlaceSubsystem, grant
  <1>4. CASE PlacePreallocation
    <2> DEFINE grant == AllocateSpace(disk.space, MetaEnd(disk), Preallocation)
    <2>1. plan.readOnly => grant.addr # Refused
      <3>1. Preallocation \in Nat
        BY DEF Preallocation
      <3> QED BY <1>2, <3>1
    <2>2. CASE grant.addr = Refused /\ FailWith
      BY <1>1, <2>1, <2>2, FailsGood
    <2>3. CASE Goto("flush")
      <3>1. main'.at = "flush" /\ main'.error = main.error
        BY <2>3, Moved
      <3>2. Passes
        BY <1>1, <3>1 DEF Passes, Good, SeenOk, WaitingOk, FramesOk, FrameNames
      <3> QED BY <3>1, <3>2, TailOver, GoodStep
    <2> QED BY <1>4, <2>2, <2>3 DEF PlacePreallocation
  <1> QED BY <1>3, <1>4

\* The end of the run.
LEMMA EndGood ==
  ASSUME ImageInv, Good, Flush \/ StopThread \/ EndMkfs
  PROVE  Good'
  <1>1. UNCHANGED <<plan, pools, faults>>
    BY DEF Flush, StopThread, EndMkfs
  <1>2. SeenOk /\ WaitingOk /\ FramesOk
    BY DEF Good
  <1>3. main.at \in {"flush", "exit"}
    BY DEF Flush, StopThread, EndMkfs, At, Past
  <1>4. main'.error = main.error /\ main'.at \in {"exit", "stuck", "failed", "done"}
    BY Moved DEF Flush, StopThread, EndMkfs, At
  <1>5. /\ main'.at = "done" => ~main.error
        /\ main'.at = "failed" => main.error
    <2>1. CASE EndMkfs
      BY <2>1, Moved DEF EndMkfs
    <2>2. CASE Flush \/ StopThread
      BY <2>2, Moved DEF Flush, StopThread, At
    <2> QED BY <2>1, <2>2
  <1>6. Passes
    BY <1>1, <1>2, <1>3, <1>4, <1>5 DEF Passes, SeenOk, WaitingOk, FramesOk, FrameNames
  <1> QED BY <1>4, <1>6, TailOver, GoodStep

\* A read or a write of main fails.
LEMMA CopyFailsGood ==
  ASSUME ImageInv, Good, CopyFails
  PROVE  Good'
  <1>1. UNCHANGED <<plan, pools>> /\ faults'.seen = faults.seen + 1
         /\ main.at \in {"metadata", "data", "hlinks", "boxes", "flush"}
    BY DEF CopyFails, FailureSeen
  <1>2. main'.at = "exit" /\ main'.error = TRUE
    BY Moved DEF CopyFails
  <1>3. FramesOk' /\ WorkOk' /\ ChunkersOk' /\ CountsOk'
    BY <1>1, PoolsStay
  <1>4. frames' = frames
    BY <1>1 DEF pools
  <1>5. WaitingOk'
    BY <1>1, <1>4 DEF Good, WaitingOk, FramesOk, FrameNames
  <1>6. SeenOk'
    BY <1>2 DEF SeenOk
  <1>7. BlameOk'
    BY <1>1, <1>2 DEF Good, BlameOk, Trouble
  <1>8. TailOk'
    BY <1>2, TailOver
  <1> QED BY <1>3, <1>5, <1>6, <1>7, <1>8 DEF Good

--------------------------------------------------------------------------------
(* Main hands out work.                                                    *)

\* An idle thread is taken; from then on it is counted.
LEMMA DispatchGood ==
  ASSUME ImageInv, Good, NEW job, IsSeq(job.cells), job.frame \in FrameNames, Dispatch(job),
         UNCHANGED <<plan, chunkers, faults>>, main.at \in {"tune", "folder", "boxes"},
         main'.error = main.error,
         main'.at \in {"tune", "folder", "boxes", "box"},
         job.frame = "tune" => main'.at = "tune" /\ main.at = "tune",
         job.frame = "folder" => main'.at = "folder" /\ main.at = "folder",
         job.frame = "dlinks" => main'.at = "box" /\ main.at = "boxes"
  PROVE  /\ FramesOk' /\ WorkOk' /\ ChunkersOk' /\ CountsOk'
         /\ WaitingOk' /\ SeenOk' /\ BlameOk'
  <1> DEFINE f == Min(FreeFiles)
  <1>1. f \in Threads /\ Idle(files[f])
    <2>1. FreeFiles \subseteq Nat
      BY ProcessorsAssumption DEF FreeFiles, Threads
    <2>2. FreeFiles # {}
      BY DEF Dispatch
    <2>3. \E x \in FreeFiles : \A y \in FreeFiles : x <= y
      BY <2>1, <2>2, LowestExists
    <2>4. f \in FreeFiles
      BY <2>3 DEF Min
    <2> QED BY <2>4 DEF FreeFiles
  <1> HIDE DEF f
  <1>2. /\ files' = [files EXCEPT ![f].has = TRUE, ![f].job = job]
        /\ frames' = [frames EXCEPT ![job.frame].count = @ + 1]
    BY DEF Dispatch, f
  <1>3. /\ DOMAIN files = Threads
        /\ DOMAIN files[f] = {"pc", "has", "job", "k", "left", "bad", "raw", "pack", "ext", "fork"}
    BY <1>1 DEF ImageInv, FilesOk, FileLike
  <1>4. /\ \A g \in Threads \ {f} : files'[g] = files[g]
        /\ files'[f] = [files[f] EXCEPT !.has = TRUE, !.job = job]
    BY <1>1, <1>2, <1>3
  <1>5. /\ files'[f].has = TRUE /\ files'[f].job = job /\ files'[f].pc = "idle"
        /\ files'[f].k = files[f].k /\ files'[f].left = files[f].left
        /\ files'[f].bad = files[f].bad /\ files[f].pc = "idle"
    BY <1>1, <1>3, <1>4 DEF Idle
  <1>6. /\ FramesOk /\ FramesOk'
        /\ frames'[job.frame].count = frames[job.frame].count + 1
        /\ \A frame \in FrameNames : frames'[frame].error = frames[frame].error
        /\ \A frame \in FrameNames \ {job.frame} : frames'[frame].count = frames[frame].count
    BY <1>2 DEF Good, FramesOk
  <1>7. WorkOk'
    <2>1. WorkLike(files[f]) /\ Len(job.cells) \in Nat
      BY <1>1, SeqLen DEF Good, WorkOk
    <2>2. WorkLike(files'[f])
      <3>1. files[f].k = 1 /\ ~files[f].bad
        BY <1>5, <2>1 DEF WorkLike
      <3>2. files'[f].has \in BOOLEAN /\ files'[f].bad \in BOOLEAN /\ ~files'[f].bad
        BY <1>5, <2>1, <3>1, Zenon DEF WorkLike
      <3>3. /\ files'[f].left \in Int /\ files'[f].k = 1 /\ files'[f].k <= Len(job.cells) + 1
            /\ files'[f].job.frame \in FrameNames
        BY ONLY <1>5, <2>1, <3>1, job.frame \in FrameNames DEF WorkLike
      <3> QED BY <1>5, <3>2, <3>3 DEF WorkLike
    <2>3. ASSUME NEW g \in Threads
          PROVE  WorkLike(files'[g])
      <3>1. CASE g = f
        BY <2>2, <3>1
      <3>2. CASE g # f
        BY <1>4, <3>2 DEF Good, WorkOk
      <3> QED BY <3>1, <3>2
    <2> QED BY <2>3 DEF WorkOk
  <1>8. ChunkersOk'
    BY DEF Good, ChunkersOk
  <1>9. CountsOk'
    <2>0. ~Idle(files'[f]) /\ files'[f].job = job /\ files'[f].pc # "split" /\ files[f].pc # "split"
      BY <1>5 DEF Idle
    <2>1. ASSUME NEW frame \in FrameNames
          PROVE  CountOk(frame)'
      <3>1. CASE frame = job.frame
        <4>1. Workers(frame)' = Workers(frame) \cup {f} /\ f \notin Workers(frame)
          <5>1. f \in Threads /\ Idle(files[f])
            BY <1>1
          <5>2. \A g \in Threads :
                  ~Idle(files'[g]) /\ files'[g].job.frame = frame
                    <=> (~Idle(files[g]) /\ files[g].job.frame = frame) \/ g = f
            BY ONLY <5>1, <1>4, <2>0, <3>1
          <5> QED BY ONLY <5>1, <5>2 DEF Workers
        <4>2. Cardinality(Workers(frame) \cup {f}) = Cardinality(Workers(frame)) + 1
          BY <4>1, ThreadsFinite, FS_AddElement
        <4> QED BY <1>6, <3>1, <4>1, <4>2 DEF Good, CountsOk, CountOk
      <3>2. CASE frame # job.frame
        <4>1. \A g \in Threads :
                ~Idle(files'[g]) /\ files'[g].job.frame = frame
                  <=> ~Idle(files[g]) /\ files[g].job.frame = frame
          <5>1. Idle(files[f])
            BY <1>1
          <5> QED BY ONLY <5>1, <1>4, <2>0, <3>2
        <4>2. Workers(frame)' = Workers(frame)
          BY ONLY <4>1 DEF Workers
        <4> QED BY <1>6, <2>1, <3>2, <4>2 DEF Good, CountsOk, CountOk
      <3> QED BY <3>1, <3>2
    <2>2. \A g : Helpers(g)' = Helpers(g)
      BY DEF Helpers
    <2>3. ASSUME NEW g \in Threads
          PROVE  LeftOk(g)'
      <3>1. LeftOk(g)
        BY DEF Good, CountsOk
      <3>2. CASE g = f
        BY ONLY <2>0, <2>2, <3>1, <3>2 DEF LeftOk
      <3>3. CASE g # f
        BY ONLY g \in Threads, <1>4, <2>2, <3>1, <3>3 DEF LeftOk
      <3> QED BY <3>2, <3>3
    <2> QED BY <2>1, <2>3 DEF CountsOk
  <1>10. WaitingOk /\ SeenOk /\ BlameOk
    BY DEF Good
  <1>11. WaitingOk'
    BY <1>6, <1>10 DEF WaitingOk, FramesOk, FrameNames
  <1>12. SeenOk'
    <2>1. ~main.error
      BY <1>10 DEF SeenOk
    <2> QED BY <1>6, <1>10, <2>1 DEF SeenOk, FrameNames
  <1>13. BlameOk'
    <2>1. \A g \in Threads : files'[g].bad = files[g].bad
      BY <1>4, <1>5
    <2>2. Trouble' <=> Trouble
      BY <1>6, <2>1 DEF Trouble
    <2> QED BY <1>10, <2>2 DEF BlameOk
  <1> QED BY <1>6, <1>7, <1>8, <1>9, <1>11, <1>12, <1>13

LEMMA HandGood ==
  ASSUME ImageInv, Good, TuneFile \/ CompressDirEntry \/ SendBox
  PROVE  Good'
  <1>1. MainOk /\ plan \in Plans /\ TailOk
    BY DEF ImageInv, Good
  <1>2. CASE TuneFile
    <2>1. UNCHANGED <<plan, disk, faults>> /\ main.at = "tune"
      BY <1>2 DEF TuneFile, At
    <2>2. main'.at = main.at /\ main'.error = main.error /\ main'.offset = main.offset
      BY <1>2, Moved DEF TuneFile
    <2>3. TailOk'
      BY <1>1, <2>1, <2>2, TailStays
    <2>4. CASE UNCHANGED pools
      BY <2>1, <2>2, <2>3, <2>4, StayPasses, GoodStep
    <2>5. CASE Dispatch(PathJob("tune", Task.path, Task.cmd)) /\ UNCHANGED chunkers
      <3> DEFINE job == PathJob("tune", Task.path, Task.cmd)
      <3>1. Task.path \in Paths(plan)
        BY <1>1, <1>2, TaskKnown DEF TuneFile, At, MainOk
      <3>2. IsSeq(job.cells) /\ job.frame = "tune"
        BY <1>1, <3>1, KnownPath DEF PathJob, Job
      <3> HIDE DEF job
      <3>3. Dispatch(job)
        BY <2>5 DEF job
      <3>4. FramesOk' /\ WorkOk' /\ ChunkersOk' /\ CountsOk' /\ WaitingOk' /\ SeenOk' /\ BlameOk'
        BY <2>1, <2>2, <2>5, <3>2, <3>3, DispatchGood DEF FrameNames
      <3> QED BY <2>3, <3>4 DEF Good
    <2> QED BY <1>2, <2>4, <2>5 DEF TuneFile
  <1>3. CASE CompressDirEntry
    <2>1. UNCHANGED <<plan, disk, faults>> /\ main.at = "folder"
      BY <1>3 DEF CompressDirEntry
    <2>2. main'.at = main.at /\ main'.error = main.error /\ main'.offset = main.offset
      BY <1>1, <1>3 DEF CompressDirEntry, MainOk
    <2>3. TailOk'
      BY <1>1, <2>1, <2>2, TailStays
    <2>4. CASE UNCHANGED pools
      BY <2>1, <2>2, <2>3, <2>4, StayPasses, GoodStep
    <2>5. CASE Dispatch(PathJob("folder", Member.path, Task.cmd)) /\ UNCHANGED chunkers
      <3> DEFINE job == PathJob("folder", Member.path, Task.cmd)
      <3>1. Member.path \in Paths(plan)
        <4>1. plan.entries \in Seq(Range(plan.entries))
          BY <1>1, PlanAssumption
        <4>2. main.j \in DOMAIN plan.entries
          BY <1>1, <1>3, <4>1 DEF CompressDirEntry, MainOk
        <4> QED BY <1>1, <4>2, EntryIsEntry DEF Member
      <3>2. IsSeq(job.cells) /\ job.frame = "folder"
        BY <1>1, <3>1, KnownPath DEF PathJob, Job
      <3> HIDE DEF job
      <3>3. Dispatch(job)
        BY <2>5 DEF job
      <3>4. FramesOk' /\ WorkOk' /\ ChunkersOk' /\ CountsOk' /\ WaitingOk' /\ SeenOk' /\ BlameOk'
        BY <2>1, <2>2, <2>5, <3>2, <3>3, DispatchGood DEF FrameNames
      <3> QED BY <2>3, <3>4 DEF Good
    <2> QED BY <1>3, <2>4, <2>5 DEF CompressDirEntry
  <1>4. CASE SendBox
    <2>1. UNCHANGED <<plan, disk, faults, chunkers>> /\ main.at = "boxes"
      BY <1>4 DEF SendBox, At
    <2>2. main'.at = "box" /\ main'.error = main.error /\ main'.offset = main.offset
      BY <1>1, <1>4 DEF SendBox, MainOk
    <2>3. TailOk'
      BY <1>1, <2>1, <2>2 DEF TailOk
    <2> DEFINE job == Job("dlinks", "", Box.ino, BoxCmd[BoxOrder[main.i]], Box.cells)
    <2>4. IsSeq(Box.cells)
      BY <1>4, BoxSeq DEF SendBox
    <2>5. IsSeq(job.cells) /\ job.frame = "dlinks"
      BY <2>4 DEF Job
    <2>6. Dispatch(job)
      BY <1>4 DEF SendBox
    <2> HIDE DEF job
    <2>7. FramesOk' /\ WorkOk' /\ ChunkersOk' /\ CountsOk' /\ WaitingOk' /\ SeenOk' /\ BlameOk'
      BY <2>1, <2>2, <2>5, <2>6, DispatchGood DEF FrameNames
    <2> QED BY <2>3, <2>7 DEF Good
  <1> QED BY <1>2, <1>3, <1>4

--------------------------------------------------------------------------------
(* The threads.                                                            *)

\* A thread goes on with its job: nobody's count changes.
LEMMA FileMoves ==
  ASSUME ImageInv, Good, NEW f \in Threads, UNCHANGED <<plan, main, frames>>,
         \A g \in Threads \ {f} : files'[g] = files[g],
         \A g \in Threads \ {f} : Helpers(g)' = Helpers(g),
         ~Idle(files[f]), ~Idle(files'[f]), files'[f].job = files[f].job,
         WorkLike(files'[f]), LeftOk(f)', ChunkersOk'
  PROVE  FramesOk' /\ WorkOk' /\ ChunkersOk' /\ CountsOk' /\ WaitingOk' /\ SeenOk'
  <1>1. FramesOk' /\ WaitingOk' /\ SeenOk'
    BY DEF Good, FramesOk, WaitingOk, SeenOk
  <1>2. WorkOk'
    <2>1. ASSUME NEW g \in Threads
          PROVE  WorkLike(files'[g])
      <3>1. CASE g = f
        BY <3>1
      <3>2. CASE g # f
        BY <3>2 DEF Good, WorkOk
      <3> QED BY <3>1, <3>2
    <2> QED BY <2>1 DEF WorkOk
  <1>3. ASSUME NEW frame \in FrameNames
        PROVE  CountOk(frame)'
    <2>1. \A g \in Threads :
            ~Idle(files'[g]) /\ files'[g].job.frame = frame
              <=> ~Idle(files[g]) /\ files[g].job.frame = frame
      OBVIOUS
    <2>2. Workers(frame)' = Workers(frame)
      BY <2>1 DEF Workers
    <2> QED BY <2>2 DEF Good, CountsOk, CountOk
  <1>4. ASSUME NEW g \in Threads
        PROVE  LeftOk(g)'
    <2>1. CASE g = f
      BY <2>1
    <2>2. CASE g # f
      BY <2>2 DEF Good, CountsOk, LeftOk
    <2> QED BY <2>1, <2>2
  <1> QED BY <1>1, <1>2, <1>3, <1>4 DEF CountsOk

\* The same, while the chunks of the file are with the same threads.
LEMMA FileMovesAlone ==
  ASSUME ImageInv, Good, NEW f \in Threads, UNCHANGED <<plan, main, frames, chunkers>>,
         \A g \in Threads \ {f} : files'[g] = files[g],
         ~Idle(files[f]), ~Idle(files'[f]), files'[f].job = files[f].job,
         WorkLike(files'[f]),
         IF files'[f].pc = "split"
         THEN files'[f].left =
                Len(files[f].job.cells) - files'[f].k + 1 + Cardinality(Helpers(f))
         ELSE Helpers(f) = {}
  PROVE  FramesOk' /\ WorkOk' /\ ChunkersOk' /\ CountsOk' /\ WaitingOk' /\ SeenOk'
  <1>1. \A g : Helpers(g)' = Helpers(g)
    BY DEF Helpers
  <1>2. LeftOk(f)'
    BY <1>1 DEF LeftOk
  <1>3. ChunkersOk'
    BY DEF Good, ChunkersOk
  <1> QED BY <1>1, <1>2, <1>3, FileMoves

LEMMA BlameKept ==
  ASSUME Good, UNCHANGED plan, main'.at = main.at, main.at \in {"tune", "folder", "box"},
         faults'.seen \in Nat, faults'.seen >= faults.seen, faults'.seen > faults.seen => Trouble',
         Trouble => Trouble', Trouble' => Trouble \/ ~plan.readOnly \/ faults'.seen > 0
  PROVE  BlameOk'
  <1>1. BlameOk
    BY DEF Good
  <1>2. faults.seen \in Nat
    BY <1>1 DEF BlameOk
  <1>3. faults'.seen > 0 => Trouble'
    BY <1>1, <1>2 DEF BlameOk
  <1>4. plan.readOnly /\ Trouble' => faults'.seen > 0
    BY <1>1, <1>2 DEF BlameOk
  <1> QED BY <1>3, <1>4 DEF BlameOk

\* Nothing goes wrong: the errors are where they were.
LEMMA BlameStays ==
  ASSUME Good, UNCHANGED <<plan, main, frames, faults>>, main.at \in {"tune", "folder", "box"},
         \A g \in Threads : files'[g].bad = files[g].bad,
         \A c \in Threads : chunkers'[c].bad = chunkers[c].bad
  PROVE  BlameOk'
  <1>1. Trouble' <=> Trouble
    BY DEF Trouble
  <1>2. faults'.seen \in Nat /\ faults'.seen = faults.seen
    BY DEF Good, BlameOk
  <1> QED BY <1>1, <1>2, BlameKept

LEMMA TailKept ==
  ASSUME Good, UNCHANGED <<plan, main, disk>>, main.at \in {"tune", "folder", "box"}
  PROVE  TailOk'
  BY DEF Good, TailOk, MetaEnd

\* The fields of a thread of files.
FileNames == {"pc", "has", "job", "k", "left", "bad", "raw", "pack", "ext", "fork"}

LEMMA FileRecord ==
  ASSUME ImageInv, Good, NEW f \in Threads
  PROVE  /\ DOMAIN files = Threads /\ DOMAIN files[f] = FileNames
         /\ WorkLike(files[f]) /\ Len(files[f].job.cells) \in Nat
         /\ LeftOk(f)
  BY SeqLen DEF ImageInv, FilesOk, FileLike, FileNames, Good, WorkOk, CountsOk

LEMMA TakeJobGood ==
  ASSUME ImageInv, Good, NEW f \in Threads, TakeJob(f)
  PROVE  Good'
  <1>1. UNCHANGED <<plan, main, disk, chunkers, frames, faults>>
    BY DEF TakeJob
  <1>2. files[f].pc = "idle" /\ ~Idle(files[f])
    BY DEF TakeJob, Idle
  <1>3. main.at \in {"tune", "folder", "box"}
    BY <1>2, BusyWhere
  <1>4. /\ \A g \in Threads \ {f} : files'[g] = files[g]
        /\ files'[f].pc \in {"finish", "look"}
        /\ files'[f].job = files[f].job /\ files'[f].k = files[f].k
        /\ files'[f].left = files[f].left
    BY FileRecord DEF TakeJob, FileNames
  <1>5. files'[f].has = FALSE /\ files'[f].bad = files[f].bad
    BY FileRecord DEF TakeJob, FileNames
  <1>6. WorkLike(files'[f])
    <2>1. files[f].k = 1 /\ ~files[f].bad
      BY <1>2, FileRecord DEF WorkLike
    <2>2. files'[f].has \in BOOLEAN /\ files'[f].bad \in BOOLEAN /\ ~files'[f].bad
      BY <1>5, <2>1, FileRecord, Zenon DEF WorkLike
    <2> QED BY <1>4, <2>1, <2>2, FileRecord DEF WorkLike
  <1>7. Helpers(f) = {}
    BY <1>2, FileRecord DEF LeftOk
  <1>8. ~Idle(files'[f])
    BY <1>4 DEF Idle
  <1>9. FramesOk' /\ WorkOk' /\ ChunkersOk' /\ CountsOk' /\ WaitingOk' /\ SeenOk'
    BY <1>1, <1>2, <1>4, <1>6, <1>7, <1>8, FileMovesAlone
  <1>10. BlameOk'
    <2>1. \A g \in Threads : files'[g].bad = files[g].bad
      BY <1>4, <1>5
    <2> QED BY <1>1, <1>3, <2>1, BlameStays
  <1>11. TailOk'
    BY <1>1, <1>3, TailKept
  <1> QED BY <1>9, <1>10, <1>11 DEF Good

LEMMA LookGood ==
  ASSUME ImageInv, Good, NEW f \in Threads, Look(f)
  PROVE  Good'
  <1>1. UNCHANGED <<plan, main, disk, chunkers, frames, faults>>
    BY DEF Look
  <1>2. files[f].pc = "look" /\ ~Idle(files[f])
    BY DEF Look, Idle
  <1>3. main.at \in {"tune", "folder", "box"}
    BY <1>2, BusyWhere
  <1>4. \/ FileGo(f, "finish")
        \/ \E pc \in {"finish", "split"} :
             files' = [files EXCEPT ![f].pc = pc, ![f].left = Len(files[f].job.cells)]
    BY DEF Look, LookAt
  <1>5. /\ \A g \in Threads \ {f} : files'[g] = files[g]
        /\ files'[f].pc \in {"finish", "split"}
        /\ files'[f].job = files[f].job /\ files'[f].k = files[f].k
        /\ files'[f].left = files[f].left \/ files'[f].left = Len(files[f].job.cells)
        /\ files'[f].pc = "split" => files'[f].left = Len(files[f].job.cells)
    BY <1>4, FileRecord DEF FileGo, FileNames
  <1>6. files'[f].has = files[f].has /\ files'[f].bad = files[f].bad
    BY <1>4, FileRecord DEF FileGo, FileNames
  <1>7. files[f].k = 1 /\ ~files[f].bad
    BY <1>2, FileRecord DEF WorkLike
  <1>8. WorkLike(files'[f])
    <2>1. files'[f].has \in BOOLEAN /\ files'[f].bad \in BOOLEAN /\ ~files'[f].bad
      BY <1>6, <1>7, FileRecord, Zenon DEF WorkLike
    <2> QED BY <1>5, <1>7, <2>1, FileRecord DEF WorkLike
  <1>9. Helpers(f) = {} /\ Cardinality(Helpers(f)) = 0
    <2>1. Helpers(f) = {}
      BY <1>2, FileRecord DEF LeftOk
    <2> QED BY <2>1, FS_EmptySet
  <1>10. IF files'[f].pc = "split"
         THEN files'[f].left =
                Len(files[f].job.cells) - files'[f].k + 1 + Cardinality(Helpers(f))
         ELSE Helpers(f) = {}
    BY <1>5, <1>7, <1>9, FileRecord
  <1>11. ~Idle(files'[f])
    BY <1>5 DEF Idle
  <1>12. FramesOk' /\ WorkOk' /\ ChunkersOk' /\ CountsOk' /\ WaitingOk' /\ SeenOk'
    BY <1>1, <1>2, <1>5, <1>8, <1>10, <1>11, FileMovesAlone
  <1>13. BlameOk'
    <2>1. \A g \in Threads : files'[g].bad = files[g].bad
      BY <1>5, <1>6
    <2> QED BY <1>1, <1>3, <2>1, BlameStays
  <1>14. TailOk'
    BY <1>1, <1>3, TailKept
  <1> QED BY <1>12, <1>13, <1>14 DEF Good

\* How a file counts its chunks.
LEMMA NoneLeft ==
  ASSUME NEW len \in Nat, NEW k \in Nat, NEW n \in Nat, NEW left, left = len - k + 1 + n,
         k <= len + 1, left = 0
  PROVE  n = 0
  OBVIOUS

\* A chunk is given to an idle thread of chunkers, which the file then counts.
LEMMA SplitChunkGood ==
  ASSUME ImageInv, Good, NEW f \in Threads, SplitChunk(f)
  PROVE  Good'
  <1> DEFINE c == Min(FreeChunkers)
  <1>1. UNCHANGED <<plan, main, disk, frames, faults>>
    BY DEF SplitChunk
  <1>2. files[f].pc = "split" /\ ~Idle(files[f]) /\ files[f].k <= Len(files[f].job.cells)
    BY DEF SplitChunk, Idle
  <1>3. main.at \in {"tune", "folder", "box"}
    BY <1>2, BusyWhere
  <1>4. c \in Threads /\ Idle(chunkers[c])
    <2>1. FreeChunkers \subseteq Nat
      BY ProcessorsAssumption DEF FreeChunkers, Threads
    <2>2. FreeChunkers # {}
      BY DEF SplitChunk
    <2>3. \E x \in FreeChunkers : \A y \in FreeChunkers : x <= y
      BY <2>1, <2>2, LowestExists
    <2>4. c \in FreeChunkers
      BY <2>3 DEF Min
    <2> QED BY <2>4 DEF FreeChunkers
  <1>5. /\ chunkers' = [chunkers EXCEPT ![c] =
                          [@ EXCEPT !.has = TRUE, !.owner = f, !.chunk = files[f].k]]
        /\ files' = [files EXCEPT ![f].k = @ + 1]
    BY DEF SplitChunk
  <1> HIDE DEF c
  <1>6. /\ \A g \in Threads \ {f} : files'[g] = files[g]
        /\ files'[f].pc = "split" /\ files'[f].job = files[f].job
        /\ files'[f].k = files[f].k + 1 /\ files'[f].left = files[f].left
    BY <1>2, <1>5, FileRecord DEF FileNames
  <1>7. files'[f].has = files[f].has /\ files'[f].bad = files[f].bad
    BY <1>5, FileRecord DEF FileNames
  <1>8. WorkLike(files'[f])
    <2>1. /\ files'[f].has \in BOOLEAN /\ files'[f].bad \in BOOLEAN
      BY <1>7, FileRecord, Zenon DEF WorkLike
    <2> QED BY <1>2, <1>6, <2>1, FileRecord DEF WorkLike
  <1>9. ChunkLike(chunkers[c]) /\ DOMAIN chunkers = Threads
    BY <1>4 DEF Good, ChunkersOk
  <1>10. /\ \A d \in Threads \ {c} : chunkers'[d] = chunkers[d]
         /\ DOMAIN chunkers' = Threads
         /\ chunkers'[c] = [chunkers[c] EXCEPT !.has = TRUE, !.owner = f, !.chunk = files[f].k]
    BY <1>4, <1>5, <1>9
  <1>11. /\ DOMAIN chunkers'[c] = {"pc", "has", "owner", "chunk", "bad"}
         /\ chunkers'[c].owner = f /\ chunkers'[c].pc = chunkers[c].pc
         /\ chunkers'[c].has = TRUE /\ chunkers'[c].bad = chunkers[c].bad
    BY <1>9, <1>10 DEF ChunkLike
  <1>12. ~Idle(chunkers'[c])
    BY <1>11 DEF Idle
  <1>13. ChunkersOk'
    <2>1. ~chunkers[c].bad
      BY <1>4, <1>9 DEF ChunkLike, Idle
    <2>2. chunkers'[c].has \in BOOLEAN /\ chunkers'[c].bad \in BOOLEAN /\ ~chunkers'[c].bad
      BY <1>9, <1>11, <2>1, Zenon DEF ChunkLike
    <2>3. ChunkLike(chunkers'[c])
      BY <1>11, <2>2 DEF ChunkLike
    <2>4. ASSUME NEW d \in Threads
          PROVE  ChunkLike(chunkers'[d])
      <3>1. CASE d = c
        BY <2>3, <3>1
      <3>2. CASE d # c
        BY <1>10, <3>2 DEF Good, ChunkersOk
      <3> QED BY <3>1, <3>2
    <2> QED BY <1>10, <2>4 DEF ChunkersOk
  <1>14. ASSUME NEW g \in Threads \ {f}
         PROVE  Helpers(g)' = Helpers(g)
    <2>1. \A d \in Threads :
            ~Idle(chunkers'[d]) /\ chunkers'[d].owner = g
              <=> ~Idle(chunkers[d]) /\ chunkers[d].owner = g
      BY <1>4, <1>10, <1>11
    <2> QED BY <2>1 DEF Helpers
  <1>15. Helpers(f)' = Helpers(f) \cup {c} /\ c \notin Helpers(f)
    <2>1. \A d \in Threads :
            ~Idle(chunkers'[d]) /\ chunkers'[d].owner = f
              <=> (~Idle(chunkers[d]) /\ chunkers[d].owner = f) \/ d = c
      BY <1>4, <1>10, <1>11, <1>12
    <2> QED BY <1>4, <2>1 DEF Helpers
  <1>16. LeftOk(f)'
    <2>1. Cardinality(Helpers(f)') = Cardinality(Helpers(f)) + 1
      <3>1. Cardinality(Helpers(f) \cup {c}) = Cardinality(Helpers(f)) + 1
        BY <1>15, ThreadsFinite, FS_AddElement
      <3> QED BY <1>15, <3>1, Zenon
    <2>2. files[f].left = Len(files[f].job.cells) - files[f].k + 1 + Cardinality(Helpers(f))
      BY <1>2, FileRecord DEF LeftOk
    <2>3. files[f].k \in Nat /\ Len(files[f].job.cells) \in Nat /\ Cardinality(Helpers(f)) \in Nat
      BY FileRecord, ThreadsFinite DEF WorkLike
    <2> DEFINE len == Len(files[f].job.cells)
               n == Cardinality(Helpers(f))
               m == Cardinality(Helpers(f)')
    <2>4. /\ files[f].left = len - files[f].k + 1 + n
          /\ files[f].k \in Nat /\ len \in Nat /\ n \in Nat /\ m = n + 1
          /\ files'[f].k = files[f].k + 1
      BY <1>6, <2>1, <2>2, <2>3
    <2>5. files'[f].left = len - files'[f].k + 1 + m
      <3> HIDE DEF len, n, m
      <3> QED BY ONLY <1>6, <2>4
    <2> QED BY <1>6, <2>5 DEF LeftOk
  <1>17. ~Idle(files'[f])
    BY <1>6 DEF Idle
  <1>18. FramesOk' /\ WorkOk' /\ ChunkersOk' /\ CountsOk' /\ WaitingOk' /\ SeenOk'
    BY <1>1, <1>2, <1>6, <1>8, <1>13, <1>14, <1>16, <1>17, FileMoves
  <1>19. BlameOk'
    <2>1. \A g \in Threads : files'[g].bad = files[g].bad
      BY <1>6, <1>7
    <2>2. \A d \in Threads : chunkers'[d].bad = chunkers[d].bad
      BY <1>10, <1>11
    <2> QED BY <1>1, <1>3, <2>1, <2>2, BlameStays
  <1>20. TailOk'
    BY <1>1, <1>3, TailKept
  <1> QED BY <1>18, <1>19, <1>20 DEF Good

LEMMA SplitFailsGood ==
  ASSUME ImageInv, Good, NEW f \in Threads, SplitFails(f)
  PROVE  main'.at = "undefined" \/ Good'
  <1>1. UNCHANGED <<plan, disk, frames, chunkers>> /\ faults'.seen = faults.seen + 1
    BY DEF SplitFails, FailureSeen
  <1>2. files[f].pc = "split" /\ ~Idle(files[f])
    BY DEF SplitFails, Idle
  <1>3. main.at \in {"tune", "folder", "box"}
    BY <1>2, BusyWhere
  <1>4. CASE Goto("undefined")
    BY <1>4, Moved
  <1>5. CASE /\ files[f].left = Len(files[f].job.cells) - files[f].k + 1
             /\ files' = [files EXCEPT ![f].pc = "finish", ![f].bad = TRUE]
             /\ UNCHANGED main
    <2>1. /\ \A g \in Threads \ {f} : files'[g] = files[g]
          /\ files'[f].pc = "finish" /\ files'[f].job = files[f].job
          /\ files'[f].k = files[f].k /\ files'[f].left = files[f].left
      BY <1>5, FileRecord DEF FileNames
    <2>2. files'[f].has = files[f].has /\ files'[f].bad = TRUE
      BY <1>5, FileRecord DEF FileNames
    <2>3. WorkLike(files'[f])
      <3>1. files'[f].has \in BOOLEAN /\ files'[f].bad \in BOOLEAN
        BY <2>2, FileRecord, Zenon DEF WorkLike
      <3> QED BY <1>2, <2>1, <3>1, FileRecord DEF WorkLike
    <2>4. Helpers(f) = {}
      <3>1. files[f].left = Len(files[f].job.cells) - files[f].k + 1 + Cardinality(Helpers(f))
        BY <1>2, FileRecord DEF LeftOk
      <3>2. files[f].k \in Nat /\ Len(files[f].job.cells) \in Nat /\ Cardinality(Helpers(f)) \in Nat
        BY FileRecord, ThreadsFinite DEF WorkLike
      <3>3. Cardinality(Helpers(f)) = 0
        BY <1>5, <3>1, <3>2
      <3> QED BY <3>3, ThreadsFinite, FS_EmptySet
    <2>5. ~Idle(files'[f])
      BY <2>1 DEF Idle
    <2>6. FramesOk' /\ WorkOk' /\ ChunkersOk' /\ CountsOk' /\ WaitingOk' /\ SeenOk'
      BY <1>1, <1>2, <1>5, <2>1, <2>3, <2>4, <2>5, FileMovesAlone
    <2>7. BlameOk'
      <3>1. Trouble'
        BY <2>2 DEF Trouble
      <3>2. faults.seen \in Nat /\ faults'.seen \in Nat /\ faults'.seen > 0 /\ faults'.seen >= faults.seen
        BY <1>1 DEF Good, BlameOk
      <3> QED BY <1>1, <1>3, <1>5, <3>1, <3>2, BlameKept
    <2>8. TailOk'
      BY <1>1, <1>3, <1>5, TailKept
    <2> QED BY <2>6, <2>7, <2>8 DEF Good
  <1> QED BY <1>4, <1>5 DEF SplitFails

\* A file whose chunks are all counted out has no thread working for it.
LEMMA ChunksDoneGood ==
  ASSUME ImageInv, Good, NEW f \in Threads, ChunksDone(f)
  PROVE  Good'
  <1>1. UNCHANGED <<plan, main, disk, chunkers, frames, faults>>
    BY DEF ChunksDone
  <1>2. files[f].pc = "split" /\ ~Idle(files[f]) /\ files[f].left = 0
    BY DEF ChunksDone, Idle
  <1>3. main.at \in {"tune", "folder", "box"}
    BY <1>2, BusyWhere
  <1>4. FileGo(f, IF files[f].bad THEN "finish" ELSE "write")
    BY DEF ChunksDone
  <1>5. /\ \A g \in Threads \ {f} : files'[g] = files[g]
        /\ files'[f].pc = IF files[f].bad THEN "finish" ELSE "write"
        /\ files'[f].job = files[f].job /\ files'[f].k = files[f].k
        /\ files'[f].left = files[f].left
    BY <1>4, FileRecord DEF FileGo, FileNames
  <1>6. files'[f].has = files[f].has /\ files'[f].bad = files[f].bad
    BY <1>4, FileRecord DEF FileGo, FileNames
  <1>7. WorkLike(files'[f])
    <2>1. files'[f].has \in BOOLEAN /\ files'[f].bad \in BOOLEAN
      BY <1>6, FileRecord, Zenon DEF WorkLike
    <2>2. files'[f].bad => files'[f].pc = "finish"
      BY <1>5, <1>6
    <2>3. files'[f].pc \in {"finish", "write"}
      BY <1>5
    <2> QED BY <1>5, <2>1, <2>2, <2>3, FileRecord DEF WorkLike
  <1>8. Helpers(f) = {}
    <2>1. files[f].left = Len(files[f].job.cells) - files[f].k + 1 + Cardinality(Helpers(f))
      BY <1>2, FileRecord DEF LeftOk
    <2>2. files[f].k \in Nat /\ Len(files[f].job.cells) \in Nat /\ Cardinality(Helpers(f)) \in Nat
          /\ files[f].k <= Len(files[f].job.cells) + 1
      BY FileRecord, ThreadsFinite DEF WorkLike
    <2>3. Cardinality(Helpers(f)) = 0
      BY <1>2, <2>1, <2>2, NoneLeft
    <2> QED BY <2>3, ThreadsFinite, FS_EmptySet
  <1>9. ~Idle(files'[f]) /\ files'[f].pc # "split"
    BY <1>5 DEF Idle
  <1>10. FramesOk' /\ WorkOk' /\ ChunkersOk' /\ CountsOk' /\ WaitingOk' /\ SeenOk'
    BY <1>1, <1>2, <1>5, <1>7, <1>8, <1>9, FileMovesAlone
  <1>11. BlameOk'
    <2>1. \A g \in Threads : files'[g].bad = files[g].bad
      BY <1>5, <1>6
    <2> QED BY <1>1, <1>3, <2>1, BlameStays
  <1>12. TailOk'
    BY <1>1, <1>3, TailKept
  <1> QED BY <1>10, <1>11, <1>12 DEF Good

LEMMA MarkRecordGood ==
  ASSUME ImageInv, Good, NEW f \in Threads, MarkRecord(f)
  PROVE  Good'
  <1>1. UNCHANGED <<plan, main, disk, chunkers, frames, faults>>
    BY DEF MarkRecord
  <1>2. files[f].pc = "mark" /\ ~Idle(files[f])
    BY DEF MarkRecord, Idle
  <1>3. main.at \in {"tune", "folder", "box"}
    BY <1>2, BusyWhere
  <1>4. FileGo(f, "finish")
    BY DEF MarkRecord
  <1>5. /\ \A g \in Threads \ {f} : files'[g] = files[g]
        /\ files'[f].pc = "finish"
        /\ files'[f].job = files[f].job /\ files'[f].k = files[f].k
        /\ files'[f].left = files[f].left
    BY <1>4, FileRecord DEF FileGo, FileNames
  <1>6. files'[f].has = files[f].has /\ files'[f].bad = files[f].bad
    BY <1>4, FileRecord DEF FileGo, FileNames
  <1>7. WorkLike(files'[f])
    <2>1. files'[f].has \in BOOLEAN /\ files'[f].bad \in BOOLEAN
      BY <1>6, FileRecord, Zenon DEF WorkLike
    <2> QED BY <1>5, <2>1, FileRecord DEF WorkLike
  <1>8. Helpers(f) = {}
    BY <1>2, FileRecord DEF LeftOk
  <1>9. ~Idle(files'[f])
    BY <1>5 DEF Idle
  <1>10. FramesOk' /\ WorkOk' /\ ChunkersOk' /\ CountsOk' /\ WaitingOk' /\ SeenOk'
    BY <1>1, <1>2, <1>5, <1>7, <1>8, <1>9, FileMovesAlone
  <1>11. BlameOk'
    <2>1. \A g \in Threads : files'[g].bad = files[g].bad
      BY <1>5, <1>6
    <2> QED BY <1>1, <1>3, <2>1, BlameStays
  <1>12. TailOk'
    BY <1>1, <1>3, TailKept
  <1> QED BY <1>10, <1>11, <1>12 DEF Good

\* The file is in the image, or was refused room there.
LEMMA StoredGood ==
  ASSUME ImageInv, Good, NEW f \in Threads, files[f].pc = "write",
         UNCHANGED <<plan, main, chunkers, frames>>,
         \/ FileFails(f) /\ (~plan.readOnly \/ faults'.seen > 0)
         \/ (\E fork : FileStored(f, fork)) /\ faults'.seen = faults.seen,
         faults'.seen \in Nat, faults'.seen >= faults.seen, TailOk'
  PROVE  Good'
  <1>1. ~Idle(files[f]) /\ main.at \in {"tune", "folder", "box"}
    BY BusyWhere DEF Idle
  <1>2. Helpers(f) = {}
    BY FileRecord DEF LeftOk
  <1>3. ~files[f].bad
    BY FileRecord DEF WorkLike
  <1>4. /\ \A g \in Threads \ {f} : files'[g] = files[g]
        /\ files'[f].pc \in {"finish", "mark"}
        /\ files'[f].job = files[f].job /\ files'[f].k = files[f].k
        /\ files'[f].left = files[f].left
    BY FileRecord DEF FileFails, FileStored, FileNames
  <1>5. /\ files'[f].has = files[f].has
        /\ \/ files'[f].bad = files[f].bad /\ faults'.seen = faults.seen
           \/ /\ files'[f].bad = TRUE /\ files'[f].pc = "finish"
              /\ ~plan.readOnly \/ faults'.seen > 0
    BY FileRecord DEF FileFails, FileStored, FileNames
  <1>6. WorkLike(files'[f])
    <2>1. files'[f].has \in BOOLEAN /\ files'[f].bad \in BOOLEAN
      BY <1>5, FileRecord, Zenon DEF WorkLike
    <2>2. files'[f].bad => files'[f].pc = "finish"
      BY <1>3, <1>5
    <2> QED BY <1>4, <2>1, <2>2, FileRecord DEF WorkLike
  <1>7. ~Idle(files'[f]) /\ files'[f].pc # "split"
    BY <1>4 DEF Idle
  <1>8. FramesOk' /\ WorkOk' /\ ChunkersOk' /\ CountsOk' /\ WaitingOk' /\ SeenOk'
    BY <1>1, <1>2, <1>4, <1>6, <1>7, FileMovesAlone
  <1>9. BlameOk'
    <2>1. \A g \in Threads : files[g].bad => files'[g].bad
      BY <1>3, <1>4
    <2>2. \A g \in Threads : files'[g].bad
            => files[g].bad \/ ~plan.readOnly \/ faults'.seen > 0
      BY <1>4, <1>5
    <2>3. /\ Trouble => Trouble'
          /\ Trouble' => Trouble \/ ~plan.readOnly \/ faults'.seen > 0
      BY <2>1, <2>2 DEF Trouble
    <2>4. faults.seen \in Nat /\ (faults'.seen > faults.seen => files'[f].bad)
      BY <1>5 DEF Good, BlameOk
    <2>5. faults'.seen > faults.seen => Trouble'
      BY <2>4 DEF Trouble
    <2> QED BY <1>1, <2>3, <2>5, BlameKept
  <1> QED BY <1>8, <1>9 DEF Good

\* What is put into the image gets its room there, if it is a read-only one.
LEMMA PutsGood ==
  ASSUME ImageInv, Good, NEW f \in Threads, files[f].pc = "write", NEW cells, NEW table,
         UNCHANGED <<plan, main, chunkers, frames>>, faults'.seen = faults.seen,
         Puts(f, cells, table)
  PROVE  Good'
  <1>1. UNCHANGED <<plan, main, chunkers, frames>>
    OBVIOUS
  <1>2. faults'.seen \in Nat /\ faults'.seen >= faults.seen
    BY DEF Good, BlameOk
  <1>3. main.at \in {"tune", "folder", "box"}
    BY BusyWhere DEF Idle
  <1> DEFINE dst == MetadataSize(disk.space)
             len == Len(files[f].job.cells) + 1
             d == WithTable(Stored(disk, dst, cells), table)
  <1>4. d.space = disk.space /\ d.meta = disk.meta /\ DOMAIN d = DOMAIN disk
    BY DEF WithTable, Stored, ImageInv, DiskLike
  <1>5. DOMAIN disk = {"space", "blocks", "ranges", "fixed", "tables", "meta", "table"}
    BY DEF ImageInv, DiskLike
  <1>6. CASE ~plan.readOnly
    <2>1. FileFails(f) \/ \E fork : FileStored(f, fork)
      BY DEF Puts, SettleNew, Settle, TakeSpace
    <2>2. TailOk'
      BY <1>1, <1>6 DEF TailOk
    <2> QED BY <1>1, <1>2, <1>6, <2>1, <2>2, StoredGood
  <1>7. CASE plan.readOnly
    <2>1. len \in Nat /\ DiskLike(disk)
      BY FileRecord DEF ImageInv
    <2>2. dst = disk.space.first
      BY <1>7 DEF MetadataSize, ImageInv, KindOk
    <2>3. \E twin : Settle(f, d, dst, len, twin)
      BY <1>7 DEF Puts, SettleNew
    <2> DEFINE grant == AllocateSpace(disk.space, dst, len)
    <2>4. /\ disk.space.first \in Nat /\ grant.addr # Refused
          /\ grant.space.first = disk.space.first + len
      BY <1>7, <2>1, <2>2, TailGrants
    <2>5. AllocateSpace(d.space, dst, len) = grant
      BY <1>4
    <2> HIDE DEF d, dst, len, grant
    <2>6. CASE \E twin : disk' = DropCopy(d, dst) /\ FileStored(f, Fork(twin, len))
      <3>1. disk'.space = disk.space /\ disk'.meta = disk.meta
        BY <1>4, <1>5, <2>6 DEF DropCopy
      <3>2. TailOk'
        BY <1>1, <1>3, <3>1, TailStays DEF Good
      <3> QED BY <1>1, <1>2, <2>6, <3>2, StoredGood
    <2>7. CASE TakeSpace(f, d, grant, len)
      <3>1. /\ disk' = AddRange([d EXCEPT !.space = grant.space], Fork(grant.addr, len))
            /\ FileStored(f, Fork(grant.addr, len))
        BY <2>4, <2>7 DEF TakeSpace
      <3>2. disk'.space = grant.space /\ disk'.meta = disk.meta
        BY <1>4, <1>5, <3>1 DEF AddRange
      <3>3. TailOk'
        BY <1>1, <1>3, <2>1, <2>4, <3>2 DEF Good, TailOk
      <3> QED BY <1>1, <1>2, <3>1, <3>3, StoredGood
    <2> QED BY <2>3, <2>5, <2>6, <2>7 DEF Settle
  <1> QED BY <1>6, <1>7

\* A file is refused room only in a sized image; else it fails of a fault.
LEMMA WritesGood ==
  ASSUME ImageInv, Good, NEW f \in Threads, Writes(f)
  PROVE  Good'
  <1>1. UNCHANGED <<plan, main, chunkers, frames>> /\ files[f].pc = "write"
    BY WritesAre
  <1>2. faults.seen \in Nat
    BY DEF Good, BlameOk
  <1>3. main.at \in {"tune", "folder", "box"}
    BY <1>1, BusyWhere DEF Idle
  <1>4. DOMAIN disk = {"space", "blocks", "ranges", "fixed", "tables", "meta", "table"}
    BY DEF ImageInv, DiskLike
  <1>5. ASSUME disk'.space = disk.space, disk'.meta = disk.meta
        PROVE  TailOk'
    BY <1>1, <1>3, <1>5, TailStays DEF Good
  <1>6. CASE Full /\ FileFails(f) /\ UNCHANGED <<disk, faults>>
    BY <1>1, <1>2, <1>5, <1>6, StoredGood DEF Full
  <1>7. ASSUME NEW cells, NEW d, d = Stored(disk, MetadataSize(disk.space), cells)
        PROVE  DOMAIN d = DOMAIN disk /\ d.space = disk.space /\ d.meta = disk.meta
    BY <1>4, <1>7 DEF Stored
  <1>8. ASSUME NEW cells, NEW table, NEW d,
               d = WithTable(Stored(disk, MetadataSize(disk.space), cells), table)
        PROVE  DOMAIN d = DOMAIN disk /\ d.space = disk.space /\ d.meta = disk.meta
    <2>1. PICK e : e = Stored(disk, MetadataSize(disk.space), cells)
      OBVIOUS
    <2>2. DOMAIN e = DOMAIN disk /\ e.meta = disk.meta /\ e.space = disk.space
      BY <1>7, <2>1
    <2> QED BY <1>4, <1>8, <2>1, <2>2 DEF WithTable
  <1>9. ASSUME NEW d, Leaves(f, d), d.space = disk.space, d.meta = disk.meta,
               faults'.seen = faults.seen + 1
        PROVE  Good'
    <2>1. FileFails(f) /\ TailOk' /\ faults'.seen > 0
      BY <1>2, <1>5, <1>9 DEF Leaves
    <2> QED BY <1>1, <1>2, <1>9, <2>1, StoredGood
  <1>10. ASSUME NEW cells, Leaves(f, Stored(disk, MetadataSize(disk.space), cells)),
                faults'.seen = faults.seen + 1
         PROVE  Good'
    <2>1. PICK d : d = Stored(disk, MetadataSize(disk.space), cells)
      OBVIOUS
    <2> QED BY <1>7, <1>9, <1>10, <2>1
  <1>11. ASSUME NEW cells, NEW table, faults'.seen = faults.seen + 1,
                Leaves(f, WithTable(Stored(disk, MetadataSize(disk.space), cells), table))
         PROVE  Good'
    <2>1. PICK d : d = WithTable(Stored(disk, MetadataSize(disk.space), cells), table)
      OBVIOUS
    <2> QED BY <1>8, <1>9, <1>11, <2>1
  <1>12. ASSUME NEW cells, NEW table, ~Full, faults'.seen = faults.seen,
                Puts(f, cells, table)
         PROVE  Good'
    BY <1>1, <1>3, <1>12, PutsGood
  <1> QED BY <1>6, <1>10, <1>11, <1>12, WritesAre

\* A thread with nothing to do.
LEMMA NewFileLike == WorkLike(NewFile)
  <1>1. NewFile.has \in BOOLEAN /\ NewFile.bad \in BOOLEAN /\ ~NewFile.bad
    BY Zenon DEF NewFile
  <1>2. NewFile.job.frame \in FrameNames /\ Len(NewFile.job.cells) = 0
    BY DEF NewFile, NoJob, Job, FrameNames
  <1>3. NewFile.left = 0 /\ NewFile.k = 1
    BY DEF NewFile
  <1> QED BY <1>1, <1>2, <1>3 DEF WorkLike

\* What an error becomes when a thread is counted out.
LEMMA CountedOut ==
  ASSUME NEW x, NEW y
  PROVE  [count |-> x, error |-> y].error = y
  OBVIOUS

\* The thread has nothing more to do, and is counted out with its error.
LEMMA FinishJobGood ==
  ASSUME ImageInv, Good, NEW f \in Threads, FinishJob(f)
  PROVE  Good'
  <1> DEFINE frame == files[f].job.frame
  <1>1. UNCHANGED <<plan, main, disk, chunkers, faults>>
    BY DEF FinishJob
  <1>2. files[f].pc = "finish" /\ ~Idle(files[f])
    BY DEF FinishJob, Idle
  <1>3. main.at \in {"tune", "folder", "box"} /\ frame \in FrameNames /\ frames[frame].count > 0
    BY <1>2, BusyWhere
  <1>4. files' = [files EXCEPT ![f] = NewFile]
        /\ frames' = [frames EXCEPT ![frame] = CountOut(@, files[f].bad)]
    BY DEF FinishJob
  <1> HIDE DEF frame
  <1>5. /\ \A g \in Threads \ {f} : files'[g] = files[g]
        /\ files'[f] = NewFile
    BY <1>4, FileRecord
  <1>6. Idle(NewFile) /\ ~NewFile.bad /\ NewFile.pc = "idle"
    BY DEF NewFile, Idle
  <1>7. frames \in [FrameNames -> [count : Nat, error : BOOLEAN]]
    BY DEF Good, FramesOk
  <1>8. /\ \A other \in FrameNames \ {frame} : frames'[other] = frames[other]
        /\ DOMAIN frames' = FrameNames
        /\ frames'[frame] = CountOut(frames[frame], files[f].bad)
    BY <1>3, <1>4, <1>7
  <1>9. /\ frames'[frame] = [count |-> frames[frame].count - 1,
                             error |-> frames[frame].error \/ files[f].bad]
        /\ frames'[frame].count = frames[frame].count - 1
        /\ frames'[frame].error <=> frames[frame].error \/ files[f].bad
        /\ frames[frame].count - 1 \in Nat
    <2>1. frames[frame] \in [count : Nat, error : BOOLEAN]
      BY <1>3, <1>7
    <2>2. frames'[frame] = [count |-> frames[frame].count - 1,
                            error |-> frames[frame].error \/ files[f].bad]
      BY <1>8, <2>1 DEF CountOut
    <2>3. frames'[frame].error = (frames[frame].error \/ files[f].bad)
      BY <2>2, CountedOut, Zenon
    <2>4. frames'[frame].count = frames[frame].count - 1 /\ frames[frame].count - 1 \in Nat
      BY <1>3, <2>1, <2>2
    <2> QED BY <2>2, <2>3, <2>4
  <1>10. FramesOk'
    <2> DEFINE R == [count : Nat, error : BOOLEAN]
    <2>1. frames'[frame] \in R
      <3>1. (frames[frame].error \/ files[f].bad) \in BOOLEAN
        BY Zenon
      <3> QED BY <1>9, <3>1
    <2>2. frames \in [FrameNames -> R]
      BY <1>7
    <2>3. frames' = [frames EXCEPT ![frame] = CountOut(frames[frame], files[f].bad)]
      BY <1>4
    <2> HIDE DEF R
    <2>4. frames' \in [FrameNames -> R]
      BY <1>3, <1>8, <2>1, <2>2, <2>3
    <2> QED BY <2>4 DEF FramesOk, R
  <1>11. WorkOk'
    <2>1. ASSUME NEW g \in Threads
          PROVE  WorkLike(files'[g])
      <3>1. CASE g = f
        BY <1>5, NewFileLike, <3>1
      <3>2. CASE g # f
        BY <1>5, <3>2 DEF Good, WorkOk
      <3> QED BY <3>1, <3>2
    <2> QED BY <2>1 DEF WorkOk
  <1>12. ChunkersOk'
    BY <1>1 DEF Good, ChunkersOk
  <1>13. ASSUME NEW other \in FrameNames
         PROVE  CountOk(other)'
    <2>1. CASE other = frame
      <3>1. \A g \in Threads :
              ~Idle(files'[g]) /\ files'[g].job.frame = other
                <=> (~Idle(files[g]) /\ files[g].job.frame = other) /\ g # f
        BY <1>2, <1>5, <1>6
      <3>2. Workers(other)' = Workers(other) \ {f}
        BY <3>1 DEF Workers
      <3>3. f \in Workers(other)
        BY <1>2, <2>1 DEF Workers, frame
      <3>4. Cardinality(Workers(other) \ {f}) = Cardinality(Workers(other)) - 1
        BY <3>3, ThreadsFinite, FS_RemoveElement
      <3>5. Cardinality(Workers(other)') = Cardinality(Workers(other)) - 1
        BY <3>2, <3>4, Zenon
      <3>6. frames[other].count = Cardinality(Workers(other))
        BY DEF Good, CountsOk, CountOk
      <3> QED BY <1>9, <2>1, <3>5, <3>6 DEF CountOk
    <2>2. CASE other # frame
      <3>1. \A g \in Threads :
              ~Idle(files'[g]) /\ files'[g].job.frame = other
                <=> ~Idle(files[g]) /\ files[g].job.frame = other
        BY <1>2, <1>5, <1>6, <2>2 DEF frame
      <3>2. Workers(other)' = Workers(other)
        BY <3>1 DEF Workers
      <3> QED BY <1>8, <2>2, <3>2 DEF Good, CountsOk, CountOk
    <2> QED BY <2>1, <2>2
  <1>14. ASSUME NEW g \in Threads
         PROVE  LeftOk(g)'
    <2>1. \A h : Helpers(h)' = Helpers(h)
      BY <1>1 DEF Helpers
    <2>2. CASE g = f
      BY <1>2, <1>5, <1>6, <2>1, <2>2, FileRecord DEF LeftOk
    <2>3. CASE g # f
      BY <1>5, <2>1, <2>3 DEF Good, CountsOk, LeftOk
    <2> QED BY <2>2, <2>3
  <1>15. CountsOk'
    BY <1>13, <1>14 DEF CountsOk
  <1>16. WaitingOk'
    <2>1. \A other \in FrameNames : frames'[other].count > 0 => frames[other].count > 0
      BY <1>3, <1>8, <1>9
    <2> QED BY <1>1, <2>1 DEF Good, WaitingOk, FrameNames
  <1>17. SeenOk'
    <2>1. \A other \in FrameNames :
            frames'[other].error => frames[other].error \/ frames[other].count > 0
      BY <1>3, <1>8
    <2> QED BY <1>1, <2>1 DEF Good, SeenOk, WaitingOk, FrameNames
  <1>18. BlameOk'
    <2>1. \A g \in Threads : files'[g].bad <=> files[g].bad /\ g # f
      BY <1>5, <1>6
    <2>2. (\E other \in FrameNames : frames'[other].error)
            <=> (\E other \in FrameNames : frames[other].error) \/ files[f].bad
      BY <1>3, <1>8, <1>9
    <2>3. Trouble' <=> Trouble
      BY <1>1, <2>1, <2>2 DEF Trouble
    <2>4. faults'.seen \in Nat /\ faults'.seen = faults.seen
      BY <1>1 DEF Good, BlameOk
    <2> QED BY <1>1, <1>3, <2>3, <2>4, BlameKept
  <1>19. TailOk'
    BY <1>1, <1>3, TailKept
  <1> QED BY <1>10, <1>11, <1>12, <1>15, <1>16, <1>17, <1>18, <1>19 DEF Good

\* The fields of a thread of chunkers.
LEMMA ChunkRecord ==
  ASSUME Good, NEW c \in Threads
  PROVE  /\ DOMAIN chunkers = Threads
         /\ DOMAIN chunkers[c] = {"pc", "has", "owner", "chunk", "bad"}
         /\ ChunkLike(chunkers[c])
  BY DEF Good, ChunkersOk, ChunkLike

\* A thread of chunkers goes on with its chunk.
LEMMA ChunkMoves ==
  ASSUME ImageInv, Good, NEW c \in Threads, DOMAIN chunkers' = Threads,
         \A d \in Threads \ {c} : chunkers'[d] = chunkers[d],
         ~Idle(chunkers[c]), ~Idle(chunkers'[c]), chunkers'[c].owner = chunkers[c].owner,
         ChunkLike(chunkers'[c])
  PROVE  ChunkersOk' /\ \A g : Helpers(g)' = Helpers(g)
  <1>1. ASSUME NEW d \in Threads
        PROVE  ChunkLike(chunkers'[d])
    <2>1. CASE d = c
      BY <2>1
    <2>2. CASE d # c
      BY <2>2 DEF Good, ChunkersOk
    <2> QED BY <2>1, <2>2
  <1>2. ASSUME NEW g
        PROVE  Helpers(g)' = Helpers(g)
    <2>1. \A d \in Threads :
            ~Idle(chunkers'[d]) /\ chunkers'[d].owner = g
              <=> ~Idle(chunkers[d]) /\ chunkers[d].owner = g
      OBVIOUS
    <2> QED BY <2>1 DEF Helpers
  <1> QED BY <1>1, <1>2 DEF ChunkersOk

\* While the counts of all stay, so does all that hangs on them.
LEMMA FilesStay ==
  ASSUME Good, UNCHANGED <<plan, main, files, frames>>, ChunkersOk', \A g : Helpers(g)' = Helpers(g)
  PROVE  FramesOk' /\ WorkOk' /\ ChunkersOk' /\ CountsOk' /\ WaitingOk' /\ SeenOk'
  <1>1. \A frame : Workers(frame)' = Workers(frame)
    BY DEF Workers
  <1>2. CountsOk'
    BY <1>1 DEF Good, CountsOk, CountOk, LeftOk
  <1> QED BY <1>2 DEF Good, FramesOk, WorkOk, WaitingOk, SeenOk

LEMMA TakeChunkGood ==
  ASSUME ImageInv, Good, NEW c \in Threads, TakeChunk(c)
  PROVE  Good'
  <1>1. UNCHANGED <<plan, main, disk, files, frames, faults>>
    BY DEF TakeChunk
  <1>2. chunkers[c].pc = "idle" /\ ~Idle(chunkers[c])
    BY DEF TakeChunk, Idle
  <1>3. main.at \in {"tune", "folder", "box"}
    <2>1. chunkers[c].owner \in Threads /\ files[chunkers[c].owner].pc = "split"
      BY <1>2, HelperWhere
    <2> QED BY <2>1, BusyWhere DEF Idle
  <1>4. /\ \A d \in Threads \ {c} : chunkers'[d] = chunkers[d]
        /\ DOMAIN chunkers' = Threads
        /\ DOMAIN chunkers'[c] = {"pc", "has", "owner", "chunk", "bad"}
        /\ chunkers'[c].owner = chunkers[c].owner /\ chunkers'[c].pc \in {"retire", "append"}
    BY ChunkRecord DEF TakeChunk
  <1>5. chunkers'[c].has = FALSE /\ chunkers'[c].bad = chunkers[c].bad
    BY ChunkRecord DEF TakeChunk
  <1>6. ~chunkers[c].bad
    BY <1>2, ChunkRecord DEF ChunkLike
  <1>7. ChunkLike(chunkers'[c])
    <2>1. chunkers'[c].has \in BOOLEAN /\ chunkers'[c].bad \in BOOLEAN /\ ~chunkers'[c].bad
      BY <1>5, <1>6, ChunkRecord, Zenon DEF ChunkLike
    <2>2. chunkers'[c].owner \in Threads
      BY <1>2, <1>4, HelperWhere
    <2> QED BY <1>4, <2>1, <2>2 DEF ChunkLike
  <1>8. ~Idle(chunkers'[c])
    BY <1>4 DEF Idle
  <1>9. ChunkersOk' /\ \A g : Helpers(g)' = Helpers(g)
    BY <1>2, <1>4, <1>7, <1>8, ChunkMoves
  <1>10. FramesOk' /\ WorkOk' /\ ChunkersOk' /\ CountsOk' /\ WaitingOk' /\ SeenOk'
    BY <1>1, <1>9, FilesStay
  <1>11. BlameOk'
    <2>1. \A d \in Threads : chunkers'[d].bad = chunkers[d].bad
      BY <1>4, <1>5
    <2>2. \A g \in Threads : files'[g].bad = files[g].bad
      BY <1>1
    <2> QED BY <1>1, <1>3, <2>1, <2>2, BlameStays
  <1>12. TailOk'
    BY <1>1, <1>3, TailKept
  <1> QED BY <1>10, <1>11, <1>12 DEF Good

LEMMA AppendFailsGood ==
  ASSUME ImageInv, Good, NEW c \in Threads, AppendFails(c)
  PROVE  Good'
  <1>1. UNCHANGED <<plan, main, disk, files, frames>> /\ faults'.seen = faults.seen + 1
    BY DEF AppendFails, FailureSeen
  <1>2. chunkers[c].pc = "append" /\ ~Idle(chunkers[c])
    BY DEF AppendFails, Idle
  <1>3. main.at \in {"tune", "folder", "box"}
    <2>1. chunkers[c].owner \in Threads /\ files[chunkers[c].owner].pc = "split"
      BY <1>2, HelperWhere
    <2> QED BY <2>1, BusyWhere DEF Idle
  <1>4. /\ \A d \in Threads \ {c} : chunkers'[d] = chunkers[d]
        /\ DOMAIN chunkers' = Threads
        /\ DOMAIN chunkers'[c] = {"pc", "has", "owner", "chunk", "bad"}
        /\ chunkers'[c].owner = chunkers[c].owner /\ chunkers'[c].pc = "retire"
    BY ChunkRecord DEF AppendFails
  <1>5. chunkers'[c].has = chunkers[c].has /\ chunkers'[c].bad = TRUE
    BY ChunkRecord DEF AppendFails
  <1>6. ChunkLike(chunkers'[c])
    <2>1. chunkers'[c].has \in BOOLEAN /\ chunkers'[c].bad \in BOOLEAN
      BY <1>5, ChunkRecord, Zenon DEF ChunkLike
    <2>2. chunkers'[c].owner \in Threads
      BY <1>2, <1>4, HelperWhere
    <2> QED BY <1>4, <2>1, <2>2 DEF ChunkLike
  <1>7. ~Idle(chunkers'[c])
    BY <1>4 DEF Idle
  <1>8. ChunkersOk' /\ \A g : Helpers(g)' = Helpers(g)
    BY <1>2, <1>4, <1>6, <1>7, ChunkMoves
  <1>9. FramesOk' /\ WorkOk' /\ ChunkersOk' /\ CountsOk' /\ WaitingOk' /\ SeenOk'
    BY <1>1, <1>8, FilesStay
  <1>10. BlameOk'
    <2>1. Trouble'
      BY <1>5 DEF Trouble
    <2>2. faults.seen \in Nat /\ faults'.seen \in Nat /\ faults'.seen > 0 /\ faults'.seen >= faults.seen
      BY <1>1 DEF Good, BlameOk
    <2> QED BY <1>1, <1>3, <2>1, <2>2, BlameKept
  <1>11. TailOk'
    BY <1>1, <1>3, TailKept
  <1> QED BY <1>9, <1>10, <1>11 DEF Good

LEMMA AppendChunkGood ==
  ASSUME ImageInv, Good, NEW c \in Threads, AppendChunk(c)
  PROVE  Good'
  <1>1. UNCHANGED <<plan, main, disk, frames, faults>>
    BY DEF AppendChunk
  <1>2. chunkers[c].pc = "append" /\ ~Idle(chunkers[c]) /\ ~chunkers[c].bad
    BY ChunkRecord DEF AppendChunk, Idle, ChunkLike
  <1>3. PICK f \in Threads : f = chunkers[c].owner
    BY <1>2, HelperWhere
  <1>4. files[f].pc = "split" /\ ~Idle(files[f])
    BY <1>2, <1>3, HelperWhere DEF Idle
  <1>5. main.at \in {"tune", "folder", "box"}
    BY <1>4, BusyWhere
  <1>6. \E k, cell : files' = [files EXCEPT ![f] = AddChunk(@, k, cell)]
    BY <1>3 DEF AppendChunk
  <1>7. /\ \A g \in Threads \ {f} : files'[g] = files[g]
        /\ files'[f].pc = "split" /\ files'[f].job = files[f].job
        /\ files'[f].k = files[f].k /\ files'[f].left = files[f].left
        /\ files'[f].has = files[f].has /\ files'[f].bad = files[f].bad
    <2>1. PICK k, cell : files' = [files EXCEPT ![f] = AddChunk(@, k, cell)]
      BY <1>6
    <2>2. /\ \A g \in Threads \ {f} : files'[g] = files[g]
          /\ files'[f] = AddChunk(files[f], k, cell)
      BY <2>1, FileRecord
    <2> QED BY <1>4, <2>2, FileRecord DEF AddChunk, FileNames
  <1>8. WorkLike(files'[f])
    <2>1. files'[f].has \in BOOLEAN /\ files'[f].bad \in BOOLEAN
      BY <1>7, FileRecord, Zenon DEF WorkLike
    <2> QED BY <1>7, <2>1, FileRecord DEF WorkLike
  <1>9. /\ \A d \in Threads \ {c} : chunkers'[d] = chunkers[d]
        /\ DOMAIN chunkers' = Threads
        /\ DOMAIN chunkers'[c] = {"pc", "has", "owner", "chunk", "bad"}
        /\ chunkers'[c].owner = chunkers[c].owner /\ chunkers'[c].pc = "retire"
        /\ chunkers'[c].has = chunkers[c].has /\ chunkers'[c].bad = chunkers[c].bad
    BY ChunkRecord DEF AppendChunk
  <1>10. ChunkLike(chunkers'[c])
    <2>1. chunkers'[c].has \in BOOLEAN /\ chunkers'[c].bad \in BOOLEAN
      BY <1>9, ChunkRecord, Zenon DEF ChunkLike
    <2> QED BY <1>3, <1>9, <2>1 DEF ChunkLike
  <1>11. ~Idle(chunkers'[c]) /\ ~Idle(files'[f])
    BY <1>7, <1>9 DEF Idle
  <1>12. ChunkersOk' /\ \A g : Helpers(g)' = Helpers(g)
    BY <1>2, <1>9, <1>10, <1>11, ChunkMoves
  <1>13. LeftOk(f)'
    <2>1. LeftOk(f)
      BY FileRecord
    <2> QED BY <1>4, <1>7, <1>12, <2>1 DEF LeftOk
  <1>14. FramesOk' /\ WorkOk' /\ ChunkersOk' /\ CountsOk' /\ WaitingOk' /\ SeenOk'
    BY <1>1, <1>4, <1>7, <1>8, <1>11, <1>12, <1>13, FileMoves
  <1>15. BlameOk'
    <2>1. \A g \in Threads : files'[g].bad = files[g].bad
      BY <1>7
    <2>2. \A d \in Threads : chunkers'[d].bad = chunkers[d].bad
      BY <1>9
    <2> QED BY <1>1, <1>5, <2>1, <2>2, BlameStays
  <1>16. TailOk'
    BY <1>1, <1>5, TailKept
  <1> QED BY <1>14, <1>15, <1>16 DEF Good

LEMMA NewChunkerLike == ChunkLike(NewChunker)
  <1>1. NewChunker.has \in BOOLEAN /\ NewChunker.bad \in BOOLEAN /\ ~NewChunker.bad
    BY Zenon DEF NewChunker
  <1>2. DOMAIN NewChunker = {"pc", "has", "owner", "chunk", "bad"}
    BY DEF NewChunker
  <1>3. Idle(NewChunker)
    BY DEF NewChunker, Idle
  <1> QED BY <1>1, <1>2, <1>3 DEF ChunkLike

\* A chunk is done: its thread is free and its error, if any, is the file's.
LEMMA RetireChunkGood ==
  ASSUME ImageInv, Good, NEW c \in Threads, RetireChunk(c)
  PROVE  Good'
  <1>1. UNCHANGED <<plan, main, disk, frames, faults>>
    BY DEF RetireChunk
  <1>2. chunkers[c].pc = "retire" /\ ~Idle(chunkers[c])
    BY DEF RetireChunk, Idle
  <1>3. PICK f \in Threads : f = chunkers[c].owner
    BY <1>2, HelperWhere
  <1>4. files[f].pc = "split" /\ ~Idle(files[f])
    BY <1>2, <1>3, HelperWhere DEF Idle
  <1>5. main.at \in {"tune", "folder", "box"}
    BY <1>4, BusyWhere
  <1>6. /\ \A g \in Threads \ {f} : files'[g] = files[g]
        /\ files'[f] = CountChunk(files[f], chunkers[c].bad)
    BY <1>3, FileRecord DEF RetireChunk
  <1>7. /\ files'[f].pc = "split" /\ files'[f].job = files[f].job
        /\ files'[f].k = files[f].k /\ files'[f].left = files[f].left - 1
        /\ files'[f].has = files[f].has
    BY <1>4, <1>6, FileRecord DEF CountChunk, FileNames
  <1>8. files'[f].bad = (files[f].bad \/ chunkers[c].bad)
    BY <1>6, FileRecord, Zenon DEF CountChunk, FileNames
  <1>9. WorkLike(files'[f])
    <2>1. files'[f].has \in BOOLEAN /\ files'[f].bad \in BOOLEAN
      BY <1>7, <1>8, FileRecord, Zenon DEF WorkLike
    <2> QED BY <1>7, <2>1, FileRecord DEF WorkLike
  <1>10. /\ \A d \in Threads \ {c} : chunkers'[d] = chunkers[d]
         /\ DOMAIN chunkers' = Threads
         /\ chunkers'[c] = NewChunker
    BY ChunkRecord DEF RetireChunk
  <1>11. Idle(NewChunker) /\ ~NewChunker.bad /\ NewChunker.pc = "idle"
    BY DEF NewChunker, Idle
  <1>12. ChunkersOk'
    <2>1. ASSUME NEW d \in Threads
          PROVE  ChunkLike(chunkers'[d])
      <3>1. CASE d = c
        BY <1>10, NewChunkerLike, <3>1
      <3>2. CASE d # c
        BY <1>10, <3>2 DEF Good, ChunkersOk
      <3> QED BY <3>1, <3>2
    <2> QED BY <1>10, <2>1 DEF ChunkersOk
  <1>13. \A g \in Threads \ {f} : Helpers(g)' = Helpers(g)
    <2>1. ASSUME NEW g \in Threads \ {f}
          PROVE  Helpers(g)' = Helpers(g)
      <3>1. \A d \in Threads :
              ~Idle(chunkers'[d]) /\ chunkers'[d].owner = g
                <=> ~Idle(chunkers[d]) /\ chunkers[d].owner = g
        BY <1>3, <1>10, <1>11
      <3> QED BY <3>1 DEF Helpers
    <2> QED BY <2>1
  <1>14. LeftOk(f)'
    <2>1. \A d \in Threads :
            ~Idle(chunkers'[d]) /\ chunkers'[d].owner = f
              <=> (~Idle(chunkers[d]) /\ chunkers[d].owner = f) /\ d # c
      BY <1>10, <1>11
    <2>2. Helpers(f)' = Helpers(f) \ {c} /\ c \in Helpers(f)
      BY <1>2, <1>3, <2>1 DEF Helpers
    <2>3. Cardinality(Helpers(f) \ {c}) = Cardinality(Helpers(f)) - 1
      BY <2>2, ThreadsFinite, FS_RemoveElement
    <2>4. Cardinality(Helpers(f)') = Cardinality(Helpers(f)) - 1
      BY <2>2, <2>3, Zenon
    <2> DEFINE n == Cardinality(Helpers(f))
               m == Cardinality(Helpers(f)')
               len == Len(files[f].job.cells)
    <2>5. n \in Nat /\ m = n - 1 /\ len \in Nat
      BY <2>4, ThreadsFinite, FileRecord
    <2>6. files[f].left = len - files[f].k + 1 + n /\ files[f].k \in Nat
      BY <1>4, FileRecord DEF LeftOk, WorkLike
    <2>7. files'[f].left = len - files'[f].k + 1 + m /\ len = Len(files'[f].job.cells)
      <3> HIDE DEF n, m, len
      <3>1. files'[f].left = len - files'[f].k + 1 + m
        BY <1>7, <2>5, <2>6
      <3> QED BY <1>7, <3>1 DEF len
    <2> QED BY <1>7, <2>7 DEF LeftOk
  <1>15. FramesOk' /\ WorkOk' /\ ChunkersOk' /\ CountsOk' /\ WaitingOk' /\ SeenOk'
    <2>1. ~Idle(files'[f])
      BY <1>7 DEF Idle
    <2> QED BY <1>1, <1>4, <1>6, <1>7, <1>9, <1>12, <1>13, <1>14, <2>1, FileMoves
  <1>16. BlameOk'
    <2>1. \A g \in Threads : files'[g].bad <=> files[g].bad \/ (g = f /\ chunkers[c].bad)
      BY <1>6, <1>8
    <2>2. \A d \in Threads : chunkers'[d].bad <=> chunkers[d].bad /\ d # c
      BY <1>10, <1>11
    <2>3. (\E g \in Threads : files'[g].bad)
            <=> (\E g \in Threads : files[g].bad) \/ chunkers[c].bad
      BY <2>1
    <2>4. (\E d \in Threads : chunkers'[d].bad) \/ chunkers[c].bad
            <=> (\E d \in Threads : chunkers[d].bad)
      BY <2>2
    <2>5. Trouble' <=> Trouble
      BY <1>1, <2>3, <2>4 DEF Trouble
    <2>6. faults'.seen \in Nat /\ faults'.seen = faults.seen
      BY <1>1 DEF Good, BlameOk
    <2> QED BY <1>1, <1>5, <2>5, <2>6, BlameKept
  <1>17. TailOk'
    BY <1>1, <1>5, TailKept
  <1> QED BY <1>15, <1>16, <1>17 DEF Good

--------------------------------------------------------------------------------
(* The program, and the verdict.                                           *)

LEMMA MainStepGood ==
  ASSUME ImageInv, Good, MainStep
  PROVE  main'.at = "undefined" \/ Good'
  BY ListGood, FixedGood, WaitGood, HandGood, DataGood, OnwardGood, CopyBoxGood, PlaceGood,
     EndGood DEF MainStep

LEMMA ThreadStepGood ==
  ASSUME ImageInv, Good, NEW t \in Threads,
         FileStep(t) \/ ChunkStep(t) \/ SplitFails(t) \/ AppendFails(t) \/ Writes(t)
  PROVE  main'.at = "undefined" \/ Good'
  BY TakeJobGood, LookGood, SplitChunkGood, ChunksDoneGood, WritesGood, MarkRecordGood,
     FinishJobGood, TakeChunkGood, AppendChunkGood, RetireChunkGood, SplitFailsGood,
     AppendFailsGood DEF FileStep, ChunkStep, Writes

\* Unpack changes nothing of what mkfs made.
LEMMA MadeStays ==
  ASSUME UNCHANGED <<plan, main, disk, files, chunkers, frames, faults>>, Good
  PROVE  Good'
  <1>1. UNCHANGED <<plan, pools, faults>>
    BY DEF pools
  <1>2. Passes
    BY <1>1, StayPasses
  <1>3. TailOk'
    BY DEF Good, TailOk, MetaEnd
  <1> QED BY <1>2, <1>3, GoodStep

LEMMA UnpackMadeStays ==
  ASSUME UnpackNext \/ UNCHANGED vars
  PROVE  UNCHANGED mkfsVars
  BY DEF UnpackNext, ReadSuper, FillTables, FillTrees, CreateFolders, UnpackFile, FilesDone,
         UnpackHlink, HlinksDone, vars

\* Nothing follows what is undefined: the threads go on, main does not.
LEMMA UndefinedStays ==
  ASSUME ImageInv, main.at = "undefined", [Next]_vars
  PROVE  main'.at = "undefined"
  <1>1. CASE MainStep
    BY <1>1 DEF MainStep, ReadList, InsertMetadata, InsertHlinksMetadata, AllocateFixedArea,
                FixedAreasDone, TuneFile, TuneFolder, CompressDirEntry, CompressDirDone, TuneDone,
                InsertData, InsertDataDone, InsertHlinkData, InsertHlinksDone, SkipBox, SendBox,
                BoxSent, CopyBox, BoxesDone, PlaceSubsystem, PlacePreallocation, Flush,
                StopThread, EndMkfs, At, Past
  <1>2. CASE CopyFails
    BY <1>2 DEF CopyFails
  <1>3. ASSUME NEW t \in Threads, SplitFails(t)
        PROVE  main'.at = "undefined"
    BY <1>3, Moved DEF SplitFails
  <1>4. ASSUME NEW t \in Threads,
               FileStep(t) \/ ChunkStep(t) \/ AppendFails(t) \/ WriteLost(t) \/ WriteFails(t)
        PROVE  main' = main
    BY <1>4 DEF FileStep, TakeJob, Look, SplitChunk, ChunksDone, WriteImage, MarkRecord, FinishJob,
                ChunkStep, TakeChunk, AppendChunk, RetireChunk, AppendFails, WriteLost, WriteFails
  <1>5. CASE UnpackNext \/ UNCHANGED vars
    BY <1>5, UnpackMadeStays DEF mkfsVars
  <1> QED BY <1>1, <1>2, <1>3, <1>4, <1>5 DEF Next, MkfsNext, Mishap

LEMMA VerdictInvStep ==
  ASSUME ImageInv, VerdictInv, [Next]_vars
  PROVE  VerdictInv'
  <1>1. CASE main.at = "undefined"
    BY <1>1, UndefinedStays DEF VerdictInv
  <1>2. CASE main.at # "undefined"
    <2>1. Good
      BY <1>2 DEF VerdictInv
    <2>2. CASE MainStep
      BY <2>1, <2>2, MainStepGood DEF VerdictInv
    <2>3. CASE CopyFails
      BY <2>1, <2>3, CopyFailsGood DEF VerdictInv
    <2>4. ASSUME NEW t \in Threads,
                 FileStep(t) \/ ChunkStep(t) \/ SplitFails(t) \/ AppendFails(t) \/ Writes(t)
          PROVE  VerdictInv'
      BY <2>1, <2>4, ThreadStepGood DEF VerdictInv
    <2>5. CASE UnpackNext \/ UNCHANGED vars
      BY <2>1, <2>5, UnpackMadeStays, MadeStays DEF VerdictInv, mkfsVars
    <2> QED BY <2>2, <2>3, <2>4, <2>5 DEF Next, MkfsNext, Mishap, Writes
  <1> QED BY <1>1, <1>2

LEMMA VerdictInvInit ==
  ASSUME Init
  PROVE  VerdictInv
  <1>1. MkfsInit
    BY DEF Init
  <1>2. /\ main.at = "list" /\ faults.seen = 0
        /\ disk.space.first = 0 /\ disk.meta.first = 0 /\ disk.meta.count = 0
    BY <1>1 DEF MkfsInit, NewSpace
  <1>3. main.error = FALSE
    BY <1>1 DEF MkfsInit
  <1>4. /\ \A f \in Threads : files[f] = NewFile
        /\ DOMAIN chunkers = Threads /\ \A c \in Threads : chunkers[c] = NewChunker
    BY <1>1 DEF MkfsInit
  <1>5. \A frame \in FrameNames : frames[frame] = [count |-> 0, error |-> FALSE]
    BY <1>1 DEF MkfsInit, FrameNames
  <1>6. FramesOk
    <2> DEFINE R == [count : Nat, error : BOOLEAN]
    <2>1. [count |-> 0, error |-> FALSE] \in R
      OBVIOUS
    <2> HIDE DEF R
    <2>2. frames \in [FrameNames -> R]
      BY <1>1, <2>1 DEF MkfsInit, FrameNames
    <2> QED BY <2>2 DEF FramesOk, R
  <1>7. Idle(NewFile) /\ ~NewFile.bad /\ NewFile.pc = "idle"
    BY DEF NewFile, Idle
  <1>8. Idle(NewChunker) /\ ~NewChunker.bad /\ NewChunker.pc = "idle"
    BY DEF NewChunker, Idle
  <1>9. WorkOk
    BY <1>4, NewFileLike DEF WorkOk
  <1>10. ChunkersOk
    BY <1>4, NewChunkerLike DEF ChunkersOk
  <1>11. CountsOk
    <2>1. \A frame : Workers(frame) = {}
      BY <1>4, <1>7 DEF Workers
    <2>2. \A f : Helpers(f) = {}
      BY <1>4, <1>8 DEF Helpers
    <2>3. \A frame \in FrameNames : frames[frame].count = 0
      BY <1>5
    <2>4. Cardinality({}) = 0
      BY FS_EmptySet
    <2> QED BY <1>4, <1>7, <2>1, <2>2, <2>3, <2>4 DEF CountsOk, CountOk, LeftOk
  <1>12. WaitingOk
    BY <1>5 DEF WaitingOk, FrameNames
  <1>13. \A frame \in FrameNames : ~frames[frame].error
    BY <1>5
  <1>14. SeenOk
    <2>1. main.error \in BOOLEAN
      BY <1>3
    <2> QED BY <1>3, <1>13, <2>1 DEF SeenOk, FrameNames
  <1>15. ~Trouble
    BY <1>3, <1>4, <1>7, <1>8, <1>13 DEF Trouble
  <1>16. BlameOk
    BY <1>2, <1>15 DEF BlameOk
  <1>17. TailOk
    BY <1>2 DEF TailOk
  <1> QED BY <1>6, <1>9, <1>10, <1>11, <1>12, <1>14, <1>16, <1>17 DEF VerdictInv, Good

\* mkfs says it has made an image only if none of the reads, writes and
\* compressions whose outcome the code looks at failed, in main or in any
\* thread, and it refuses to make a read-only one only if one did or the list
\* of files is wrong.  The writes nobody looks at (WriteLost) are not covered:
\* mkfs succeeds over those.
THEOREM VerdictAlwaysHonest == Spec => []VerdictHonest
  <1>1. Init => ImageInv /\ VerdictInv
    BY ImageInvInit, VerdictInvInit
  <1>2. ImageInv /\ VerdictInv /\ [Next]_vars => (ImageInv /\ VerdictInv)'
    BY ImageInvStep, VerdictInvStep
  <1>3. ImageInv /\ VerdictInv => VerdictHonest
    <2> SUFFICES ASSUME ImageInv, VerdictInv
                 PROVE  VerdictHonest
      OBVIOUS
    <2>1. CASE main.at = "done"
      <3>1. Good
        BY <2>1 DEF VerdictInv
      <3>2. ~main.error /\ \A frame \in FrameNames : ~frames[frame].error
        BY <2>1, <3>1 DEF Good, SeenOk, FrameNames
      <3>3. ~Trouble
        BY <2>1, <3>1, <3>2, NobodyWorks DEF Trouble
      <3> QED BY <2>1, <3>1, <3>3 DEF Good, BlameOk, VerdictHonest
    <2>2. CASE main.at = "failed"
      <3>1. Good
        BY <2>2 DEF VerdictInv
      <3> QED BY <2>2, <3>1 DEF Good, BlameOk, BadList, VerdictHonest
    <2>3. CASE main.at \notin {"done", "failed"}
      BY <2>3 DEF VerdictHonest
    <2> QED BY <2>1, <2>2, <2>3
  <1> QED BY <1>1, <1>2, <1>3, PTL DEF Spec

--------------------------------------------------------------------------------
(* The areas of the image.  Space is always taken at the front of what is  *)
(* free, so that one free extent is left at most; what is given to a file, *)
(* to the fixed areas or to the metadata is given to nobody else, although *)
(* it goes through several hands: a thread keeps the fork of its file      *)
(* until it tells the catalog, and the known ranges are handed out again   *)
(* to files with the same data.                                            *)

Room(space) == space.readOnly \/ space.free # {}
\* There is one free extent at most.
OneExtent(space) == ~space.readOnly => \A e, f \in space.free : e = f

\* Where main is, and what the next request of main's will be.
Early == {"list", "metadata", "fixed"}
Filling == {"tune", "folder", "data", "hlinks", "boxes", "box"}
FrontOk ==
  /\ OneExtent(disk.space)
  /\ disk.meta.first = 0 => disk.meta.count = 0
  /\ main.at \in Early \cup Filling => disk.meta.first = 0
  /\ Room(disk.space) =>
       /\ main.at \in {"list", "metadata"} => MetadataSize(disk.space) = 0
       /\ main.at = "fixed" => MetadataSize(disk.space) = main.i - 1
       /\ main.at \in Filling \cup {"place"} => MetadataSize(disk.space) > 0
       /\ main.at \in {"data", "hlinks"} => main.offset = MetadataSize(disk.space)
       /\ main.at = "place" /\ disk.meta.first > 0 => MetaEnd(disk) = MetadataSize(disk.space)

BodyLike(body) == DOMAIN body = {"type", "flags", "fork", "box", "at"}
ObjectsLike(c) == \A o \in DOMAIN c.objects : BodyLike(c.objects[o])

\* The areas the catalog knows, those threads are about to tell it, and the
\* ranges that may be given to another file.
Forked(c) ==
  {ForkBlocks(c.objects[o].fork) : o \in {x \in DOMAIN c.objects : c.objects[x].fork.begin # 0}}
Marked(t) == {ForkBlocks(t[f].fork) : f \in {g \in Threads : t[g].pc = "mark"}}
Ranged(d) == {ForkBlocks(d.ranges[i]) : i \in DOMAIN d.ranges}
Areas == Forked(catalog) \cup Marked(files) \cup Ranged(disk)

\* Areas that are given out and have no block in common.
Apart(areas, fixed, meta, space) ==
  /\ \A a, b \in areas : a # b => a \cap b = {}
  /\ \A a \in areas : a \cap fixed = {} /\ a \cap meta = {}
  /\ fixed \cap meta = {}
  /\ \A a \in areas \cup {fixed, meta} : \A b \in a : b \in Nat /\ Taken(space, b)

AreasInv ==
  /\ FrontOk /\ ObjectsLike(catalog) /\ IsSeq(disk.ranges)
  /\ Apart(Areas, disk.fixed, MetaArea, disk.space)

\* Space asked for at the front, or anywhere, is taken from the front.
LEMMA FrontGrants ==
  ASSUME NEW space, GoodSpace(space), OneExtent(space), NEW offset \in Nat, NEW len \in Nat,
         Room(space) => offset \in {AnyAddress, MetadataSize(space)},
         NEW grant, grant = AllocateSpace(space, offset, len), grant.addr # Refused
  PROVE  /\ Room(space) /\ grant.addr = MetadataSize(space) /\ OneExtent(grant.space)
         /\ Room(grant.space) => MetadataSize(grant.space) = MetadataSize(space) + len
  <1>1. space \in Spaces
    BY DEF GoodSpace
  <1>2. CASE space.readOnly
    <2>1. grant.addr = space.first /\ grant.space = [space EXCEPT !.first = @ + len]
      BY <1>2 DEF AllocateSpace, GetFreeTail, Refusal, Grant, Refused
    <2>2. grant.space.readOnly /\ grant.space.first = space.first + len
      BY <1>1, <1>2, <2>1 DEF Spaces
    <2> QED BY <1>2, <2>1, <2>2 DEF Room, OneExtent, MetadataSize
  <1>3. CASE ~space.readOnly
    <2> DEFINE fitting == Fitting(space.free, offset, len)
               e == FirstOf(fitting)
               addr == IF offset = AnyAddress THEN e.start ELSE offset
    <2>1. space.free \in SUBSET Extents /\ GoodSpace(grant.space) /\ grant.space \in Spaces
      BY <1>1, <1>3, AllocateSpaceGood DEF Spaces, GoodSpace
    <2>2. fitting # {} /\ grant = FirstFit(space, e, offset, len)
      BY <1>3 DEF AllocateSpace, GetFreeListed, Refusal, Grant, Refused
    <2>3. grant = Take(space, e, addr, len)
      BY <2>2 DEF FirstFit
    <2>4. e \in space.free /\ e.start <= addr /\ addr + len <= e.start + e.len /\ addr \in Nat
      <3> HIDE DEF fitting
      <3>1. fitting = Fitting(space.free, offset, len)
        BY DEF fitting
      <3> QED BY <2>1, <2>2, <3>1, FittingExtent
    <2>5. e \in Extents /\ e.start \in Nat /\ e.len \in Nat
      BY <2>1, <2>4 DEF Extents
    <2> HIDE DEF e, addr, fitting
    <2>6. FirstOf(space.free) = e /\ space.free = {e}
      <3>1. space.free = {e}
        BY <1>3, <2>4 DEF OneExtent
      <3>2. FirstOf(space.free) \in space.free
        BY <2>1, <2>4, FirstOfIsFirst
      <3> QED BY <3>1, <3>2
    <2>7. MetadataSize(space) = e.start /\ Room(space)
      BY <1>3, <2>4, <2>6 DEF MetadataSize, Room
    <2>8. addr = e.start
      BY <2>7 DEF addr
    <2>9. grant.addr = e.start /\ grant.space.free = Rest(e, e.start, len)
      <3>1. space.free \ {e} = {} /\ DOMAIN space = {"readOnly", "first", "used", "free"}
        BY <1>1, <2>6 DEF Spaces
      <3>2. PICK used : grant = Grant(space, e.start,
              [space EXCEPT !.free = (@ \ {e}) \cup Rest(e, e.start, len), !.used = used])
        BY <2>3, <2>8 DEF Take
      <3>3. /\ grant.addr = e.start
            /\ grant.space = [space EXCEPT !.free = (@ \ {e}) \cup Rest(e, e.start, len),
                                           !.used = used]
        BY <3>2 DEF Grant
      <3>4. grant.space.free = (space.free \ {e}) \cup Rest(e, e.start, len)
        BY ONLY <3>1, <3>3
      <3> QED BY ONLY <3>1, <3>3, <3>4
    <2>10. ~grant.space.readOnly
      BY <1>3, <2>3, <2>4, TakeGood
    <2>11. \A r \in Rest(e, e.start, len) : r = Extent(e.start + len, e.len - len)
      <3>1. e.start - e.start = 0 /\ e.start + e.len - (e.start + len) = e.len - len
        BY <2>5
      <3> QED BY <3>1 DEF Rest, NonEmpty, Extent
    <2>12. OneExtent(grant.space)
      BY <2>9, <2>11 DEF OneExtent
    <2>13. ASSUME Room(grant.space)
           PROVE  MetadataSize(grant.space) = e.start + len
      <3>1. grant.space.free \in SUBSET Extents /\ grant.space.free # {}
        BY <2>1, <2>10, <2>13 DEF Room, Spaces
      <3>2. FirstOf(grant.space.free) \in grant.space.free
        BY <3>1, FirstOfIsFirst
      <3>3. FirstOf(grant.space.free).start = e.start + len
        BY <2>9, <2>11, <3>2 DEF Extent
      <3> QED BY <2>10, <3>3 DEF MetadataSize
    <2> QED BY <2>7, <2>9, <2>12, <2>13
  <1> QED BY <1>2, <1>3

\* What is refused changes nothing.
LEMMA RefusedSame ==
  ASSUME NEW space, GoodSpace(space), NEW offset \in Nat, NEW len \in Nat,
         NEW grant, grant = AllocateSpace(space, offset, len), grant.addr = Refused
  PROVE  grant.space = space
  <1>1. grant.addr \notin Nat
    BY DEF Refused
  <1>2. space.readOnly => space.first \in Nat
    BY DEF GoodSpace, Spaces
  <1>3. CASE space.readOnly
    <2>1. grant.addr # space.first
      BY <1>1, <1>2, <1>3
    <2> QED BY <1>3, <2>1 DEF AllocateSpace, GetFreeTail, Grant, Refusal
  <1>4. CASE ~space.readOnly
    BY <1>1, <1>4, AllocateCases
  <1> QED BY <1>3, <1>4

--------------------------------------------------------------------------------
(* Areas.                                                                  *)

\* A space keeps what it has given out.
Keeps(space, after) == \A b \in Nat : Taken(space, b) => Taken(after, b)

LEMMA ApartShrinks ==
  ASSUME NEW areas, NEW fixed, NEW meta, NEW space, NEW after, NEW fewer,
         Apart(areas, fixed, meta, space), Keeps(space, after), fewer \subseteq areas
  PROVE  Apart(fewer, fixed, meta, after)
  BY Zenon DEF Apart, Keeps

\* Blocks newly given out may become an area, or go to the fixed areas or to
\* the metadata.
LEMMA ApartGrows ==
  ASSUME NEW areas, NEW fixed, NEW meta, NEW space, NEW after, NEW given,
         Apart(areas, fixed, meta, space), Keeps(space, after),
         \A b \in given : b \in Nat /\ ~Taken(space, b) /\ Taken(after, b)
  PROVE  /\ Apart(areas \cup {given}, fixed, meta, after)
         /\ Apart(areas, fixed \cup given, meta, after)
         /\ Apart(areas, fixed, meta \cup given, after)
  <1>1. /\ \A a \in areas : \A b \in a : b \in Nat /\ Taken(space, b)
        /\ \A b \in fixed : b \in Nat /\ Taken(space, b)
        /\ \A b \in meta : b \in Nat /\ Taken(space, b)
    BY Zenon DEF Apart
  <1>2. /\ \A a \in areas : a \cap given = {}
        /\ fixed \cap given = {} /\ meta \cap given = {}
    BY <1>1
  <1>3. /\ \A a \in areas : \A b \in a : b \in Nat /\ Taken(after, b)
        /\ \A b \in fixed \cup meta \cup given : b \in Nat /\ Taken(after, b)
    BY <1>1 DEF Keeps
  <1>4. /\ \A a, b \in areas : a # b => a \cap b = {}
        /\ \A a \in areas : a \cap fixed = {} /\ a \cap meta = {}
        /\ fixed \cap meta = {}
    BY Zenon DEF Apart
  <1>5. Apart(areas \cup {given}, fixed, meta, after)
    <2>1. \A a, b \in areas \cup {given} : a # b => a \cap b = {}
      BY <1>2, <1>4
    <2>2. \A a \in areas \cup {given} : a \cap fixed = {} /\ a \cap meta = {}
      BY <1>2, <1>4
    <2>3. \A a \in (areas \cup {given}) \cup {fixed, meta} :
            \A b \in a : b \in Nat /\ Taken(after, b)
      BY <1>3
    <2> QED BY <1>4, <2>1, <2>2, <2>3 DEF Apart
  <1>6. Apart(areas, fixed \cup given, meta, after)
    <2>1. \A a \in areas : a \cap (fixed \cup given) = {} /\ a \cap meta = {}
      BY <1>2, <1>4
    <2>2. (fixed \cup given) \cap meta = {}
      BY <1>2, <1>4
    <2>3. \A a \in areas \cup {fixed \cup given, meta} : \A b \in a : b \in Nat /\ Taken(after, b)
      BY <1>3
    <2> QED BY <1>4, <2>1, <2>2, <2>3 DEF Apart
  <1>7. Apart(areas, fixed, meta \cup given, after)
    <2>1. \A a \in areas : a \cap fixed = {} /\ a \cap (meta \cup given) = {}
      BY <1>2, <1>4
    <2>2. fixed \cap (meta \cup given) = {}
      BY <1>2, <1>4
    <2>3. \A a \in areas \cup {fixed, meta \cup given} : \A b \in a : b \in Nat /\ Taken(after, b)
      BY <1>3
    <2> QED BY <1>4, <2>1, <2>2, <2>3 DEF Apart
  <1> QED BY <1>5, <1>6, <1>7

\* What a request is answered with.
LEMMA GivenBlocks ==
  ASSUME NEW space, GoodSpace(space), NEW offset \in Nat, NEW len \in Nat,
         NEW grant, grant = AllocateSpace(space, offset, len)
  PROVE  /\ Keeps(space, grant.space)
         /\ grant.addr # Refused =>
              /\ grant.addr \in Nat
              /\ \A b \in ForkBlocks(Fork(grant.addr, len)) :
                   b \in Nat /\ ~Taken(space, b) /\ Taken(grant.space, b)
  <1>1. Keeps(space, grant.space)
    BY GivenOnce DEF Keeps
  <1>2. ASSUME grant.addr # Refused
        PROVE  /\ grant.addr \in Nat
               /\ ForkBlocks(Fork(grant.addr, len)) = BlocksGranted(grant, len)
               /\ \A b \in BlocksGranted(grant, len) : b \in Nat
    <2>1. grant.addr \in Nat
      BY <1>2, GivenOnce DEF Granted
    <2> QED BY <2>1 DEF ForkBlocks, Fork, BlocksGranted, BlocksOf, Extent
  <1> QED BY <1>1, <1>2, GivenOnce DEF Granted

--------------------------------------------------------------------------------
(* The forks the catalog knows.                                            *)

CatalogNames == {"names", "objects", "links", "last"}

\* A catalog whose objects are those of another, with the same forks, or new
\* ones without data.
Kept(c, d) ==
  \A o \in DOMAIN d.objects :
    \/ /\ o \in DOMAIN c.objects /\ d.objects[o].fork = c.objects[o].fork
       /\ BodyLike(c.objects[o]) => BodyLike(d.objects[o])
    \/ BodyLike(d.objects[o]) /\ d.objects[o].fork.begin = 0

LEMMA KeptForks ==
  ASSUME NEW c, NEW d, ObjectsLike(c), Kept(c, d)
  PROVE  ObjectsLike(d) /\ Forked(d) \subseteq Forked(c)
  <1>1. ObjectsLike(d)
    BY DEF Kept, ObjectsLike
  <1>2. ASSUME NEW o \in DOMAIN d.objects, d.objects[o].fork.begin # 0
        PROVE  ForkBlocks(d.objects[o].fork) \in Forked(c)
    <2>1. o \in DOMAIN c.objects /\ d.objects[o].fork = c.objects[o].fork
      BY <1>2 DEF Kept
    <2> QED BY <1>2, <2>1 DEF Forked
  <1> QED BY <1>1, <1>2 DEF Forked

\* A new record has no data.
LEMMA NewBody ==
  \A type, cells : BodyLike(Body(type, cells)) /\ Body(type, cells).fork.begin = 0
  BY DEF BodyLike, Body, Fork

\* New objects without data.
LEMMA AddedKept ==
  ASSUME NEW c, NEW d, NEW new, d.objects = Entered(new, c.objects),
         \A o \in DOMAIN new : BodyLike(new[o]) /\ new[o].fork.begin = 0
  PROVE  Kept(c, d)
  BY DEF Kept, Entered

\* A name of the source directory is entered: no object has data yet.
LEMMA InsertKept ==
  ASSUME NEW c, DOMAIN c = CatalogNames, NEW e
  PROVE  Kept(c, InsertRecord(c, e))
  <1>1. ASSUME NEW obj
        PROVE  Kept(c, EnterOwn(c, e, obj))
    <2> DEFINE new == [o \in {obj} |-> Body(BodyType(e), e.cells)]
    <2>1. EnterOwn(c, e, obj).objects = Entered(new, c.objects)
      BY DEF EnterOwn, CatalogNames
    <2>2. \A o \in DOMAIN new : BodyLike(new[o]) /\ new[o].fork.begin = 0
      BY NewBody
    <2> HIDE DEF new
    <2> QED BY <2>1, <2>2, AddedKept
  <1>2. ASSUME NEW obj
        PROVE  Kept(c, EnterFirstLink(c, e, obj))
    <2>1. EnterFirstLink(c, e, obj).objects = c.objects
      BY DEF EnterFirstLink, CatalogNames
    <2> QED BY <2>1 DEF Kept
  <1>3. Kept(c, EnterLink(c, e))
    <2>1. EnterLink(c, e).objects = c.objects
      BY DEF EnterLink, CatalogNames
    <2> QED BY <2>1 DEF Kept
  <1> QED BY <1>1, <1>2, <1>3 DEF InsertRecord

\* The objects with several names are entered, without data.
LEMMA SharedKept ==
  ASSUME NEW c, DOMAIN c = CatalogNames
  PROVE  Kept(c, SharedBodies(c))
  <1> DEFINE objects == {l.obj : l \in Range(c.links)}
             new == [o \in objects |->
                       Body(BodyType(EntryOf((CHOOSE l \in Range(c.links) : l.obj = o).path)),
                            EntryOf((CHOOSE l \in Range(c.links) : l.obj = o).path).cells)]
  <1>1. SharedBodies(c).objects = Entered(new, c.objects)
    BY DEF SharedBodies, CatalogNames
  <1>2. \A o \in DOMAIN new : BodyLike(new[o]) /\ new[o].fork.begin = 0
    BY NewBody
  <1> HIDE DEF new
  <1> QED BY <1>1, <1>2, AddedKept

\* Flags tell nothing of data.
LEMMA FlagsKept ==
  ASSUME NEW c, DOMAIN c = CatalogNames, ObjectsLike(c), NEW obj, NEW flags
  PROVE  Kept(c, AddFlags(c, obj, flags)) /\ DOMAIN AddFlags(c, obj, flags) = CatalogNames
  <1>1. AddFlags(c, obj, flags).objects = [c.objects EXCEPT ![obj].flags = @ \cup flags]
    BY DEF AddFlags, CatalogNames
  <1>2. DOMAIN AddFlags(c, obj, flags) = CatalogNames
    BY DEF AddFlags
  <1> QED BY <1>1, <1>2 DEF Kept, ObjectsLike, BodyLike

\* The record of a container is entered, without data.
LEMMA BoxKept ==
  ASSUME NEW c, DOMAIN c = CatalogNames
  PROVE  Kept(c, BoxRecord(c)) /\ DOMAIN BoxRecord(c) = CatalogNames
  <1> DEFINE new == [o \in {Box.ino} |-> Body("file", Len(Box.cells))]
  <1>1. BoxRecord(c).objects = Entered(new, c.objects)
    BY DEF BoxRecord, CatalogNames
  <1>2. DOMAIN BoxRecord(c) = CatalogNames
    BY DEF BoxRecord
  <1>3. \A o \in DOMAIN new : BodyLike(new[o]) /\ new[o].fork.begin = 0
    BY NewBody
  <1> HIDE DEF new
  <1> QED BY <1>1, <1>2, <1>3, AddedKept

\* A small file goes into a container: its record says where, its fork stays.
LEMMA PackKept ==
  ASSUME DOMAIN catalog = CatalogNames, ObjectsLike(catalog),
         NEW class, NEW e, NEW obj, CopyToBox(class, e, obj)
  PROVE  Kept(catalog, catalog')
  <1>1. PICK box, at : PackInto(class, box, at, e, obj)
    BY DEF CopyToBox
  <1> DEFINE body == catalog.objects[obj]
             packed == [body EXCEPT !.box = box.ino, !.at = at,
                                    !.flags = IF class = "plain" THEN @ ELSE {}]
  <1>2. catalog'.objects = [catalog.objects EXCEPT ![obj] = packed]
    BY <1>1 DEF PackInto, CatalogNames
  <1>3. obj \in DOMAIN catalog.objects => packed.fork = body.fork /\ BodyLike(packed)
    BY DEF ObjectsLike, BodyLike
  <1> HIDE DEF packed
  <1> QED BY <1>2, <1>3 DEF Kept

\* An object is told where its data is.
LEMMA SetForkForks ==
  ASSUME NEW c, DOMAIN c = CatalogNames, ObjectsLike(c), NEW obj, NEW fork
  PROVE  /\ ObjectsLike(SetFork(c, obj, fork))
         /\ Forked(SetFork(c, obj, fork)) \subseteq Forked(c) \cup {ForkBlocks(fork)}
  <1> DEFINE d == SetFork(c, obj, fork)
  <1>1. d.objects = [c.objects EXCEPT ![obj].fork = fork]
    BY DEF SetFork, CatalogNames
  <1>2. \A o \in DOMAIN d.objects :
          /\ o \in DOMAIN c.objects /\ BodyLike(d.objects[o])
          /\ d.objects[o].fork \in {c.objects[o].fork, fork}
    BY <1>1 DEF ObjectsLike, BodyLike
  <1> HIDE DEF d
  <1>3. ObjectsLike(d)
    BY <1>2 DEF ObjectsLike
  <1>4. Forked(d) \subseteq Forked(c) \cup {ForkBlocks(fork)}
    BY <1>2 DEF Forked
  <1> QED BY <1>3, <1>4 DEF d

--------------------------------------------------------------------------------
(* Steps.                                                                  *)

\* What may be known of the areas after a step.
LEMMA AreasWithin ==
  ASSUME NEW S, Forked(catalog)' \subseteq S,
         \A f \in Threads : files'[f].pc = "mark" => ForkBlocks(files'[f].fork) \in S,
         \A i \in DOMAIN disk'.ranges : ForkBlocks(disk'.ranges[i]) \in S
  PROVE  Areas' \subseteq S
  BY DEF Areas, Marked, Ranged

\* No thread comes to have a fork it did not have.
FilesKept ==
  \A f \in Threads :
    files'[f].pc = "mark" => files[f].pc = "mark" /\ files'[f].fork = files[f].fork

\* Nobody is told of what was not known.
LEMMA NothingTold ==
  ASSUME ObjectsLike(catalog), Kept(catalog, catalog'), FilesKept, disk'.ranges = disk.ranges
  PROVE  ObjectsLike(catalog)' /\ Areas' \subseteq Areas
  <1>1. ObjectsLike(catalog)' /\ Forked(catalog)' \subseteq Areas
    BY KeptForks DEF Areas
  <1>2. \A f \in Threads : files'[f].pc = "mark" => ForkBlocks(files'[f].fork) \in Areas
    BY DEF FilesKept, Areas, Marked
  <1>3. \A i \in DOMAIN disk'.ranges : ForkBlocks(disk'.ranges[i]) \in Areas
    BY DEF Areas, Ranged
  <1> HIDE DEF Areas
  <1> QED BY <1>1, <1>2, <1>3, AreasWithin

\* Nothing is given out.
LEMMA AreasStay ==
  ASSUME AreasInv, ObjectsLike(catalog)', Areas' \subseteq Areas, IsSeq(disk'.ranges), FrontOk',
         disk'.space = disk.space, disk'.fixed = disk.fixed, disk'.meta = disk.meta
  PROVE  AreasInv'
  <1>1. MetaArea' = MetaArea /\ Keeps(disk.space, disk'.space)
    BY DEF MetaArea, Keeps
  <1>2. Apart(Areas', disk'.fixed, MetaArea', disk'.space)
    BY <1>1, ApartShrinks DEF AreasInv
  <1> QED BY <1>2 DEF AreasInv

LEMMA QuietAreas ==
  ASSUME AreasInv, Kept(catalog, catalog'), FilesKept, FrontOk', disk'.ranges = disk.ranges,
         disk'.space = disk.space, disk'.fixed = disk.fixed, disk'.meta = disk.meta
  PROVE  AreasInv'
  <1>1. ObjectsLike(catalog)' /\ Areas' \subseteq Areas /\ IsSeq(disk'.ranges)
    BY NothingTold DEF AreasInv
  <1> QED BY <1>1, AreasStay

\* What a request is given is a new area, or goes to the fixed areas or to the
\* metadata.
LEMMA AreasGiven ==
  ASSUME ImageInv, AreasInv, NEW offset \in Nat, NEW len \in Nat,
         NEW grant, grant = AllocateSpace(disk.space, offset, len), grant.addr # Refused,
         NEW given, given = ForkBlocks(Fork(grant.addr, len)),
         disk'.space = grant.space, ObjectsLike(catalog)', IsSeq(disk'.ranges), FrontOk',
         \/ /\ Areas' \subseteq Areas \cup {given}
            /\ disk'.fixed = disk.fixed /\ disk'.meta = disk.meta
         \/ /\ Areas' \subseteq Areas
            /\ disk'.fixed = disk.fixed \cup given /\ disk'.meta = disk.meta
         \/ /\ Areas' \subseteq Areas
            /\ disk'.fixed = disk.fixed /\ MetaArea' = MetaArea \cup given
  PROVE  AreasInv'
  <1>1. GoodSpace(disk.space)
    BY DEF ImageInv, DiskLike
  <1>2. /\ Keeps(disk.space, disk'.space)
        /\ \A b \in given : b \in Nat /\ ~Taken(disk.space, b) /\ Taken(disk'.space, b)
    BY <1>1, GivenBlocks
  <1>3. Apart(Areas, disk.fixed, MetaArea, disk.space)
    BY DEF AreasInv
  <1>4. /\ Apart(Areas \cup {given}, disk.fixed, MetaArea, disk'.space)
        /\ Apart(Areas, disk.fixed \cup given, MetaArea, disk'.space)
        /\ Apart(Areas, disk.fixed, MetaArea \cup given, disk'.space)
    BY <1>2, <1>3, ApartGrows
  <1>5. disk'.meta = disk.meta => MetaArea' = MetaArea
    BY DEF MetaArea
  <1>6. Keeps(disk'.space, disk'.space)
    BY DEF Keeps
  <1>7. Apart(Areas', disk'.fixed, MetaArea', disk'.space)
    <2>1. CASE /\ Areas' \subseteq Areas \cup {given}
               /\ disk'.fixed = disk.fixed /\ disk'.meta = disk.meta
      BY <1>4, <1>5, <1>6, <2>1, ApartShrinks
    <2>2. CASE /\ Areas' \subseteq Areas
               /\ disk'.fixed = disk.fixed \cup given /\ disk'.meta = disk.meta
      BY <1>4, <1>5, <1>6, <2>2, ApartShrinks
    <2>3. CASE /\ Areas' \subseteq Areas
               /\ disk'.fixed = disk.fixed /\ MetaArea' = MetaArea \cup given
      BY <1>4, <1>6, <2>3, ApartShrinks
    <2> QED BY <2>1, <2>2, <2>3
  <1> QED BY <1>7 DEF AreasInv

\* A thread is given a job: none gets a fork.
LEMMA DispatchKept ==
  ASSUME ImageInv, NEW job, Dispatch(job)
  PROVE  FilesKept
  <1>1. PICK f : files' = [files EXCEPT ![f].has = TRUE, ![f].job = job]
    BY DEF Dispatch
  <1>2. DOMAIN files = Threads
        /\ \A g \in Threads : DOMAIN files[g] = FileNames
    BY DEF ImageInv, FilesOk, FileLike, FileNames
  <1>3. ASSUME NEW g \in Threads
        PROVE  files'[g].pc = files[g].pc /\ files'[g].fork = files[g].fork
    <2>1. CASE g = f
      BY <1>1, <1>2, <2>1 DEF FileNames
    <2>2. CASE g # f
      BY <1>1, <1>2, <2>2
    <2> QED BY <2>1, <2>2
  <1> QED BY <1>3 DEF FilesKept

\* What stays is kept.
LEMMA NothingNew ==
  /\ UNCHANGED catalog => Kept(catalog, catalog')
  /\ UNCHANGED files => FilesKept
  BY DEF Kept, FilesKept

\* Main stays where it is, or goes where nothing is asked of the space.
LEMMA FrontStays ==
  ASSUME FrontOk, disk'.space = disk.space, disk'.meta = disk.meta,
         \/ /\ main'.at = main.at
            /\ main.at = "fixed" => main'.i = main.i
            /\ main.at \in {"data", "hlinks"} => main'.offset = main.offset
         \/ main'.at \notin Early \cup Filling \cup {"place"}
  PROVE  FrontOk'
  BY DEF FrontOk, MetaEnd, Early, Filling

\* Before the fixed areas only the catalog changes.
LEMMA EarlyAreas ==
  ASSUME ImageInv, AreasInv,
         ReadList \/ InsertMetadata \/ InsertHlinksMetadata \/ FixedAreasDone
  PROVE  AreasInv'
  <1>1. UNCHANGED <<disk, files>>
    BY DEF ReadList, InsertMetadata, InsertHlinksMetadata, FixedAreasDone, pools
  <1>2. Kept(catalog, catalog')
    <2>1. DOMAIN catalog = CatalogNames
      BY DEF ImageInv, LinksOk, CatalogNames
    <2> QED BY <2>1, InsertKept, SharedKept, NothingNew
            DEF ReadList, InsertMetadata, InsertHlinksMetadata, FixedAreasDone
  <1>3. FrontOk /\ MainOk
    BY DEF AreasInv, ImageInv
  <1>4. FrontOk'
    <2>1. CASE ReadList \/ InsertMetadata
      <3>1. \/ main'.at = main.at /\ main.at = "metadata"
            \/ main'.at = "failed"
            \/ main.at = "list" /\ main'.at = "metadata"
        BY <2>1, Moved DEF ReadList, InsertMetadata, At
      <3> QED BY <1>1, <1>3, <3>1 DEF FrontOk, MetaEnd, Early, Filling
    <2>2. CASE InsertHlinksMetadata
      <3>1. main.at = "metadata" /\ main'.at = "fixed" /\ main'.i = 1
        BY <2>2, Moved DEF InsertHlinksMetadata, Past
      <3> QED BY <1>1, <1>3, <3>1 DEF FrontOk, MetaEnd, Early, Filling
    <2>3. CASE FixedAreasDone
      <3>1. main.at = "fixed" /\ main'.at = "tune" /\ main.i > 4
        BY <2>3, Moved DEF FixedAreasDone, Past, FixedAreas
      <3> QED BY <1>1, <1>3, <3>1 DEF FrontOk, MetaEnd, Early, Filling, MainOk
    <2> QED BY <2>1, <2>2, <2>3
  <1> QED BY <1>1, <1>2, <1>4, NothingNew, QuietAreas

\* Main hands out jobs and waits: nothing is given out.
LEMMA TuneAreas ==
  ASSUME ImageInv, AreasInv,
         TuneFile \/ TuneFolder \/ CompressDirEntry \/ CompressDirDone \/ TuneDone
  PROVE  AreasInv'
  <1>1. UNCHANGED <<disk, catalog>>
    BY DEF TuneFile, TuneFolder, CompressDirEntry, CompressDirDone, TuneDone
  <1>2. FilesKept
    BY DispatchKept, NothingNew
    DEF TuneFile, TuneFolder, CompressDirEntry, CompressDirDone, TuneDone, pools
  <1>3. FrontOk /\ MainOk
    BY DEF AreasInv, ImageInv
  <1>4. FrontOk'
    <2>1. CASE TuneFile \/ TuneFolder \/ CompressDirEntry \/ CompressDirDone
      <3>1. main.at \in {"tune", "folder"} /\ main'.at \in {"tune", "folder", "exit", "undefined"}
        BY <1>3, <2>1, Moved DEF MainOk, TuneFile, TuneFolder, CompressDirEntry, CompressDirDone, At
      <3> QED BY <1>1, <1>3, <3>1 DEF FrontOk, MetaEnd, Early, Filling
    <2>2. CASE TuneDone
      <3>1. main.at = "tune"
        BY <2>2 DEF TuneDone, Past
      <3>2. \/ main'.at \in {"exit", "undefined"}
            \/ main'.at = "data" /\ main'.offset = MetadataSize(disk.space)
        BY <1>3, <2>2, Moved DEF MainOk, TuneDone
      <3> QED BY <1>1, <1>3, <3>1, <3>2 DEF FrontOk, MetaEnd, Early, Filling
    <2> QED BY <2>1, <2>2
  <1> QED BY <1>1, <1>2, <1>4, NothingNew, QuietAreas

\* Main goes on from one phase to the next: nothing is given out.
LEMMA OnwardAreas ==
  ASSUME ImageInv, AreasInv,
         InsertDataDone \/ InsertHlinksDone \/ SkipBox \/ SendBox \/ BoxSent \/ BoxesDone
  PROVE  AreasInv'
  <1>1. UNCHANGED disk
    BY DEF InsertDataDone, InsertHlinksDone, SkipBox, SendBox, BoxSent, BoxesDone
  <1>2. FilesKept
    BY DispatchKept, NothingNew
    DEF InsertDataDone, InsertHlinksDone, SkipBox, SendBox, BoxSent, BoxesDone, pools
  <1>3. Kept(catalog, catalog')
    <2>1. DOMAIN catalog = CatalogNames
      BY DEF ImageInv, LinksOk, CatalogNames
    <2> QED BY <2>1, BoxKept, NothingNew
            DEF InsertDataDone, InsertHlinksDone, SkipBox, SendBox, BoxSent, BoxesDone
  <1>4. FrontOk /\ MainOk
    BY DEF AreasInv, ImageInv
  <1>5. FrontOk'
    <2>1. CASE InsertDataDone
      <3>1. main.at = "data" /\ main'.at = "hlinks" /\ main'.offset = main.offset
        BY <2>1, Moved DEF InsertDataDone, Past
      <3> QED BY <1>1, <1>4, <3>1 DEF FrontOk, MetaEnd, Early, Filling
    <2>2. CASE InsertHlinksDone \/ SkipBox \/ SendBox \/ BoxSent
      <3>1. main.at \in {"hlinks", "boxes", "box"} /\ main'.at \in {"boxes", "box"}
        BY <1>4, <2>2, Moved DEF MainOk, InsertHlinksDone, SkipBox, SendBox, BoxSent, At, Past
      <3> QED BY <1>1, <1>4, <3>1 DEF FrontOk, MetaEnd, Early, Filling
    <2>3. CASE BoxesDone
      <3>1. main.at = "boxes" /\ main'.at \in {"place", "exit"}
        BY <2>3, Moved DEF BoxesDone, Past
      <3> QED BY <1>1, <1>4, <3>1 DEF FrontOk, MetaEnd, Early, Filling
    <2> QED BY <2>1, <2>2, <2>3
  <1> QED BY <1>1, <1>2, <1>3, <1>5, QuietAreas

\* Only the blocks change.
SameBut(c, d) ==
  /\ DOMAIN d = DOMAIN c /\ d.space = c.space /\ d.ranges = c.ranges
  /\ d.fixed = c.fixed /\ d.meta = c.meta

\* Writing the metadata changes blocks alone.
LEMMA FlushSame ==
  ASSUME NEW d, DOMAIN d = {"space", "blocks", "ranges", "fixed", "tables", "meta", "table"}
  PROVE  SameBut(d, FlushSuperblocks(FlushSnapshot(FlushTrees(d))))
  <1>1. ASSUME NEW c, DOMAIN c = DOMAIN d
        PROVE  /\ SameBut(c, FlushTrees(c)) /\ SameBut(c, FlushSnapshot(c))
               /\ SameBut(c, FlushSuperblocks(c))
    <2>1. ASSUME NEW blocks
          PROVE  SameBut(c, [c EXCEPT !.blocks = blocks])
      BY <1>1 DEF SameBut
    <2> QED BY <2>1 DEF FlushTrees, FlushSnapshot, FlushSuperblocks
  <1>2. SameBut(d, FlushTrees(d))
    BY <1>1
  <1>3. SameBut(d, FlushSnapshot(FlushTrees(d)))
    BY <1>1, <1>2 DEF SameBut
  <1> QED BY <1>1, <1>3 DEF SameBut

\* At the end nothing is given out any more.
LEMMA EndAreas ==
  ASSUME ImageInv, AreasInv, Flush \/ StopThread \/ EndMkfs \/ CopyFails
  PROVE  AreasInv'
  <1>1. UNCHANGED <<catalog, files>>
    BY DEF Flush, StopThread, EndMkfs, CopyFails, pools
  <1>2. /\ disk'.space = disk.space /\ disk'.ranges = disk.ranges
        /\ disk'.fixed = disk.fixed /\ disk'.meta = disk.meta
    <2>1. DOMAIN disk = {"space", "blocks", "ranges", "fixed", "tables", "meta", "table"}
      BY DEF ImageInv, DiskLike
    <2> QED BY <2>1, FlushSame DEF Flush, StopThread, EndMkfs, CopyFails, SameBut
  <1>3. main'.at \notin Early \cup Filling \cup {"place"}
    <2>1. main'.at \in {"exit", "stuck", "failed", "done"}
      <3>1. CASE Flush \/ CopyFails
        BY <3>1, Moved DEF Flush, CopyFails
      <3>2. CASE StopThread
        BY <3>2, Moved DEF StopThread, At
      <3>3. CASE EndMkfs
        BY <3>3, Moved DEF EndMkfs
      <3> QED BY <3>1, <3>2, <3>3
    <2> QED BY <2>1 DEF Early, Filling
  <1>4. FrontOk'
    BY <1>2, <1>3, FrontStays DEF AreasInv
  <1> QED BY <1>1, <1>2, <1>4, NothingNew, QuietAreas

\* A fixed area is given what was nobody's.
LEMMA FixedAreasKept ==
  ASSUME ImageInv, AreasInv, AllocateFixedArea
  PROVE  AreasInv'
  <1> DEFINE offset == FixedAreas[main.i]
             grant == AllocateSpace(disk.space, offset, 1)
             given == ForkBlocks(Fork(grant.addr, 1))
  <1>1. /\ main.at = "fixed" /\ main.i \in 1 .. 4
        /\ UNCHANGED <<catalog, files>>
    BY DEF AllocateFixedArea, At, FixedAreas, pools, ImageInv, MainOk
  <1>2. offset \in Nat /\ (offset = AnyAddress \/ offset = main.i - 1)
    BY <1>1 DEF FixedAreas, AnyAddress
  <1>3. GoodSpace(disk.space) /\ FrontOk
    BY DEF ImageInv, DiskLike, AreasInv
  <1>4. CASE grant.addr = Refused
    <2>1. main'.at = "exit" /\ UNCHANGED disk
      BY <1>4, Moved DEF AllocateFixedArea
    <2>2. FrontOk'
      BY <1>3, <2>1, FrontStays DEF Early, Filling
    <2> QED BY <1>1, <2>1, <2>2, NothingNew, QuietAreas
  <1>5. CASE grant.addr # Refused
    <2>1. /\ Advance
          /\ disk' = [disk EXCEPT !.space = grant.space, !.fixed = @ \cup {grant.addr},
                                  !.tables = grant.addr]
      BY <1>5 DEF AllocateFixedArea
    <2>2. /\ disk'.space = grant.space /\ disk'.fixed = disk.fixed \cup {grant.addr}
          /\ disk'.ranges = disk.ranges /\ disk'.meta = disk.meta
      BY <2>1 DEF ImageInv, DiskLike
    <2>3. main'.at = "fixed" /\ main'.i = main.i + 1
      BY <1>1, <2>1, Moved
    <2>4. Room(disk.space) => offset \in {AnyAddress, MetadataSize(disk.space)}
      BY <1>1, <1>2, <1>3 DEF FrontOk
    <2>5. grant.addr \in Nat
      BY <1>2, <1>3, <1>5, GrantedAddress
    <2> HIDE DEF grant, offset
    <2>6. grant = AllocateSpace(disk.space, offset, 1)
      BY DEF grant
    <2>7. /\ Room(disk.space) /\ grant.addr = MetadataSize(disk.space) /\ OneExtent(grant.space)
          /\ Room(grant.space) => MetadataSize(grant.space) = MetadataSize(disk.space) + 1
      BY <1>2, <1>3, <1>5, <2>4, <2>6, FrontGrants DEF FrontOk
    <2>8. FrontOk'
      BY <1>1, <1>3, <2>2, <2>3, <2>5, <2>7 DEF FrontOk, Early, Filling
    <2>9. given = {grant.addr}
      BY <2>5 DEF ForkBlocks, Fork
    <2>10. ObjectsLike(catalog)' /\ Areas' \subseteq Areas /\ IsSeq(disk'.ranges)
      BY <1>1, <2>2, NothingNew, NothingTold DEF AreasInv
    <2> HIDE DEF given
    <2> QED BY <1>2, <1>5, <2>2, <2>6, <2>8, <2>9, <2>10, AreasGiven DEF given
  <1> QED BY <1>4, <1>5

\* A range is put in front of the known ones.
LEMMA RangeAdded ==
  ASSUME NEW d, IsSeq(d.ranges), NEW fork, "ranges" \in DOMAIN d,
         NEW e, e = AddRange(d, fork)
  PROVE  /\ IsSeq(e.ranges)
         /\ \A i \in DOMAIN e.ranges :
              e.ranges[i] = fork \/ \E j \in DOMAIN d.ranges : e.ranges[i] = d.ranges[j]
  <1>1. CASE ~plan.readOnly
    BY <1>1 DEF AddRange
  <1>2. CASE plan.readOnly
    <2>1. e.ranges = <<fork>> \o d.ranges
      BY <1>2 DEF AddRange
    <2>2. PICK S : d.ranges \in Seq(S)
      BY DEF IsSeq
    <2>3. <<fork>> \in Seq(S \cup {fork}) /\ d.ranges \in Seq(S \cup {fork})
      BY <2>2
    <2>4. <<fork>> \o d.ranges \in Seq(S \cup {fork})
      BY <2>3
    <2>5. \A i \in DOMAIN e.ranges :
            e.ranges[i] = fork \/ \E j \in DOMAIN d.ranges : e.ranges[i] = d.ranges[j]
      <3>1. ASSUME NEW i \in DOMAIN e.ranges, i # 1
            PROVE  i - 1 \in DOMAIN d.ranges /\ e.ranges[i] = d.ranges[i - 1]
        BY <2>1, <2>2, <3>1
      <3>2. e.ranges[1] = fork
        BY <2>1, <2>2
      <3> QED BY <3>1, <3>2
    <2> QED BY <2>1, <2>4, <2>5 DEF IsSeq
  <1> QED BY <1>1, <1>2

\* Main copies a file to the image.
LEMMA CopyFileAreas ==
  ASSUME ImageInv, AreasInv, main.at \in {"data", "hlinks"}, UNCHANGED <<plan, files>>,
         NEW obj, NEW cells, IsSeq(cells), CopyFile(obj, cells)
  PROVE  AreasInv'
  <1> DEFINE len == Len(cells)
             grant == AllocateSpace(disk.space, main.offset, len)
             given == ForkBlocks(Fork(grant.addr, len))
  <1>1. GoodSpace(disk.space) /\ FrontOk /\ len \in Nat /\ main.offset \in Nat
    BY SeqLen DEF ImageInv, DiskLike, AreasInv, MainOk
  <1>2. CASE (Advance \/ FailWith) /\ UNCHANGED <<disk, catalog>>
    <2>1. main'.at = "exit" \/ (main'.at = main.at /\ main'.offset = main.offset)
      BY <1>2, Moved
    <2>2. FrontOk'
      BY <1>1, <1>2, <2>1, FrontStays DEF Early, Filling
    <2> QED BY <1>2, <2>2, NothingNew, QuietAreas
  <1>3. CASE grant.addr # Refused /\ Copied(obj, cells, grant)
    <2>1. /\ disk' = AddRange(CopyTo(disk, grant, cells), Fork(grant.addr, len))
          /\ catalog' = SetFork(catalog, obj, Fork(grant.addr, len))
          /\ main' = [main EXCEPT !.i = @ + 1, !.offset = grant.addr + len]
      BY <1>3 DEF Copied
    <2>2. main'.at = main.at /\ main'.offset = grant.addr + len
      BY <2>1 DEF ImageInv, MainOk
    <2>3. grant.addr \in Nat
      BY <1>1, <1>3, GrantedAddress
    <2> DEFINE copied == CopyTo(disk, grant, cells)
    <2>4. /\ copied.space = grant.space /\ copied.fixed = disk.fixed /\ copied.meta = disk.meta
          /\ copied.ranges = disk.ranges /\ DOMAIN copied = DOMAIN disk
          /\ {"ranges", "space", "fixed", "meta"} \subseteq DOMAIN disk
      BY DEF CopyTo, ImageInv, DiskLike
    <2> HIDE DEF copied, grant, len, given
    <2>5. disk'.space = grant.space /\ disk'.fixed = disk.fixed /\ disk'.meta = disk.meta
      BY <2>1, <2>4 DEF AddRange, copied
    <2>6. /\ IsSeq(disk'.ranges)
          /\ \A i \in DOMAIN disk'.ranges :
               disk'.ranges[i] = Fork(grant.addr, len)
                 \/ \E j \in DOMAIN disk.ranges : disk'.ranges[i] = disk.ranges[j]
      BY <2>1, <2>4, RangeAdded DEF copied, AreasInv
    <2>7. ObjectsLike(catalog)' /\ Forked(catalog)' \subseteq Forked(catalog) \cup {given}
      <3>1. DOMAIN catalog = CatalogNames
        BY DEF ImageInv, LinksOk, CatalogNames
      <3> QED BY <2>1, <3>1, SetForkForks DEF AreasInv, given
    <2>8. Areas' \subseteq Areas \cup {given}
      <3>1. Forked(catalog)' \subseteq Areas \cup {given}
        BY <2>7 DEF Areas
      <3>2. \A f \in Threads :
              files'[f].pc = "mark" => ForkBlocks(files'[f].fork) \in Areas \cup {given}
        BY DEF Areas, Marked
      <3>3. \A i \in DOMAIN disk'.ranges : ForkBlocks(disk'.ranges[i]) \in Areas \cup {given}
        BY <2>6 DEF Areas, Ranged, given
      <3> HIDE DEF Areas
      <3> QED BY <3>1, <3>2, <3>3, AreasWithin
    <2>9. grant = AllocateSpace(disk.space, main.offset, len)
      BY DEF grant
    <2>10. Room(disk.space) => main.offset \in {AnyAddress, MetadataSize(disk.space)}
      BY <1>1 DEF FrontOk
    <2>11. /\ Room(disk.space) /\ grant.addr = MetadataSize(disk.space) /\ OneExtent(grant.space)
           /\ Room(grant.space) => MetadataSize(grant.space) = MetadataSize(disk.space) + len
      BY <1>1, <1>3, <2>9, <2>10, FrontGrants DEF FrontOk
    <2>12. FrontOk'
      BY <1>1, <2>2, <2>3, <2>5, <2>11 DEF FrontOk, Early, Filling
    <2> QED BY <1>1, <1>3, <2>5, <2>6, <2>7, <2>8, <2>9, <2>12, AreasGiven DEF given
  <1> QED BY <1>2, <1>3 DEF CopyFile

\* Main copies a file to the image or packs it into a container.
LEMMA DataAreasKept ==
  ASSUME ImageInv, AreasInv, InsertData \/ InsertHlinkData
  PROVE  AreasInv'
  <1>1. MainOk /\ LinksOk /\ plan \in Plans /\ FrontOk /\ DOMAIN catalog = CatalogNames
    BY DEF ImageInv, AreasInv, LinksOk, CatalogNames
  <1>2. UNCHANGED <<plan, files>> /\ main.at \in {"data", "hlinks"}
    BY DEF InsertData, InsertHlinkData, pools, At
  <1>3. ASSUME Advance, UNCHANGED disk, Kept(catalog, catalog')
        PROVE  AreasInv'
    <2>1. main'.at = main.at /\ main'.offset = main.offset
      BY <1>3, Moved
    <2>2. FrontOk'
      BY <1>1, <1>2, <1>3, <2>1, FrontStays
    <2> QED BY <1>2, <1>3, <2>2, NothingNew, QuietAreas
  <1>4. ASSUME NEW e, IsSeq(Content(e)), NEW obj, CopyObject(e, obj)
        PROVE  AreasInv'
    <2>1. CASE CopyToBox(BoxOf(catalog.objects[obj].flags), e, obj) /\ Advance /\ UNCHANGED disk
      BY <1>1, <1>3, <2>1, PackKept DEF AreasInv
    <2>2. CASE Advance /\ UNCHANGED <<disk, catalog, boxes>>
      BY <1>3, <2>2, NothingNew
    <2>3. CASE CopyFile(obj, Content(e))
      BY <1>2, <1>4, <2>3, CopyFileAreas
    <2> QED BY <1>4, <2>1, <2>2, <2>3 DEF CopyObject
  <1>5. CASE InsertData
    <2>1. CASE Advance /\ UNCHANGED <<disk, catalog, boxes>>
      BY <1>3, <2>1, NothingNew
    <2>2. CASE CopyObject(Entry, RecordOf(Entry.path).obj)
      <3>1. plan.entries \in Seq(Range(plan.entries))
        BY <1>1, PlanAssumption
      <3>2. main.i \in DOMAIN plan.entries
        BY <1>1, <1>5, <3>1 DEF InsertData, At, MainOk
      <3>3. IsSeq(Content(Entry))
        BY <1>1, <3>2, EntryIsEntry DEF Entry
      <3> QED BY <1>4, <2>2, <3>3
    <2> QED BY <1>5, <2>1, <2>2 DEF InsertData
  <1>6. CASE InsertHlinkData
    <2>1. main.i \in DOMAIN catalog.links
      BY <1>1, <1>6, SeqLen DEF InsertHlinkData, At, MainOk, LinksOk
    <2>2. IsSeq(Content(EntryOf(catalog.links[main.i].path)))
      BY <1>1, <2>1, KnownPath DEF LinksOk
    <2>3. CopyObject(EntryOf(catalog.links[main.i].path), catalog.links[main.i].obj)
      BY <1>6 DEF InsertHlinkData
    <2> QED BY <1>4, <2>2, <2>3
  <1> QED BY <1>5, <1>6

\* The plain container is an area of its own, which nobody is told of but the
\* catalog.
LEMMA CopyBoxAreas ==
  ASSUME ImageInv, AreasInv, CopyBox
  PROVE  AreasInv'
  <1> DEFINE len == Len(Box.cells)
             grant == AllocateSpace(disk.space, AnyAddress, len)
             given == ForkBlocks(Fork(grant.addr, len))
  <1>1. UNCHANGED files /\ main.at = "boxes"
    BY DEF CopyBox, At, pools
  <1>2. len \in Nat /\ AnyAddress \in Nat
    BY BoxSeq, SeqLen DEF CopyBox, AnyAddress
  <1>3. GoodSpace(disk.space) /\ FrontOk
    BY DEF ImageInv, DiskLike, AreasInv
  <1>4. CASE FailWith /\ UNCHANGED <<disk, catalog>>
    <2>1. main'.at = "exit"
      BY <1>4, Moved
    <2>2. FrontOk'
      BY <1>3, <1>4, <2>1, FrontStays DEF Early, Filling
    <2> QED BY <1>1, <1>4, <2>2, NothingNew, QuietAreas
  <1>5. CASE /\ grant.addr # Refused /\ Advance
             /\ disk' = CopyTo(disk, grant, Box.cells)
             /\ catalog' = SetFork(BoxRecord(catalog), Box.ino, Fork(MetadataSize(disk.space), len))
    <2>1. main'.at = "boxes"
      BY <1>1, <1>5, Moved
    <2>2. /\ disk'.space = grant.space /\ disk'.fixed = disk.fixed /\ disk'.meta = disk.meta
          /\ disk'.ranges = disk.ranges
      BY <1>5 DEF CopyTo, ImageInv, DiskLike
    <2> HIDE DEF len, grant, given
    <2>3. grant = AllocateSpace(disk.space, AnyAddress, len)
      BY DEF grant
    <2>4. /\ Room(disk.space) /\ grant.addr = MetadataSize(disk.space) /\ OneExtent(grant.space)
          /\ Room(grant.space) => MetadataSize(grant.space) = MetadataSize(disk.space) + len
      BY <1>2, <1>3, <1>5, <2>3, FrontGrants DEF FrontOk
    <2>5. grant.addr \in Nat
      BY <1>2, <1>3, <1>5, <2>3, GrantedAddress
    <2>6. FrontOk'
      BY <1>1, <1>2, <1>3, <2>1, <2>2, <2>4, <2>5 DEF FrontOk, Early, Filling
    <2>7. ObjectsLike(catalog)' /\ Forked(catalog)' \subseteq Forked(catalog) \cup {given}
      <3>1. DOMAIN catalog = CatalogNames
        BY DEF ImageInv, LinksOk, CatalogNames
      <3>2. /\ ObjectsLike(BoxRecord(catalog))
            /\ Forked(BoxRecord(catalog)) \subseteq Forked(catalog)
            /\ DOMAIN BoxRecord(catalog) = CatalogNames
        BY <3>1, BoxKept, KeptForks DEF AreasInv
      <3>3. /\ ObjectsLike(catalog')
            /\ Forked(catalog') \subseteq Forked(BoxRecord(catalog)) \cup {given}
        BY <1>5, <2>4, <3>2, SetForkForks DEF given
      <3> QED BY <3>2, <3>3
    <2>8. Areas' \subseteq Areas \cup {given}
      <3>1. Forked(catalog)' \subseteq Areas \cup {given}
        BY <2>7 DEF Areas
      <3>2. \A f \in Threads :
              files'[f].pc = "mark" => ForkBlocks(files'[f].fork) \in Areas \cup {given}
        BY <1>1 DEF Areas, Marked
      <3>3. \A i \in DOMAIN disk'.ranges : ForkBlocks(disk'.ranges[i]) \in Areas \cup {given}
        BY <2>2 DEF Areas, Ranged
      <3> HIDE DEF Areas
      <3> QED BY <3>1, <3>2, <3>3, AreasWithin
    <2>9. IsSeq(disk'.ranges)
      BY <2>2 DEF AreasInv
    <2> QED BY <1>2, <1>5, <2>2, <2>3, <2>6, <2>7, <2>8, <2>9, AreasGiven DEF given
  <1> QED BY <1>4, <1>5 DEF CopyBox

\* The metadata is one extent, which grows by what it is given.
LEMMA MetaGrown ==
  ASSUME ImageInv, AreasInv, main.at = "place",
         NEW len \in Nat, NEW grant, grant = AllocateSpace(disk.space, MetaEnd(disk), len),
         grant.addr # Refused,
         disk'.meta.first = (IF disk.meta.first = 0 THEN grant.addr ELSE disk.meta.first),
         disk'.meta.count = disk.meta.count + len
  PROVE  /\ MetaEnd(disk) \in Nat
         /\ Room(disk.space) => MetaEnd(disk) \in {AnyAddress, MetadataSize(disk.space)}
         /\ grant.addr \in Nat /\ grant.addr > 0
         /\ disk'.meta.first > 0 /\ MetaEnd(disk)' = grant.addr + len
         /\ MetaArea' = MetaArea \cup ForkBlocks(Fork(grant.addr, len))
  <1> DEFINE given == ForkBlocks(Fork(grant.addr, len))
             first == disk.meta.first
             count == disk.meta.count
             next == MetadataSize(disk.space)
  <1>1. GoodSpace(disk.space) /\ FrontOk /\ first \in Nat /\ count \in Nat /\ MetaEnd(disk) \in Nat
    BY DEF ImageInv, DiskLike, AreasInv, MetaEnd
  <1>2. Room(disk.space) => MetaEnd(disk) \in {AnyAddress, next} /\ next > 0
    BY <1>1 DEF FrontOk, MetaEnd, AnyAddress
  <1>3. Room(disk.space) /\ grant.addr = next
    BY <1>1, <1>2, FrontGrants DEF FrontOk
  <1>4. grant.addr \in Nat /\ grant.addr > 0
    BY <1>1, <1>2, <1>3, GrantedAddress
  <1>5. first > 0 => first + count = grant.addr
    BY <1>1, <1>3 DEF FrontOk, MetaEnd
  <1>6. first = 0 => count = 0
    BY <1>1 DEF FrontOk
  <1>7. disk'.meta.first > 0 /\ MetaEnd(disk)' = grant.addr + len
    BY <1>1, <1>4, <1>5, <1>6 DEF MetaEnd
  <1>8. MetaArea' = MetaArea \cup given
    <2>1. MetaArea = first .. first + count - 1
      BY DEF MetaArea
    <2>2. MetaArea' = disk'.meta.first .. disk'.meta.first + disk'.meta.count - 1
      BY DEF MetaArea
    <2>3. given = grant.addr .. grant.addr + len - 1
      BY DEF ForkBlocks, Fork
    <2> HIDE DEF first, count, given
    <2>4. CASE first = 0
      <3>1. MetaArea = {} /\ MetaArea' = grant.addr .. grant.addr + len - 1
        BY <1>4, <1>6, <2>1, <2>2, <2>4 DEF first, count
      <3> QED BY <2>3, <3>1
    <2>5. CASE first > 0
      <3>1. MetaArea' = first .. first + (count + len) - 1
        BY <2>2, <2>5 DEF first, count
      <3> QED BY ONLY <1>1, <1>4, <1>5, <2>1, <2>3, <2>5, <3>1, len \in Nat
    <2> QED BY <1>1, <2>4, <2>5
  <1> HIDE DEF given
  <1> QED BY <1>1, <1>2, <1>4, <1>7, <1>8 DEF given

LEMMA MetaGrows ==
  ASSUME ImageInv, AreasInv, main.at = "place", UNCHANGED <<catalog, files>>,
         main'.at \in {"place", "flush"},
         NEW len \in Nat, NEW grant, grant = AllocateSpace(disk.space, MetaEnd(disk), len),
         grant.addr # Refused, disk'.space = grant.space,
         disk'.fixed = disk.fixed, disk'.ranges = disk.ranges,
         disk'.meta.first = (IF disk.meta.first = 0 THEN grant.addr ELSE disk.meta.first),
         disk'.meta.count = disk.meta.count + len
  PROVE  AreasInv'
  <1>1. GoodSpace(disk.space) /\ FrontOk
    BY DEF ImageInv, DiskLike, AreasInv
  <1>2. /\ MetaEnd(disk) \in Nat
        /\ Room(disk.space) => MetaEnd(disk) \in {AnyAddress, MetadataSize(disk.space)}
        /\ grant.addr \in Nat /\ grant.addr > 0
        /\ disk'.meta.first > 0 /\ MetaEnd(disk)' = grant.addr + len
    BY MetaGrown
  <1>3. MetaArea' = MetaArea \cup ForkBlocks(Fork(grant.addr, len))
    BY MetaGrown
  <1>4. /\ Room(disk.space) /\ grant.addr = MetadataSize(disk.space) /\ OneExtent(grant.space)
        /\ Room(grant.space) => MetadataSize(grant.space) = MetadataSize(disk.space) + len
    BY <1>1, <1>2, FrontGrants DEF FrontOk
  <1>5. FrontOk'
    BY <1>2, <1>4 DEF FrontOk, Early, Filling
  <1>6. ObjectsLike(catalog)' /\ Areas' \subseteq Areas /\ IsSeq(disk'.ranges)
    BY NothingNew, NothingTold DEF AreasInv
  <1> QED BY <1>2, <1>3, <1>5, <1>6, AreasGiven

\* The metadata is given what was nobody's, a block at a time.
LEMMA PlaceAreas ==
  ASSUME ImageInv, AreasInv, PlaceSubsystem \/ PlacePreallocation
  PROVE  AreasInv'
  <1>1. main.at = "place" /\ UNCHANGED <<catalog, files>> /\ DiskLike(disk) /\ FrontOk
    BY DEF PlaceSubsystem, PlacePreallocation, At, Past, pools, ImageInv, AreasInv
  <1>2. CASE FailWith /\ UNCHANGED disk
    <2>1. main'.at = "exit"
      BY <1>2, Moved
    <2>2. FrontOk'
      BY <1>1, <1>2, <2>1, FrontStays DEF Early, Filling
    <2> QED BY <1>1, <1>2, <2>2, NothingNew, QuietAreas
  <1>3. ASSUME NEW len \in Nat, NEW grant, NEW d, d = ExtendMeta(disk, grant, len),
               disk' = d \/ \E table : disk' = [d EXCEPT !.table = table]
        PROVE  /\ disk'.space = grant.space
               /\ disk'.fixed = disk.fixed /\ disk'.ranges = disk.ranges
               /\ disk'.meta.first = (IF disk.meta.first = 0 THEN grant.addr ELSE disk.meta.first)
               /\ disk'.meta.count = disk.meta.count + len
    <2>1. /\ d.space = grant.space /\ d.fixed = disk.fixed /\ d.ranges = disk.ranges
          /\ d.meta.first = (IF disk.meta.first = 0 THEN grant.addr ELSE disk.meta.first)
          /\ d.meta.count = disk.meta.count + len
          /\ DOMAIN d = DOMAIN disk
      BY <1>1, <1>3 DEF ExtendMeta, DiskLike
    <2>2. DOMAIN disk = {"space", "blocks", "ranges", "fixed", "tables", "meta", "table"}
      BY <1>1 DEF DiskLike
    <2> QED BY <1>3, <2>1, <2>2
  <1>4. CASE PlaceSubsystem /\ ~(FailWith /\ UNCHANGED disk)
    <2> DEFINE grant == AllocateSpace(disk.space, MetaEnd(disk), 1)
    <2>1. /\ grant.addr # Refused /\ Advance
          /\ disk' = EnterTable(ExtendMeta(disk, grant, 1), Subsystems[main.i], grant.addr)
      BY <1>4 DEF PlaceSubsystem
    <2> HIDE DEF grant
    <2>2. grant = AllocateSpace(disk.space, MetaEnd(disk), 1) /\ 1 \in Nat
      BY DEF grant
    <2> DEFINE d == ExtendMeta(disk, grant, 1)
               table == Entered([t \in {Subsystems[main.i]} |-> grant.addr - d.meta.first], d.table)
    <2>3. d = ExtendMeta(disk, grant, 1) /\ disk' = [d EXCEPT !.table = table]
      BY <2>1 DEF EnterTable
    <2> HIDE DEF d, table
    <2>4. /\ disk'.space = grant.space /\ disk'.fixed = disk.fixed /\ disk'.ranges = disk.ranges
          /\ disk'.meta.first = (IF disk.meta.first = 0 THEN grant.addr ELSE disk.meta.first)
          /\ disk'.meta.count = disk.meta.count + 1
      BY <1>3, <2>2, <2>3
    <2>5. main'.at = "place"
      BY <1>1, <2>1, Moved
    <2> QED BY <1>1, <2>1, <2>2, <2>4, <2>5, MetaGrows
  <1>5. CASE PlacePreallocation /\ ~(FailWith /\ UNCHANGED disk)
    <2> DEFINE grant == AllocateSpace(disk.space, MetaEnd(disk), Preallocation)
    <2>1. /\ grant.addr # Refused /\ Goto("flush")
          /\ disk' = ExtendMeta(disk, grant, Preallocation)
      BY <1>5 DEF PlacePreallocation
    <2> HIDE DEF grant
    <2>2. grant = AllocateSpace(disk.space, MetaEnd(disk), Preallocation)
      BY DEF grant
    <2>3. Preallocation \in Nat
      BY DEF Preallocation
    <2>4. /\ disk'.space = grant.space /\ disk'.fixed = disk.fixed /\ disk'.ranges = disk.ranges
          /\ disk'.meta.first = (IF disk.meta.first = 0 THEN grant.addr ELSE disk.meta.first)
          /\ disk'.meta.count = disk.meta.count + Preallocation
      BY <1>3, <2>1, <2>3
    <2>5. main'.at = "flush"
      BY <2>1, Moved
    <2> QED BY <1>1, <2>1, <2>2, <2>3, <2>4, <2>5, MetaGrows
  <1> QED BY <1>2, <1>4, <1>5

--------------------------------------------------------------------------------
(* The threads.                                                            *)

\* What a thread does to a file leaves it without a fork to tell, or with the
\* one it had.
LEMMA OneFileKept ==
  ASSUME ImageInv, NEW f,
         \A g \in Threads \ {f} : files'[g] = files[g],
         f \in Threads => \/ files'[f].pc # "mark"
                          \/ files'[f].pc = files[f].pc /\ files'[f].fork = files[f].fork
  PROVE  FilesKept
  BY DEF FilesKept

\* Steps that give out nothing and tell nobody.
LEMMA ThreadAreas ==
  ASSUME ImageInv, AreasInv, NEW t \in Threads,
         \/ TakeJob(t) \/ Look(t) \/ SplitChunk(t) \/ ChunksDone(t) \/ FinishJob(t)
         \/ ChunkStep(t) \/ SplitFails(t) \/ AppendFails(t)
  PROVE  AreasInv'
  <1>1. UNCHANGED disk
    BY DEF TakeJob, Look, SplitChunk, ChunksDone, FinishJob, ChunkStep, TakeChunk, AppendChunk,
           RetireChunk, SplitFails, AppendFails
  <1>2. DOMAIN files = Threads /\ \A f \in Threads : DOMAIN files[f] = FileNames
    BY DEF ImageInv, FilesOk, FileLike, FileNames
  <1>3. Kept(catalog, catalog')
    <2>1. CASE Look(t)
      <3>1. UNCHANGED catalog \/ \E obj, flags : catalog' = AddFlags(catalog, obj, flags)
        BY <2>1 DEF Look, LookAt
      <3>2. DOMAIN catalog = CatalogNames /\ ObjectsLike(catalog)
        BY DEF ImageInv, LinksOk, CatalogNames, AreasInv
      <3> QED BY <3>1, <3>2, FlagsKept, NothingNew
    <2>2. CASE ~Look(t)
      <3>1. UNCHANGED catalog
        BY <2>2 DEF TakeJob, SplitChunk, ChunksDone, FinishJob, ChunkStep, TakeChunk, AppendChunk,
                    RetireChunk, SplitFails, AppendFails
      <3> QED BY <3>1, NothingNew
    <2> QED BY <2>1, <2>2
  <1>4. FrontOk'
    <2>1. main' = main \/ main'.at = "undefined"
      <3>1. CASE SplitFails(t)
        BY <3>1, Moved DEF SplitFails
      <3>2. CASE ~SplitFails(t)
        BY <3>2 DEF TakeJob, Look, SplitChunk, ChunksDone, FinishJob, ChunkStep, TakeChunk,
                    AppendChunk, RetireChunk, AppendFails
      <3> QED BY <3>1, <3>2
    <2>2. "undefined" \notin Early \cup Filling \cup {"place"}
      BY DEF Early, Filling
    <2> QED BY <1>1, <2>1, <2>2, FrontStays DEF AreasInv
  <1>5. FilesKept
    <2>1. CASE TakeJob(t)
      <3>1. /\ \A g \in Threads \ {t} : files'[g] = files[g]
            /\ files'[t].pc \in {"finish", "look"}
        BY <1>2, <2>1 DEF TakeJob, FileNames
      <3> QED BY <3>1, OneFileKept
    <2>2. CASE Look(t)
      <3>1. \/ FileGo(t, "finish")
            \/ \E pc \in {"finish", "split"} :
                 files' = [files EXCEPT ![t].pc = pc, ![t].left = Len(files[t].job.cells)]
        BY <2>2 DEF Look, LookAt
      <3>2. /\ \A g \in Threads \ {t} : files'[g] = files[g]
            /\ files'[t].pc \in {"finish", "split"}
        BY <1>2, <3>1 DEF FileGo, FileNames
      <3> QED BY <3>2, OneFileKept
    <2>3. CASE SplitChunk(t)
      <3>1. /\ \A g \in Threads \ {t} : files'[g] = files[g]
            /\ files'[t].pc = files[t].pc /\ files'[t].fork = files[t].fork
        BY <1>2, <2>3 DEF SplitChunk, FileNames
      <3> QED BY <3>1, OneFileKept
    <2>4. CASE ChunksDone(t)
      <3>1. /\ \A g \in Threads \ {t} : files'[g] = files[g]
            /\ files'[t].pc \in {"finish", "write"}
        BY <1>2, <2>4 DEF ChunksDone, FileGo, FileNames
      <3> QED BY <3>1, OneFileKept
    <2>5. CASE FinishJob(t)
      <3>1. files' = [files EXCEPT ![t] = NewFile]
        BY <2>5 DEF FinishJob
      <3>2. /\ \A g \in Threads \ {t} : files'[g] = files[g]
            /\ files'[t] = NewFile
        BY <1>2, <3>1
      <3> QED BY <3>2, OneFileKept DEF NewFile
    <2>6. CASE TakeChunk(t) \/ AppendFails(t)
      BY <2>6, NothingNew DEF TakeChunk, AppendFails
    <2>7. CASE AppendChunk(t) \/ RetireChunk(t)
      <3> DEFINE f == chunkers[t].owner
      <3>1. CASE AppendChunk(t)
        <4>1. PICK k, cell : files' = [files EXCEPT ![f] = AddChunk(@, k, cell)]
          BY <3>1 DEF AppendChunk
        <4> HIDE DEF f
        <4>2. /\ \A g \in Threads \ {f} : files'[g] = files[g]
              /\ f \in Threads => files'[f] = AddChunk(files[f], k, cell)
          BY <1>2, <4>1
        <4>3. f \in Threads => files'[f].pc = files[f].pc /\ files'[f].fork = files[f].fork
          BY <1>2, <4>2 DEF AddChunk, FileNames
        <4> QED BY <4>2, <4>3, OneFileKept
      <3>2. CASE RetireChunk(t)
        <4>1. files' = [files EXCEPT ![f] = CountChunk(@, chunkers[t].bad)]
          BY <3>2 DEF RetireChunk
        <4> HIDE DEF f
        <4>2. /\ \A g \in Threads \ {f} : files'[g] = files[g]
              /\ f \in Threads => files'[f] = CountChunk(files[f], chunkers[t].bad)
          BY <1>2, <4>1
        <4>3. f \in Threads => files'[f].pc = files[f].pc /\ files'[f].fork = files[f].fork
          BY <1>2, <4>2 DEF CountChunk, FileNames
        <4> QED BY <4>2, <4>3, OneFileKept
      <3> QED BY <2>7, <3>1, <3>2
    <2>8. CASE SplitFails(t)
      <3>1. /\ \A g \in Threads \ {t} : files'[g] = files[g]
            /\ files'[t].pc \in {"finish", "lost"}
        BY <1>2, <2>8 DEF SplitFails, FileGo, FileNames
      <3> QED BY <3>1, OneFileKept
    <2> QED BY <2>1, <2>2, <2>3, <2>4, <2>5, <2>6, <2>7, <2>8 DEF ChunkStep
  <1> QED BY <1>1, <1>3, <1>4, <1>5, QuietAreas

\* The catalog is told of the fork a thread has kept until now.
LEMMA MarkAreas ==
  ASSUME ImageInv, AreasInv, NEW f \in Threads, MarkRecord(f)
  PROVE  AreasInv'
  <1> DEFINE obj == Object(files[f].job)
             flagged == AddFlags(catalog, obj, Marks(files[f].job))
             fork == files[f].fork
  <1>1. UNCHANGED <<disk, main>> /\ files[f].pc = "mark" /\ FileGo(f, "finish")
        /\ catalog' = SetFork(flagged, obj, fork)
    BY DEF MarkRecord
  <1>2. DOMAIN catalog = CatalogNames /\ ObjectsLike(catalog)
    BY DEF ImageInv, LinksOk, CatalogNames, AreasInv
  <1>3. /\ DOMAIN flagged = CatalogNames /\ ObjectsLike(flagged)
        /\ Forked(flagged) \subseteq Forked(catalog)
    BY <1>2, FlagsKept, KeptForks
  <1> HIDE DEF flagged, obj
  <1>4. ObjectsLike(catalog') /\ Forked(catalog') \subseteq Forked(catalog) \cup {ForkBlocks(fork)}
    BY <1>1, <1>3, SetForkForks
  <1>5. ForkBlocks(fork) \in Areas
    BY <1>1 DEF Areas, Marked
  <1>6. FilesKept
    <2>1. /\ \A g \in Threads \ {f} : files'[g] = files[g]
          /\ files'[f].pc = "finish"
      BY <1>1 DEF FileGo, ImageInv, FilesOk, FileLike
    <2> QED BY <2>1, OneFileKept
  <1>7. Areas' \subseteq Areas
    <2>1. Forked(catalog)' \subseteq Areas
      BY <1>4, <1>5 DEF Areas
    <2>2. \A g \in Threads : files'[g].pc = "mark" => ForkBlocks(files'[g].fork) \in Areas
      BY <1>6 DEF FilesKept, Areas, Marked
    <2>3. \A i \in DOMAIN disk'.ranges : ForkBlocks(disk'.ranges[i]) \in Areas
      BY <1>1 DEF Areas, Ranged
    <2> HIDE DEF Areas
    <2> QED BY <2>1, <2>2, <2>3, AreasWithin
  <1>8. FrontOk'
    BY <1>1, FrontStays DEF AreasInv
  <1>9. ObjectsLike(catalog)' /\ IsSeq(disk'.ranges)
    BY <1>1, <1>4 DEF AreasInv
  <1> QED BY <1>1, <1>7, <1>8, <1>9, AreasStay

\* A twin is found where a known range is.
LEMMA TwinKnown ==
  ASSUME NEW d, IsSeq(d.ranges), NEW dst, NEW len, DuplicateOf(d, dst, len) # 0
  PROVE  ForkBlocks(Fork(DuplicateOf(d, dst, len), len)) \in Ranged(d)
  <1> DEFINE Same(r) == r.len = len /\ SameData(d.blocks, r.begin, dst, len)
             found == {i \in 1 .. Len(d.ranges) : Same(d.ranges[i])}
             twin == DuplicateOf(d, dst, len)
  <1>1. found # {} => Min(found) \in found /\ Min(found) # 0
    <2>1. Len(d.ranges) \in Nat
      BY SeqLen
    <2>2. found \in SUBSET Nat /\ 0 \notin found
      BY <2>1
    <2> HIDE DEF found
    <2>3. found # {} => \E x \in found : \A y \in found : x <= y
      BY <2>2, LowestExists
    <2>4. found # {} => Min(found) \in found
      BY <2>3 DEF Min
    <2> QED BY <2>2, <2>4
  <1>2. twin = IF found = {} THEN 0 ELSE d.ranges[Min(found)].begin
    <2>1. SelectInSeq(d.ranges, Same) = IF found # {} THEN Min(found) ELSE 0
      BY DEF SelectInSeq
    <2>2. twin = (IF SelectInSeq(d.ranges, Same) = 0 THEN 0
                  ELSE d.ranges[SelectInSeq(d.ranges, Same)].begin)
      BY DEF DuplicateOf
    <2> HIDE DEF found, twin, Same
    <2> QED BY <1>1, <2>1, <2>2
  <1>3. DOMAIN d.ranges = 1 .. Len(d.ranges)
    BY SeqLen
  <1> HIDE DEF twin
  <1>4. PICK i \in DOMAIN d.ranges : d.ranges[i].len = len /\ d.ranges[i].begin = twin
    BY <1>1, <1>2, <1>3 DEF twin
  <1>5. ForkBlocks(Fork(twin, len)) = ForkBlocks(d.ranges[i])
    BY <1>4 DEF ForkBlocks, Fork
  <1> QED BY <1>5 DEF Ranged, twin

\* A file that could not be written leaves the areas as they are.
LEMMA FailsAreas ==
  ASSUME ImageInv, AreasInv, NEW f \in Threads, FileFails(f), SameBut(disk, disk'),
         UNCHANGED <<plan, main, catalog>>
  PROVE  AreasInv'
  <1>1. DOMAIN files = Threads /\ DOMAIN files[f] = FileNames
    BY DEF ImageInv, FilesOk, FileLike, FileNames
  <1>2. FilesKept
    <2>1. /\ \A g \in Threads \ {f} : files'[g] = files[g]
          /\ files'[f].pc = "finish"
      BY <1>1 DEF FileFails, FileNames
    <2> QED BY <2>1, OneFileKept
  <1>3. FrontOk'
    BY FrontStays DEF SameBut, AreasInv
  <1> QED BY <1>2, <1>3, NothingNew, QuietAreas DEF SameBut

\* A file is written: to a new area, or not at all, when it has a twin or there
\* is no room.
LEMMA PutsAreas ==
  ASSUME ImageInv, VerdictInv, AreasInv, NEW f \in Threads, files[f].pc = "write",
         UNCHANGED <<plan, main, catalog>>, ~Full, NEW cells, NEW table,
         Puts(f, cells, table)
  PROVE  AreasInv'
  <1> DEFINE dst == MetadataSize(disk.space)
             len == Len(files[f].job.cells) + 1
             d == WithTable(Stored(disk, dst, cells), table)
             grant == AllocateSpace(disk.space, dst, len)
             given == ForkBlocks(Fork(grant.addr, len))
  <1>1. UNCHANGED <<plan, main, catalog>> /\ files[f].pc = "write"
    OBVIOUS
  <1>2. /\ DOMAIN files = Threads /\ DOMAIN files[f] = FileNames
        /\ GoodSpace(disk.space) /\ FrontOk /\ len \in Nat
    BY SeqLen DEF ImageInv, FilesOk, FileLike, FileNames, DiskLike, AreasInv
  <1>3. /\ DOMAIN d = DOMAIN disk /\ d.space = disk.space /\ d.ranges = disk.ranges
        /\ d.fixed = disk.fixed /\ d.meta = disk.meta
        /\ DOMAIN disk = {"space", "blocks", "ranges", "fixed", "tables", "meta", "table"}
    BY DEF WithTable, Stored, ImageInv, DiskLike
  <1>5. ASSUME NEW fork, FileStored(f, fork)
        PROVE  \A g \in Threads :
                 files'[g].pc = "mark" =>
                   files'[g].fork = fork \/ (files[g].pc = "mark" /\ files'[g].fork = files[g].fork)
    <2>1. /\ \A g \in Threads \ {f} : files'[g] = files[g]
          /\ files'[f].fork = fork
      BY <1>2, <1>5 DEF FileStored, FileNames
    <2> QED BY <2>1
  <1>6. ASSUME FileFails(f), SameBut(disk, disk')
        PROVE  AreasInv'
    BY <1>1, <1>6, FailsAreas
  <1>8. AreasInv'
    <2>1. dst \in Nat
      BY <1>2, NextOffset DEF ImageInv, KindOk, Full
    <2> DEFINE twin == DuplicateOf(d, dst, len)
    <2>2. \/ twin # 0 /\ disk' = DropCopy(d, dst) /\ FileStored(f, Fork(twin, len))
          \/ TakeSpace(f, d, AllocateSpace(d.space, dst, len), len)
      BY DEF Puts, SettleNew, Settle
    <2>3. AllocateSpace(d.space, dst, len) = grant
      BY <1>3
    <2> HIDE DEF d, dst, len, grant, given
    <2>4. CASE twin # 0 /\ disk' = DropCopy(d, dst) /\ FileStored(f, Fork(twin, len))
      <3>1. SameBut(disk, disk')
        BY <1>3, <2>4 DEF DropCopy, SameBut
      <3>2. ForkBlocks(Fork(twin, len)) \in Areas
        <4>1. ForkBlocks(Fork(twin, len)) \in Ranged(d)
          BY <1>3, <2>4, TwinKnown DEF AreasInv
        <4> QED BY <1>3, <4>1 DEF Areas, Ranged
      <3> HIDE DEF twin
      <3>3. Areas' \subseteq Areas
        <4>1. Forked(catalog)' \subseteq Areas
          BY <1>1 DEF Areas
        <4>2. \A g \in Threads : files'[g].pc = "mark" => ForkBlocks(files'[g].fork) \in Areas
          BY <1>5, <2>4, <3>2 DEF Areas, Marked
        <4>3. \A i \in DOMAIN disk'.ranges : ForkBlocks(disk'.ranges[i]) \in Areas
          BY <3>1 DEF SameBut, Areas, Ranged
        <4> HIDE DEF Areas
        <4> QED BY <4>1, <4>2, <4>3, AreasWithin
      <3>4. FrontOk'
        BY <1>1, <1>2, <3>1, FrontStays DEF SameBut
      <3>5. ObjectsLike(catalog)' /\ IsSeq(disk'.ranges)
        BY <1>1, <3>1 DEF AreasInv, SameBut
      <3> QED BY <3>1, <3>3, <3>4, <3>5, AreasStay DEF SameBut
    <2>5. CASE TakeSpace(f, d, grant, len)
      <3>1. CASE disk' = d /\ FileFails(f)
        BY <1>3, <1>6, <3>1 DEF SameBut
      <3>2. CASE /\ grant.addr # Refused
                 /\ disk' = AddRange([d EXCEPT !.space = grant.space], Fork(grant.addr, len))
                 /\ FileStored(f, Fork(grant.addr, len))
        <4> DEFINE e == [d EXCEPT !.space = grant.space]
        <4>1. /\ e.space = grant.space /\ e.fixed = disk.fixed /\ e.meta = disk.meta
              /\ e.ranges = disk.ranges /\ DOMAIN e = DOMAIN disk
          BY <1>3
        <4>2. disk' = AddRange(e, Fork(grant.addr, len))
          BY <3>2
        <4> HIDE DEF e
        <4>3. disk'.space = grant.space /\ disk'.fixed = disk.fixed /\ disk'.meta = disk.meta
          BY <1>3, <4>1, <4>2 DEF AddRange
        <4>4. /\ IsSeq(disk'.ranges)
              /\ \A i \in DOMAIN disk'.ranges :
                   disk'.ranges[i] = Fork(grant.addr, len)
                     \/ \E j \in DOMAIN disk.ranges : disk'.ranges[i] = disk.ranges[j]
          BY <1>3, <4>1, <4>2, RangeAdded DEF AreasInv
        <4>5. Areas' \subseteq Areas \cup {given}
          <5>1. Forked(catalog)' \subseteq Areas \cup {given}
            BY <1>1 DEF Areas
          <5>2. \A g \in Threads :
                  files'[g].pc = "mark" => ForkBlocks(files'[g].fork) \in Areas \cup {given}
            BY <1>5, <3>2 DEF Areas, Marked, given
          <5>3. \A i \in DOMAIN disk'.ranges : ForkBlocks(disk'.ranges[i]) \in Areas \cup {given}
            BY <4>4 DEF Areas, Ranged, given
          <5> HIDE DEF Areas
          <5> QED BY <5>1, <5>2, <5>3, AreasWithin
        <4>6. grant = AllocateSpace(disk.space, dst, len)
          BY DEF grant
        <4>7. /\ Room(disk.space) /\ grant.addr = dst /\ OneExtent(grant.space)
              /\ Room(grant.space) => MetadataSize(grant.space) = dst + len
          BY <1>2, <2>1, <3>2, <4>6, FrontGrants DEF FrontOk, dst
        <4>8. main.at = "undefined" \/ main.at \in {"tune", "folder", "box"}
          BY <1>1, BusyWhere DEF VerdictInv, Idle
        <4>9. FrontOk'
          <5>1. CASE main.at = "undefined"
            BY <1>1, <1>2, <4>3, <4>7, <5>1 DEF FrontOk, Early, Filling
          <5>2. CASE main.at \in {"tune", "folder", "box"}
            <6>1. dst > 0
              BY <1>2, <4>7, <5>2 DEF FrontOk, Filling, dst
            <6>2. Room(disk'.space) => MetadataSize(disk'.space) > 0
              BY <1>2, <2>1, <4>3, <4>7, <6>1
            <6> QED BY <1>1, <1>2, <4>3, <4>7, <5>2, <6>2 DEF FrontOk, Early, Filling
          <5> QED BY <4>8, <5>1, <5>2
        <4>10. ObjectsLike(catalog)'
          BY <1>1 DEF AreasInv
        <4>11. given = ForkBlocks(Fork(grant.addr, len)) /\ grant.addr # Refused
          BY <3>2 DEF given
        <4>12. IsSeq(disk'.ranges)
          BY <4>4
        <4> QED BY <1>2, <2>1, <4>3, <4>5, <4>6, <4>9, <4>10, <4>11, <4>12, AreasGiven
      <3> QED BY <2>5, <3>1, <3>2 DEF TakeSpace
    <2> QED BY <2>2, <2>3, <2>4, <2>5
  <1> QED BY <1>8

LEMMA WriteAreas ==
  ASSUME ImageInv, VerdictInv, AreasInv, NEW f \in Threads, Writes(f)
  PROVE  AreasInv'
  <1>1. UNCHANGED <<plan, main, catalog>> /\ files[f].pc = "write"
    BY WritesAre
  <1>2. ASSUME NEW cells, NEW e, e = Stored(disk, MetadataSize(disk.space), cells)
        PROVE  SameBut(disk, e) /\ DOMAIN e = DOMAIN disk
    BY <1>2 DEF Stored, SameBut, ImageInv, DiskLike
  <1>3. ASSUME NEW cells, NEW table, NEW d,
               d = WithTable(Stored(disk, MetadataSize(disk.space), cells), table)
        PROVE  SameBut(disk, d)
    <2>1. PICK e : e = Stored(disk, MetadataSize(disk.space), cells)
      OBVIOUS
    <2>2. SameBut(disk, e) /\ DOMAIN e = DOMAIN disk
      BY <1>2, <2>1
    <2> QED BY <1>3, <2>1, <2>2 DEF WithTable, SameBut, ImageInv, DiskLike
  <1>4. CASE FileFails(f) /\ UNCHANGED disk
    BY <1>1, <1>4, FailsAreas DEF SameBut
  <1>5. ASSUME NEW cells, Leaves(f, Stored(disk, MetadataSize(disk.space), cells))
        PROVE  AreasInv'
    <2>1. PICK d : d = Stored(disk, MetadataSize(disk.space), cells)
      OBVIOUS
    <2>2. SameBut(disk, d)
      BY <1>2, <2>1
    <2> QED BY <1>1, <1>5, <2>1, <2>2, FailsAreas DEF Leaves
  <1>6. ASSUME NEW cells, NEW table,
               Leaves(f, WithTable(Stored(disk, MetadataSize(disk.space), cells), table))
        PROVE  AreasInv'
    <2>1. PICK d : d = WithTable(Stored(disk, MetadataSize(disk.space), cells), table)
      OBVIOUS
    <2>2. SameBut(disk, d)
      BY <1>3, <2>1
    <2> QED BY <1>1, <1>6, <2>1, <2>2, FailsAreas DEF Leaves
  <1> QED BY <1>1, <1>4, <1>5, <1>6, PutsAreas, WritesAre

--------------------------------------------------------------------------------
(* The program.                                                            *)

\* Every step keeps the areas apart.
LEMMA AreasInvStep ==
  ASSUME ImageInv, VerdictInv, AreasInv, [Next]_vars
  PROVE  AreasInv'
  <1>1. CASE MainStep
    BY <1>1, EarlyAreas, FixedAreasKept, TuneAreas, OnwardAreas, DataAreasKept, CopyBoxAreas,
       PlaceAreas, EndAreas DEF MainStep
  <1>2. CASE CopyFails
    BY <1>2, EndAreas
  <1>3. ASSUME NEW t \in Threads,
               FileStep(t) \/ ChunkStep(t) \/ SplitFails(t) \/ AppendFails(t) \/ Writes(t)
        PROVE  AreasInv'
    BY <1>3, ThreadAreas, MarkAreas, WriteAreas DEF FileStep, Writes
  <1>4. CASE UnpackNext \/ UNCHANGED vars
    <2>1. UNCHANGED <<main, disk, catalog, files>>
      BY <1>4, UnpackMadeStays DEF mkfsVars
    <2>2. FrontOk'
      BY <2>1, FrontStays DEF AreasInv
    <2> QED BY <2>1, <2>2, NothingNew, QuietAreas
  <1> QED BY <1>1, <1>2, <1>3, <1>4 DEF Next, MkfsNext, Mishap, Writes

\* At first there are no areas.
LEMMA AreasInvInit ==
  ASSUME Init
  PROVE  AreasInv
  <1>1. MkfsInit /\ ImageInv
    BY ImageInvInit DEF Init
  <1>2. main.at = "list" /\ main.i = 1
    BY <1>1 DEF MkfsInit
  <1>3. /\ catalog.objects = <<>> /\ disk.ranges = <<>> /\ disk.fixed = {}
        /\ disk.meta.first = 0 /\ disk.meta.count = 0
        /\ disk.space = NewSpace(plan.readOnly, plan.blocks)
    BY <1>1 DEF MkfsInit
  <1>4. \A f \in Threads : files[f].pc = "idle"
    BY <1>1 DEF MkfsInit, NewFile
  <1>5. FrontOk
    <2>1. OneExtent(disk.space)
      BY <1>3 DEF OneExtent, NewSpace
    <2>2. Room(disk.space) => MetadataSize(disk.space) = 0
      <3>1. CASE disk.space.readOnly
        BY <1>3, <3>1 DEF MetadataSize, NewSpace
      <3>2. CASE ~disk.space.readOnly /\ disk.space.free # {}
        <4>1. disk.space.free \in SUBSET Extents
          BY <1>1, <3>2 DEF ImageInv, DiskLike, GoodSpace, Spaces
        <4>2. FirstOf(disk.space.free) \in disk.space.free
          BY <3>2, <4>1, FirstOfIsFirst
        <4>3. \A e \in disk.space.free : e.start = 0
          BY <1>3 DEF NewSpace, Extent
        <4> QED BY <3>2, <4>2, <4>3 DEF MetadataSize
      <3> QED BY <3>1, <3>2 DEF Room
    <2> QED BY <1>2, <1>3, <2>1, <2>2 DEF FrontOk, Early, Filling
  <1>6. DOMAIN <<>> = {}
    OBVIOUS
  <1>7. ObjectsLike(catalog) /\ Areas = {}
    BY <1>3, <1>4, <1>6 DEF ObjectsLike, Areas, Forked, Marked, Ranged
  <1>8. MetaArea = {}
    BY <1>3 DEF MetaArea
  <1>9. Apart(Areas, disk.fixed, MetaArea, disk.space)
    BY <1>3, <1>7, <1>8 DEF Apart
  <1>10. IsSeq(disk.ranges)
    BY <1>3, SeqEmpty
  <1> QED BY <1>5, <1>7, <1>9, <1>10 DEF AreasInv

\* No two areas of the image have a block in common and none of their blocks
\* is given out again: the forks of the files, written by main and by many
\* threads, the fixed areas and the metadata.
THEOREM AreasAlwaysDisjoint == Spec => []AreasDisjoint
  <1>1. Init => ImageInv /\ VerdictInv /\ AreasInv
    BY ImageInvInit, VerdictInvInit, AreasInvInit
  <1>2. ImageInv /\ VerdictInv /\ AreasInv /\ [Next]_vars => (ImageInv /\ VerdictInv /\ AreasInv)'
    BY ImageInvStep, VerdictInvStep, AreasInvStep
  <1>3. AreasInv => AreasDisjoint
    <2> SUFFICES ASSUME AreasInv
                 PROVE  AreasDisjoint
      OBVIOUS
    <2>1. DataAreas \subseteq Areas
      BY DEF DataAreas, Areas, Forked
    <2>2. Keeps(disk.space, disk.space)
      BY DEF Keeps
    <2>3. Apart(DataAreas, disk.fixed, MetaArea, disk.space)
      BY <2>1, <2>2, ApartShrinks DEF AreasInv
    <2> QED BY <2>3 DEF Apart, AreasDisjoint
  <1> QED BY <1>1, <1>2, <1>3, PTL DEF Spec

--------------------------------------------------------------------------------
(* What is written is not written over.  A thread of files writes its data *)
(* at the first free block before it asks for the space, and the table at  *)
(* the end of the file: that both are within what it is then given needs   *)
(* the chunks counted.  Each chunk that was read is in one of the two      *)
(* temporary files, or a thread has yet to put it there.  A write that     *)
(* fails unnoticed leaves less of them in the image than that.             *)

Pending(f) == {c \in Helpers(f) : chunkers[c].pc # "retire"}
\* A chunk of the file was lost.
Hit(f) == files[f].bad \/ \E c \in Helpers(f) : chunkers[c].bad

PackLike(t) == t.raw \in Nat /\ IsSeq(t.pack)
PackOk(f) ==
  /\ files[f].pc \in {"idle", "look"} => files[f].raw = 0 /\ Len(files[f].pack) = 0
  /\ ~Idle(files[f]) => Len(files[f].job.cells) > 0
  /\ files[f].pc = "split" /\ ~Hit(f) =>
       files[f].raw + Len(files[f].pack) + Cardinality(Pending(f)) = files[f].k - 1
  /\ files[f].pc = "write" => files[f].raw + Len(files[f].pack) = Len(files[f].job.cells)

\* A container that exists holds a file.
BoxesFull == \A class \in DOMAIN boxes : boxes[class].ino # 0 => Len(boxes[class].cells) > 0

PackInv ==
  /\ \A f \in Threads : PackLike(files[f])
  /\ BoxesFull
  /\ main.at # "undefined" => \A f \in Threads : PackOk(f)

\* A file whose chunks nobody touches.
LEMMA OthersPack ==
  ASSUME NEW g \in Threads, PackOk(g), files'[g] = files[g], Helpers(g)' = Helpers(g),
         \A c \in Helpers(g) : chunkers'[c] = chunkers[c]
  PROVE  PackOk(g)'
  <1>1. Pending(g)' = Pending(g)
    BY DEF Pending
  <1>2. Hit(g)' <=> Hit(g)
    BY DEF Hit
  <1> QED BY <1>1, <1>2 DEF PackOk

\* The threads of chunkers do nothing meanwhile.
LEMMA ChunkersRest ==
  ASSUME NEW f \in Threads, UNCHANGED chunkers,
         \A g \in Threads \ {f} : PackOk(g) /\ files'[g] = files[g], PackOk(f)'
  PROVE  \A g \in Threads : PackOk(g)'
  <1>1. \A g : Helpers(g)' = Helpers(g)
    BY DEF Helpers
  <1>2. \A g \in Threads \ {f} : PackOk(g)'
    BY <1>1, OthersPack
  <1> QED BY <1>2

\* A thread is given a file that is not empty.
LEMMA DispatchPack ==
  ASSUME ImageInv, Good, \A f \in Threads : PackOk(f), NEW job, Len(job.cells) > 0,
         Dispatch(job), UNCHANGED chunkers
  PROVE  \A f \in Threads : PackOk(f)'
  <1>1. Min(FreeFiles) \in Threads /\ Idle(files[Min(FreeFiles)])
    <2>1. FreeFiles \subseteq Nat
      BY ProcessorsAssumption DEF FreeFiles, Threads
    <2>2. FreeFiles # {}
      BY DEF Dispatch
    <2>3. \E x \in FreeFiles : \A y \in FreeFiles : x <= y
      BY <2>1, <2>2, LowestExists
    <2>4. Min(FreeFiles) \in FreeFiles
      BY <2>3 DEF Min
    <2> QED BY <2>4 DEF FreeFiles
  <1>2. PICK f \in Threads : /\ Idle(files[f])
                             /\ files' = [files EXCEPT ![f].has = TRUE, ![f].job = job]
    BY <1>1 DEF Dispatch
  <1>3. /\ \A g \in Threads \ {f} : files'[g] = files[g]
        /\ files'[f].pc = files[f].pc /\ files'[f].job = job
        /\ files'[f].raw = files[f].raw /\ files'[f].pack = files[f].pack
    BY <1>2, FileRecord DEF FileNames
  <1>4. PackOk(f)'
    BY <1>2, <1>3 DEF PackOk, Idle
  <1> QED BY <1>3, <1>4, ChunkersRest

\* A write ends one of two ways for the thread.
LEMMA WriteEnds ==
  ASSUME NEW f, Writes(f)
  PROVE  FileFails(f) \/ \E fork : FileStored(f, fork)
  <1>1. ASSUME NEW cells, NEW table, Puts(f, cells, table)
        PROVE  FileFails(f) \/ \E fork : FileStored(f, fork)
    <2>1. PICK d : d = WithTable(Stored(disk, MetadataSize(disk.space), cells), table)
      OBVIOUS
    <2>2. SettleNew(f, d, MetadataSize(disk.space), Len(files[f].job.cells) + 1)
      BY <1>1, <2>1 DEF Puts
    <2> QED BY <2>2 DEF SettleNew, Settle, TakeSpace
  <1>2. \A d : Leaves(f, d) => FileFails(f)
    BY DEF Leaves
  <1> QED BY <1>1, <1>2, WritesAre

\* The thread takes its job, looks at the record, and begins with nothing.
LEMMA TakeJobPack ==
  ASSUME ImageInv, Good, \A g \in Threads : PackOk(g), NEW f \in Threads,
         TakeJob(f) \/ Look(f) \/ MarkRecord(f) \/ FinishJob(f) \/ Writes(f)
  PROVE  \A g \in Threads : PackOk(g)'
  <1>1. UNCHANGED chunkers
    BY WritesAre DEF TakeJob, Look, MarkRecord, FinishJob
  <1>2. ASSUME \A g \in Threads \ {f} : files'[g] = files[g], PackOk(f)'
        PROVE  \A g \in Threads : PackOk(g)'
    BY <1>1, <1>2, ChunkersRest
  <1>3. CASE TakeJob(f)
    <2>1. /\ \A g \in Threads \ {f} : files'[g] = files[g]
          /\ files'[f].pc \in {"finish", "look"} /\ files'[f].job = files[f].job
          /\ files'[f].raw = files[f].raw /\ files'[f].pack = files[f].pack
      BY <1>3, FileRecord DEF TakeJob, FileNames
    <2>2. files[f].pc = "idle" /\ ~Idle(files[f])
      BY <1>3 DEF TakeJob, Idle
    <2>3. PackOk(f)'
      BY <2>1, <2>2 DEF PackOk
    <2> QED BY <1>2, <2>1, <2>3
  <1>4. CASE Look(f)
    <2>1. files[f].pc = "look" /\ ~Idle(files[f])
      BY <1>4 DEF Look, Idle
    <2>2. \/ FileGo(f, "finish")
          \/ \E pc \in {"finish", "split"} :
               files' = [files EXCEPT ![f].pc = pc, ![f].left = Len(files[f].job.cells)]
      BY <1>4 DEF Look, LookAt
    <2>3. /\ \A g \in Threads \ {f} : files'[g] = files[g]
          /\ files'[f].pc \in {"finish", "split"} /\ files'[f].job = files[f].job
          /\ files'[f].raw = files[f].raw /\ files'[f].pack = files[f].pack
          /\ files'[f].k = files[f].k
      BY <2>2, FileRecord DEF FileGo, FileNames
    <2>4. files[f].k = 1 /\ files[f].raw = 0 /\ Len(files[f].pack) = 0
      BY <2>1, FileRecord DEF WorkLike, PackOk
    <2>5. Cardinality(Pending(f)') = 0
      <3>1. Helpers(f) = {}
        BY <2>1, FileRecord DEF LeftOk
      <3>2. Pending(f)' = {}
        BY <1>1, <3>1 DEF Pending, Helpers
      <3> QED BY <3>2, FS_EmptySet
    <2>6. PackOk(f)'
      BY <2>1, <2>3, <2>4, <2>5 DEF PackOk
    <2> QED BY <1>2, <2>3, <2>6
  <1>5. CASE FinishJob(f)
    <2>1. \A g \in Threads \ {f} : files'[g] = files[g]
      BY <1>5, FileRecord DEF FinishJob
    <2>2. files'[f] = NewFile
      BY <1>5, FileRecord DEF FinishJob
    <2>3. /\ NewFile.pc = "idle" /\ NewFile.raw = 0 /\ Len(NewFile.pack) = 0 /\ ~NewFile.has
      BY DEF NewFile
    <2>4. PackOk(f)'
      BY <2>2, <2>3 DEF PackOk, Idle
    <2> QED BY <1>2, <2>1, <2>4
  <1>6. CASE MarkRecord(f) \/ Writes(f)
    <2>1. files[f].pc \in {"mark", "write"}
      BY <1>6, WritesAre DEF MarkRecord
    <2>2. /\ \A g \in Threads \ {f} : files'[g] = files[g]
          /\ files'[f].pc \in {"mark", "finish"} /\ files'[f].job = files[f].job
      <3>1. CASE MarkRecord(f)
        BY <3>1, FileRecord DEF MarkRecord, FileGo, FileNames
      <3>2. CASE FileFails(f)
        BY <3>2, FileRecord DEF FileFails, FileNames
      <3>3. ASSUME NEW fork, FileStored(f, fork)
            PROVE  /\ \A g \in Threads \ {f} : files'[g] = files[g]
                   /\ files'[f].pc = "mark" /\ files'[f].job = files[f].job
        BY <3>3, FileRecord DEF FileStored, FileNames
      <3> QED BY <1>6, <3>1, <3>2, <3>3, WriteEnds
    <2>3. PackOk(f)'
      BY <2>1, <2>2 DEF PackOk, Idle
    <2> QED BY <1>2, <2>2, <2>3
  <1> QED BY <1>3, <1>4, <1>5, <1>6

LEMMA OneMore ==
  ASSUME NEW s \in Nat, NEW n \in Nat, NEW m, NEW k \in Nat, s + n = k - 1, m = n + 1
  PROVE  s + m = (k + 1) - 1
  OBVIOUS

\* A chunk is given out: there is one more to be put away.
LEMMA SplitPack ==
  ASSUME ImageInv, Good, \A g \in Threads : PackLike(files[g]) /\ PackOk(g),
         NEW f \in Threads, SplitChunk(f)
  PROVE  \A g \in Threads : PackOk(g)'
  <1> DEFINE c == Min(FreeChunkers)
  <1>1. files[f].pc = "split" /\ ~Idle(files[f])
    BY DEF SplitChunk, Idle
  <1>2. c \in Threads /\ Idle(chunkers[c])
    <2>1. FreeChunkers \subseteq Nat
      BY ProcessorsAssumption DEF FreeChunkers, Threads
    <2>2. FreeChunkers # {}
      BY DEF SplitChunk
    <2>3. \E x \in FreeChunkers : \A y \in FreeChunkers : x <= y
      BY <2>1, <2>2, LowestExists
    <2>4. c \in FreeChunkers
      BY <2>3 DEF Min
    <2> QED BY <2>4 DEF FreeChunkers
  <1>3. /\ chunkers' = [chunkers EXCEPT ![c] =
                          [@ EXCEPT !.has = TRUE, !.owner = f, !.chunk = files[f].k]]
        /\ files' = [files EXCEPT ![f].k = @ + 1]
    BY DEF SplitChunk
  <1> HIDE DEF c
  <1>4. /\ \A g \in Threads \ {f} : files'[g] = files[g]
        /\ files'[f].pc = "split" /\ files'[f].job = files[f].job
        /\ files'[f].k = files[f].k + 1
        /\ files'[f].raw = files[f].raw /\ files'[f].pack = files[f].pack
    BY <1>1, <1>3, FileRecord DEF FileNames
  <1>5. files'[f].bad = files[f].bad
    BY <1>3, FileRecord DEF FileNames
  <1>6. /\ \A d \in Threads \ {c} : chunkers'[d] = chunkers[d]
        /\ chunkers'[c] = [chunkers[c] EXCEPT !.has = TRUE, !.owner = f, !.chunk = files[f].k]
    BY <1>2, <1>3, ChunkRecord
  <1>7. /\ chunkers'[c].owner = f /\ chunkers'[c].pc = "idle"
        /\ chunkers'[c].has = TRUE /\ chunkers'[c].bad = chunkers[c].bad
    BY <1>2, <1>6, ChunkRecord DEF Idle
  <1>8. ~Idle(chunkers'[c]) /\ ~chunkers[c].bad
    BY <1>2, <1>7, ChunkRecord DEF Idle, ChunkLike
  <1>9. \A g \in Threads \ {f} : Helpers(g)' = Helpers(g) /\ c \notin Helpers(g)
    <2>1. ASSUME NEW g \in Threads \ {f}
          PROVE  Helpers(g)' = Helpers(g) /\ c \notin Helpers(g)
      <3>1. \A d \in Threads :
              ~Idle(chunkers'[d]) /\ chunkers'[d].owner = g
                <=> ~Idle(chunkers[d]) /\ chunkers[d].owner = g
        BY <1>2, <1>6, <1>7
      <3> QED BY <1>2, <3>1 DEF Helpers
    <2> QED BY <2>1
  <1>10. Helpers(f)' = Helpers(f) \cup {c} /\ c \notin Helpers(f)
    <2>1. \A d \in Threads :
            ~Idle(chunkers'[d]) /\ chunkers'[d].owner = f
              <=> (~Idle(chunkers[d]) /\ chunkers[d].owner = f) \/ d = c
      BY <1>2, <1>6, <1>7, <1>8
    <2> QED BY <1>2, <2>1 DEF Helpers
  <1>11. ASSUME NEW g \in Threads \ {f}
         PROVE  PackOk(g)'
    <2>1. \A d \in Helpers(g) : d \in Threads \ {c}
      BY <1>9 DEF Helpers
    <2> QED BY <1>4, <1>6, <1>9, <2>1, OthersPack
  <1>12. Pending(f)' = Pending(f) \cup {c} /\ c \notin Pending(f)
    <2>1. \A d \in Helpers(f) : chunkers'[d] = chunkers[d]
      BY <1>6, <1>10 DEF Helpers
    <2>2. \A d : d \in Pending(f)' <=> d \in Pending(f) \/ d = c
      BY <1>7, <1>10, <2>1 DEF Pending
    <2> QED BY <1>10, <2>2 DEF Pending
  <1>13. Hit(f) => Hit(f)'
    <2>1. \A d \in Helpers(f) : chunkers'[d] = chunkers[d]
      BY <1>6, <1>10 DEF Helpers
    <2> QED BY <1>5, <1>7, <1>8, <1>10, <2>1 DEF Hit
  <1>14. Cardinality(Pending(f)') = Cardinality(Pending(f)) + 1 /\ Cardinality(Pending(f)) \in Nat
    <2>1. IsFiniteSet(Pending(f)) /\ Cardinality(Pending(f)) \in Nat
      <3>1. Pending(f) \subseteq Helpers(f)
        BY DEF Pending
      <3> QED BY <3>1, ThreadsFinite, FS_Subset, FS_CardinalityType
    <2>2. Cardinality(Pending(f) \cup {c}) = Cardinality(Pending(f)) + 1
      BY <1>12, <2>1, FS_AddElement
    <2> QED BY <1>12, <2>1, <2>2, Zenon
  <1>15. PackOk(f)'
    <2> DEFINE s == files[f].raw + Len(files[f].pack)
               n == Cardinality(Pending(f))
               m == Cardinality(Pending(f)')
    <2>1. s \in Nat /\ n \in Nat /\ files[f].k \in Nat /\ m = n + 1
      BY <1>14, SeqLen, FileRecord DEF PackLike, WorkLike
    <2>2. ~Hit(f) => s + n = files[f].k - 1
      BY <1>1 DEF PackOk
    <2>3. ~Hit(f)' => s + m = files'[f].k - 1
      <3> HIDE DEF s, n, m
      <3>1. CASE ~Hit(f)'
        <4>1. s + n = files[f].k - 1
          BY <1>13, <2>2, <3>1
        <4>2. s + m = (files[f].k + 1) - 1
          BY <2>1, <4>1, OneMore
        <4> QED BY <1>4, <4>2
      <3> QED BY <3>1
    <2>4. Len(files[f].job.cells) > 0
      BY <1>1 DEF PackOk
    <2> QED BY <1>4, <2>3, <2>4 DEF PackOk
  <1> QED BY <1>11, <1>15

\* A file whose read failed is given up; one with all its chunks put away is
\* as long as it should be.
LEMMA DonePack ==
  ASSUME ImageInv, Good, \A g \in Threads : PackLike(files[g]) /\ PackOk(g), NEW f \in Threads,
         ChunksDone(f) \/ SplitFails(f)
  PROVE  main'.at = "undefined" \/ \A g \in Threads : PackOk(g)'
  <1>1. UNCHANGED chunkers /\ files[f].pc = "split" /\ ~Idle(files[f])
    BY DEF ChunksDone, SplitFails, Idle
  <1>2. Len(files[f].job.cells) > 0
    BY <1>1 DEF PackOk
  <1>3. CASE SplitFails(f)
    <2>1. CASE Goto("undefined")
      BY <2>1, Moved
    <2>2. CASE files' = [files EXCEPT ![f].pc = "finish", ![f].bad = TRUE]
      <3>1. /\ \A g \in Threads \ {f} : files'[g] = files[g]
            /\ files'[f].pc = "finish" /\ files'[f].job = files[f].job
        BY <2>2, FileRecord DEF FileNames
      <3>2. PackOk(f)'
        BY <1>2, <3>1 DEF PackOk
      <3> QED BY <1>1, <3>1, <3>2, ChunkersRest
    <2> QED BY <1>3, <2>1, <2>2 DEF SplitFails
  <1>4. CASE ChunksDone(f)
    <2>1. FileGo(f, IF files[f].bad THEN "finish" ELSE "write") /\ files[f].left = 0
      BY <1>4 DEF ChunksDone
    <2>2. /\ \A g \in Threads \ {f} : files'[g] = files[g]
          /\ files'[f].pc = (IF files[f].bad THEN "finish" ELSE "write")
          /\ files'[f].job = files[f].job
          /\ files'[f].raw = files[f].raw /\ files'[f].pack = files[f].pack
      BY <2>1, FileRecord DEF FileGo, FileNames
    <2> DEFINE len == Len(files[f].job.cells)
               n == Cardinality(Helpers(f))
    <2>3. /\ files[f].left = len - files[f].k + 1 + n
          /\ files[f].k \in Nat /\ len \in Nat /\ n \in Nat /\ files[f].k <= len + 1
      BY <1>1, FileRecord, ThreadsFinite DEF LeftOk, WorkLike
    <2>4. n = 0 /\ files[f].k - 1 = len
      <3> HIDE DEF len, n
      <3> QED BY <2>1, <2>3
    <2>5. Helpers(f) = {} /\ Cardinality(Pending(f)) = 0
      <3>1. Helpers(f) = {}
        BY <2>4, ThreadsFinite, FS_EmptySet
      <3>2. Pending(f) = {}
        BY <3>1 DEF Pending
      <3> QED BY <3>1, <3>2, FS_EmptySet
    <2>6. ~files[f].bad => files[f].raw + Len(files[f].pack) = len
      <3>1. files[f].raw \in Nat /\ Len(files[f].pack) \in Nat
        BY SeqLen DEF PackLike
      <3>2. ~files[f].bad => files[f].raw + Len(files[f].pack) + 0 = files[f].k - 1
        BY <1>1, <2>5 DEF PackOk, Hit
      <3> HIDE DEF len
      <3> QED BY <2>4, <3>1, <3>2
    <2>7. PackOk(f)'
      BY <1>2, <2>2, <2>6 DEF PackOk
    <2> QED BY <1>1, <2>2, <2>7, ChunkersRest
  <1> QED BY <1>3, <1>4

\* A thread of chunkers works for one file; the others do not notice.
LEMMA ChunkPack ==
  ASSUME ImageInv, Good, \A g \in Threads : PackOk(g), NEW f \in Threads, NEW c \in Threads,
         chunkers[c].owner = f,
         \A g \in Threads \ {f} : files'[g] = files[g] /\ Helpers(g)' = Helpers(g),
         \A d \in Threads \ {c} : chunkers'[d] = chunkers[d],
         PackOk(f)'
  PROVE  \A g \in Threads : PackOk(g)'
  <1>1. ASSUME NEW g \in Threads \ {f}
        PROVE  PackOk(g)'
    <2>1. \A d \in Helpers(g) : d \in Threads \ {c}
      BY DEF Helpers
    <2> QED BY <2>1, OthersPack
  <1> QED BY <1>1

\* A chunk that is taken has yet to be put away, unless the file is given up.
LEMMA TakeChunkPack ==
  ASSUME ImageInv, Good, \A g \in Threads : PackOk(g), NEW c \in Threads, TakeChunk(c)
  PROVE  \A g \in Threads : PackOk(g)'
  <1>1. UNCHANGED files /\ chunkers[c].pc = "idle" /\ ~Idle(chunkers[c])
    BY DEF TakeChunk, Idle
  <1>2. PICK f \in Threads : f = chunkers[c].owner
    BY <1>1, HelperWhere
  <1>3. /\ \A d \in Threads \ {c} : chunkers'[d] = chunkers[d]
        /\ DOMAIN chunkers' = Threads
        /\ DOMAIN chunkers'[c] = {"pc", "has", "owner", "chunk", "bad"}
        /\ chunkers'[c].owner = chunkers[c].owner
        /\ chunkers'[c].pc = (IF files[f].bad THEN "retire" ELSE "append")
    BY <1>2, ChunkRecord DEF TakeChunk
  <1>4. chunkers'[c].bad = chunkers[c].bad
    BY ChunkRecord DEF TakeChunk
  <1>5. ~Idle(chunkers'[c])
    BY <1>3 DEF Idle
  <1>6. \A g : Helpers(g)' = Helpers(g)
    <2>1. ASSUME NEW g
          PROVE  Helpers(g)' = Helpers(g)
      <3>1. \A d \in Threads :
              ~Idle(chunkers'[d]) /\ chunkers'[d].owner = g
                <=> ~Idle(chunkers[d]) /\ chunkers[d].owner = g
        BY <1>1, <1>3, <1>5
      <3> QED BY <3>1 DEF Helpers
    <2> QED BY <2>1
  <1>7. PackOk(f)'
    <2>1. CASE files[f].bad
      <3>1. Hit(f)'
        BY <1>1, <2>1 DEF Hit
      <3> QED BY <1>1, <3>1 DEF PackOk
    <2>2. CASE ~files[f].bad
      <3>1. chunkers'[c].pc = "append" /\ chunkers[c].pc = "idle"
        BY <1>1, <1>3, <2>2
      <3>2. \A d \in Threads : chunkers'[d].pc # "retire" <=> chunkers[d].pc # "retire"
        BY <1>3, <3>1
      <3>3. \A d \in Helpers(f) : d \in Threads
        BY DEF Helpers
      <3>4. Pending(f)' = Pending(f)
        BY <1>6, <3>2, <3>3 DEF Pending
      <3>5. \A d \in Threads : chunkers'[d].bad = chunkers[d].bad
        BY <1>3, <1>4
      <3>6. Hit(f)' <=> Hit(f)
        BY <1>1, <1>6, <3>3, <3>5 DEF Hit
      <3> QED BY <1>1, <3>4, <3>6 DEF PackOk
    <2> QED BY <2>1, <2>2
  <1> QED BY <1>1, <1>2, <1>3, <1>6, <1>7, ChunkPack

\* A chunk that could not be put away is a hit.
LEMMA AppendFailsPack ==
  ASSUME ImageInv, Good, \A g \in Threads : PackOk(g), NEW c \in Threads, AppendFails(c)
  PROVE  \A g \in Threads : PackOk(g)'
  <1>1. UNCHANGED files /\ chunkers[c].pc = "append" /\ ~Idle(chunkers[c])
    BY DEF AppendFails, Idle
  <1>2. PICK f \in Threads : f = chunkers[c].owner
    BY <1>1, HelperWhere
  <1>3. /\ \A d \in Threads \ {c} : chunkers'[d] = chunkers[d]
        /\ DOMAIN chunkers' = Threads
        /\ DOMAIN chunkers'[c] = {"pc", "has", "owner", "chunk", "bad"}
        /\ chunkers'[c].owner = chunkers[c].owner /\ chunkers'[c].pc = "retire"
    BY ChunkRecord DEF AppendFails
  <1>4. chunkers'[c].bad = TRUE
    BY ChunkRecord DEF AppendFails
  <1>5. ~Idle(chunkers'[c])
    BY <1>3 DEF Idle
  <1>6. \A g : Helpers(g)' = Helpers(g)
    <2>1. ASSUME NEW g
          PROVE  Helpers(g)' = Helpers(g)
      <3>1. \A d \in Threads :
              ~Idle(chunkers'[d]) /\ chunkers'[d].owner = g
                <=> ~Idle(chunkers[d]) /\ chunkers[d].owner = g
        BY <1>1, <1>3, <1>5
      <3> QED BY <3>1 DEF Helpers
    <2> QED BY <2>1
  <1>7. PackOk(f)'
    <2>1. c \in Helpers(f)'
      BY <1>2, <1>3, <1>5 DEF Helpers
    <2>2. Hit(f)'
      BY <1>4, <2>1 DEF Hit
    <2>3. files[f].pc = "split" /\ ~Idle(files[f])
      BY <1>1, <1>2, HelperWhere DEF Idle
    <2> QED BY <1>1, <2>2, <2>3 DEF PackOk
  <1> QED BY <1>1, <1>2, <1>3, <1>6, <1>7, ChunkPack

\* One chunk more is put away, at the end of one of the two files.
LEMMA AddedChunk ==
  ASSUME NEW t, FileLike(t), PackLike(t), NEW k, NEW cell
  PROVE  /\ PackLike(AddChunk(t, k, cell))
         /\ AddChunk(t, k, cell).raw + Len(AddChunk(t, k, cell).pack)
              = (t.raw + Len(t.pack)) + 1
  <1>1. t.raw \in Nat /\ IsSeq(t.pack) /\ Len(t.pack) \in Nat
    BY SeqLen DEF PackLike
  <1>2. CASE Incompressible(cell)
    <2>1. AddChunk(t, k, cell).raw = t.raw + 1 /\ AddChunk(t, k, cell).pack = t.pack
      BY <1>2 DEF AddChunk, FileLike
    <2> HIDE DEF AddChunk
    <2> QED BY <1>1, <2>1 DEF PackLike
  <1>3. CASE ~Incompressible(cell)
    <2>1. AddChunk(t, k, cell).raw = t.raw /\ AddChunk(t, k, cell).pack = Append(t.pack, cell)
      BY <1>3 DEF AddChunk, FileLike
    <2>2. IsSeq(Append(t.pack, cell)) /\ Len(Append(t.pack, cell)) = Len(t.pack) + 1
      <3>1. PICK S : t.pack \in Seq(S)
        BY <1>1 DEF IsSeq
      <3>2. t.pack \in Seq(S \cup {cell})
        BY <3>1
      <3> QED BY <1>1, <3>2, SeqAppend
    <2> QED BY <1>1, <2>1, <2>2 DEF PackLike
  <1> QED BY <1>2, <1>3

LEMMA OneLess ==
  ASSUME NEW s \in Nat, NEW n \in Nat, NEW m, NEW k \in Nat, s + n = k - 1, m = n - 1
  PROVE  (s + 1) + m = k - 1
  OBVIOUS

\* A chunk is put away: there is one less to be.
LEMMA AppendChunkPack ==
  ASSUME ImageInv, Good, \A g \in Threads : PackLike(files[g]) /\ PackOk(g),
         NEW c \in Threads, AppendChunk(c)
  PROVE  \A g \in Threads : PackOk(g)'
  <1>1. chunkers[c].pc = "append" /\ ~Idle(chunkers[c])
    BY DEF AppendChunk, Idle
  <1>2. PICK f \in Threads : f = chunkers[c].owner
    BY <1>1, HelperWhere
  <1>3. files[f].pc = "split" /\ ~Idle(files[f])
    BY <1>1, <1>2, HelperWhere DEF Idle
  <1>4. PICK k, cell : files' = [files EXCEPT ![f] = AddChunk(@, k, cell)]
    BY <1>2 DEF AppendChunk
  <1>5. /\ \A g \in Threads \ {f} : files'[g] = files[g]
        /\ files'[f] = AddChunk(files[f], k, cell)
    BY <1>4, FileRecord
  <1>6. /\ files'[f].pc = "split" /\ files'[f].job = files[f].job
        /\ files'[f].k = files[f].k /\ files'[f].bad = files[f].bad
    BY <1>3, <1>5, FileRecord DEF AddChunk, FileNames
  <1>7. files'[f].raw + Len(files'[f].pack) = (files[f].raw + Len(files[f].pack)) + 1
    BY <1>5, AddedChunk DEF ImageInv, FilesOk
  <1>8. /\ \A d \in Threads \ {c} : chunkers'[d] = chunkers[d]
        /\ DOMAIN chunkers' = Threads
        /\ DOMAIN chunkers'[c] = {"pc", "has", "owner", "chunk", "bad"}
        /\ chunkers'[c].owner = chunkers[c].owner /\ chunkers'[c].pc = "retire"
        /\ chunkers'[c].bad = chunkers[c].bad
    BY ChunkRecord DEF AppendChunk
  <1>9. ~Idle(chunkers'[c])
    BY <1>8 DEF Idle
  <1>10. \A g : Helpers(g)' = Helpers(g)
    <2>1. ASSUME NEW g
          PROVE  Helpers(g)' = Helpers(g)
      <3>1. \A d \in Threads :
              ~Idle(chunkers'[d]) /\ chunkers'[d].owner = g
                <=> ~Idle(chunkers[d]) /\ chunkers[d].owner = g
        BY <1>1, <1>8, <1>9
      <3> QED BY <3>1 DEF Helpers
    <2> QED BY <2>1
  <1>11. c \in Pending(f) /\ Pending(f)' = Pending(f) \ {c}
    <2>1. c \in Helpers(f)
      BY <1>1, <1>2 DEF Helpers
    <2>2. \A d \in Helpers(f) : d # c => chunkers'[d] = chunkers[d]
      BY <1>8 DEF Helpers
    <2> QED BY <1>1, <1>8, <1>10, <2>1, <2>2 DEF Pending
  <1>12. Hit(f)' <=> Hit(f)
    <2>1. \A d \in Helpers(f) : chunkers'[d].bad = chunkers[d].bad
      BY <1>8 DEF Helpers
    <2> QED BY <1>6, <1>10, <2>1 DEF Hit
  <1>13. Cardinality(Pending(f)') = Cardinality(Pending(f)) - 1 /\ Cardinality(Pending(f)) \in Nat
    <2>1. IsFiniteSet(Pending(f)) /\ Cardinality(Pending(f)) \in Nat
      <3>1. Pending(f) \subseteq Helpers(f)
        BY DEF Pending
      <3> QED BY <3>1, ThreadsFinite, FS_Subset, FS_CardinalityType
    <2>2. Cardinality(Pending(f) \ {c}) = Cardinality(Pending(f)) - 1
      BY <1>11, <2>1, FS_RemoveElement
    <2> QED BY <1>11, <2>1, <2>2, Zenon
  <1>14. PackOk(f)'
    <2> DEFINE s == files[f].raw + Len(files[f].pack)
               n == Cardinality(Pending(f))
               m == Cardinality(Pending(f)')
               t == files'[f].raw + Len(files'[f].pack)
    <2>1. s \in Nat /\ n \in Nat /\ files[f].k \in Nat /\ m = n - 1 /\ t = s + 1
      BY <1>7, <1>13, SeqLen, FileRecord DEF PackLike, WorkLike
    <2>2. ~Hit(f) => s + n = files[f].k - 1
      BY <1>3 DEF PackOk
    <2>3. ~Hit(f)' => t + m = files'[f].k - 1
      <3> HIDE DEF s, n, m, t
      <3>1. CASE ~Hit(f)'
        <4>1. s + n = files[f].k - 1
          BY <1>12, <2>2, <3>1
        <4>2. (s + 1) + m = files[f].k - 1
          BY <2>1, <4>1, OneLess
        <4> QED BY <1>6, <2>1, <4>2
      <3> QED BY <3>1
    <2>4. Len(files[f].job.cells) > 0
      BY <1>3 DEF PackOk
    <2> QED BY <1>6, <2>3, <2>4 DEF PackOk
  <1> QED BY <1>2, <1>5, <1>8, <1>10, <1>14, ChunkPack

\* A chunk that is put away is counted out, with its error.
LEMMA RetireChunkPack ==
  ASSUME ImageInv, Good, \A g \in Threads : PackOk(g), NEW c \in Threads, RetireChunk(c)
  PROVE  \A g \in Threads : PackOk(g)'
  <1>1. chunkers[c].pc = "retire" /\ ~Idle(chunkers[c])
    BY DEF RetireChunk, Idle
  <1>2. PICK f \in Threads : f = chunkers[c].owner
    BY <1>1, HelperWhere
  <1>3. files[f].pc = "split" /\ ~Idle(files[f])
    BY <1>1, <1>2, HelperWhere DEF Idle
  <1>4. /\ \A g \in Threads \ {f} : files'[g] = files[g]
        /\ files'[f] = CountChunk(files[f], chunkers[c].bad)
    BY <1>2, FileRecord DEF RetireChunk
  <1>5. /\ files'[f].pc = "split" /\ files'[f].job = files[f].job
        /\ files'[f].k = files[f].k
        /\ files'[f].raw = files[f].raw /\ files'[f].pack = files[f].pack
    BY <1>3, <1>4, FileRecord DEF CountChunk, FileNames
  <1>6. files'[f].bad = (files[f].bad \/ chunkers[c].bad)
    BY <1>4, FileRecord, Zenon DEF CountChunk, FileNames
  <1>7. /\ \A d \in Threads \ {c} : chunkers'[d] = chunkers[d]
        /\ DOMAIN chunkers' = Threads
        /\ chunkers'[c] = NewChunker
    BY ChunkRecord DEF RetireChunk
  <1>8. Idle(chunkers'[c])
    BY <1>7 DEF NewChunker, Idle
  <1>9. \A g \in Threads \ {f} : Helpers(g)' = Helpers(g)
    <2>1. ASSUME NEW g \in Threads \ {f}
          PROVE  Helpers(g)' = Helpers(g)
      <3>1. \A d \in Threads :
              ~Idle(chunkers'[d]) /\ chunkers'[d].owner = g
                <=> ~Idle(chunkers[d]) /\ chunkers[d].owner = g
        BY <1>2, <1>7, <1>8
      <3> QED BY <3>1 DEF Helpers
    <2> QED BY <2>1
  <1>10. Helpers(f)' = Helpers(f) \ {c} /\ c \in Helpers(f)
    <2>1. \A d \in Threads :
            ~Idle(chunkers'[d]) /\ chunkers'[d].owner = f
              <=> (~Idle(chunkers[d]) /\ chunkers[d].owner = f) /\ d # c
      BY <1>7, <1>8
    <2> QED BY <1>1, <1>2, <2>1 DEF Helpers
  <1>11. \A d \in Helpers(f) : d # c => chunkers'[d] = chunkers[d]
    BY <1>7 DEF Helpers
  <1>12. Pending(f)' = Pending(f)
    BY <1>1, <1>10, <1>11 DEF Pending
  <1>13. Hit(f) => Hit(f)'
    BY <1>6, <1>10, <1>11 DEF Hit
  <1>14. PackOk(f)'
    BY <1>3, <1>5, <1>12, <1>13 DEF PackOk
  <1> QED BY <1>2, <1>4, <1>7, <1>9, <1>14, ChunkPack

\* The two temporary files are what they are, whatever happens.
LEMMA OneLike ==
  ASSUME ImageInv, \A g \in Threads : PackLike(files[g]), NEW h, NEW x,
         files' = [files EXCEPT ![h] = x], h \in Threads => PackLike(x)
  PROVE  \A g \in Threads : PackLike(files'[g])
  BY DEF ImageInv, FilesOk

LEMMA FileFields ==
  ASSUME ImageInv, NEW f \in Threads
  PROVE  DOMAIN files = Threads /\ DOMAIN files[f] = FileNames /\ FileLike(files[f])
  BY DEF ImageInv, FilesOk, FileLike, FileNames

LEMMA FileLikes ==
  ASSUME ImageInv, \A g \in Threads : PackLike(files[g]), NEW f \in Threads,
         FileStep(f) \/ SplitFails(f) \/ Writes(f)
  PROVE  \A g \in Threads : PackLike(files'[g])
  <1>1. \A pc : FileGo(f, pc) => \A g \in Threads : PackLike(files'[g])
    BY FileFields DEF FileGo, PackLike, FileNames
  <1>2. CASE \E pc : FileGo(f, pc)
    BY <1>1, <1>2
  <1>3. CASE \E pc, v : \/ files' = [files EXCEPT ![f].has = v, ![f].pc = pc]
                        \/ files' = [files EXCEPT ![f].pc = pc, ![f].left = v]
                        \/ files' = [files EXCEPT ![f].pc = pc, ![f].bad = v]
                        \/ files' = [files EXCEPT ![f].pc = pc, ![f].fork = v]
                        \/ files' = [files EXCEPT ![f].k = v]
    BY <1>3, FileFields DEF PackLike, FileNames
  <1>4. CASE files' = [files EXCEPT ![f] = NewFile]
    <2>1. PackLike(NewFile)
      BY SeqEmpty DEF NewFile, PackLike
    <2> QED BY <1>4, <2>1, OneLike
  <1>5. CASE TakeJob(f) \/ SplitChunk(f) \/ FinishJob(f)
    BY <1>3, <1>4, <1>5 DEF TakeJob, SplitChunk, FinishJob
  <1>6. CASE Look(f)
    BY <1>2, <1>3, <1>6 DEF Look, LookAt
  <1>7. CASE ChunksDone(f) \/ MarkRecord(f)
    BY <1>2, <1>7 DEF ChunksDone, MarkRecord
  <1>8. CASE Writes(f)
    <2>1. CASE FileFails(f)
      BY <1>3, <2>1 DEF FileFails
    <2>2. ASSUME NEW fork, FileStored(f, fork)
          PROVE  \A g \in Threads : PackLike(files'[g])
      BY <1>3, <2>2 DEF FileStored
    <2> QED BY <1>8, <2>1, <2>2, WriteEnds
  <1>9. CASE SplitFails(f)
    BY <1>2, <1>3, <1>9 DEF SplitFails
  <1> QED BY <1>5, <1>6, <1>7, <1>8, <1>9 DEF FileStep, Writes

LEMMA ChunkLikes ==
  ASSUME ImageInv, \A g \in Threads : PackLike(files[g]), NEW c, ChunkStep(c) \/ AppendFails(c)
  PROVE  \A g \in Threads : PackLike(files'[g])
  <1>1. CASE TakeChunk(c) \/ AppendFails(c)
    BY <1>1 DEF TakeChunk, AppendFails
  <1>2. CASE AppendChunk(c)
    <2>1. PICK h, k, cell : files' = [files EXCEPT ![h] = AddChunk(files[h], k, cell)]
      BY <1>2 DEF AppendChunk
    <2>2. h \in Threads => PackLike(AddChunk(files[h], k, cell))
      BY AddedChunk, FileFields
    <2> QED BY <2>1, <2>2, OneLike
  <1>3. CASE RetireChunk(c)
    <2>1. PICK h, bad : files' = [files EXCEPT ![h] = CountChunk(files[h], bad)]
      BY <1>3 DEF RetireChunk
    <2>2. h \in Threads => PackLike(CountChunk(files[h], bad))
      BY FileFields DEF CountChunk, PackLike, FileNames
    <2> QED BY <2>1, <2>2, OneLike
  <1> QED BY <1>1, <1>2, <1>3 DEF ChunkStep

LEMMA MainLikes ==
  ASSUME ImageInv, \A g \in Threads : PackLike(files[g]), MainStep \/ CopyFails
  PROVE  \A g \in Threads : PackLike(files'[g])
  <1>1. CASE \E job : Dispatch(job)
    <2>1. PICK h, job : files' = [files EXCEPT ![h].has = TRUE, ![h].job = job]
      BY <1>1 DEF Dispatch
    <2>2. files' = [files EXCEPT ![h] = [files[h] EXCEPT !.has = TRUE, !.job = job]]
      BY <2>1, FileFields
    <2>3. h \in Threads => PackLike([files[h] EXCEPT !.has = TRUE, !.job = job])
      BY FileFields DEF PackLike, FileNames
    <2> QED BY <2>2, <2>3, OneLike
  <1>2. CASE UNCHANGED files
    BY <1>2
  <1>3. UNCHANGED files \/ \E job : Dispatch(job)
    BY DEF MainStep, CopyFails, ReadList, InsertMetadata, InsertHlinksMetadata, AllocateFixedArea,
           FixedAreasDone, TuneFile, TuneFolder, CompressDirEntry, CompressDirDone, TuneDone,
           InsertData, InsertDataDone, InsertHlinkData, InsertHlinksDone, SkipBox, SendBox,
           BoxSent, CopyBox, BoxesDone, PlaceSubsystem, PlacePreallocation, Flush,
           StopThread, EndMkfs, pools
  <1> QED BY <1>1, <1>2, <1>3

--------------------------------------------------------------------------------
\* A small file makes its container hold something.
LEMMA PackFills ==
  ASSUME ImageInv, BoxesFull, NEW class, NEW e, NEW obj, CopyToBox(class, e, obj)
  PROVE  BoxesFull'
  <1> DEFINE box == OpenBox(class)
             at == BoxOffset(box, e, TwinOf(box, e))
  <1>1. boxes' = [boxes EXCEPT ![class] = FillBox(box, e, at)]
    BY DEF CopyToBox, PackInto
  <1>2. SUFFICES ASSUME class \in DOMAIN boxes
                 PROVE  Len(FillBox(box, e, at).cells) > 0
    BY <1>1 DEF BoxesFull
  <1>3. BoxLike(boxes[class])
    BY <1>2 DEF ImageInv, BoxesOk
  <1>4. BoxLike(NoBox)
    BY SeqEmpty DEF NoBox, BoxLike
  <1>5. BoxLike(box)
    BY <1>3, <1>4 DEF OpenBox, BoxLike
  <1>6. Len(Append(box.cells, <<e.data, 1>>)) > 0
    <2>1. PICK S : box.cells \in Seq(S)
      BY <1>5 DEF BoxLike, IsSeq
    <2>2. box.cells \in Seq(S \cup {<<e.data, 1>>})
      BY <2>1
    <2> HIDE DEF box
    <2> QED BY <2>2
  <1>7. at < Len(box.cells) => Len(box.cells) > 0
    <2>1. CASE boxes[class].ino # 0
      BY <1>2, <2>1 DEF OpenBox, BoxesFull
    <2>2. CASE boxes[class].ino = 0
      <3>1. box.cells = <<>> /\ box.ranges = <<>>
        BY <2>2 DEF OpenBox, NoBox
      <3> HIDE DEF box
      <3>2. TwinOf(box, e) = -1
        BY <3>1 DEF TwinOf, SelectInSeq
      <3>3. at = Len(box.cells)
        BY <3>2 DEF BoxOffset
      <3> QED BY <3>1, <3>3
    <2> QED BY <2>1, <2>2
  <1> HIDE DEF box, at
  <1>8. \/ FillBox(box, e, at).cells = box.cells /\ at < Len(box.cells)
        \/ FillBox(box, e, at).cells = Append(box.cells, <<e.data, 1>>)
    BY <1>5 DEF FillBox, BoxLike
  <1> QED BY <1>6, <1>7, <1>8

LEMMA BoxesFullStep ==
  ASSUME ImageInv, BoxesFull, [Next]_vars
  PROVE  BoxesFull'
  <1>1. CASE UNCHANGED boxes
    BY <1>1 DEF BoxesFull
  <1>2. CASE \E class, e, obj : CopyToBox(class, e, obj)
    BY <1>2, PackFills
  <1>3. CASE MainStep \/ CopyFails
    <2>1. \A e, obj : CopyObject(e, obj) =>
            UNCHANGED boxes \/ \E class : CopyToBox(class, e, obj)
      BY DEF CopyObject
    <2>2. CASE InsertData \/ InsertHlinkData
      BY <1>1, <1>2, <2>1, <2>2 DEF InsertData, InsertHlinkData
    <2>3. UNCHANGED boxes \/ InsertData \/ InsertHlinkData
      BY <1>3 DEF MainStep, CopyFails, ReadList, InsertMetadata, InsertHlinksMetadata,
           AllocateFixedArea,
           FixedAreasDone, TuneFile, TuneFolder, CompressDirEntry, CompressDirDone, TuneDone,
           InsertDataDone, InsertHlinksDone, SkipBox, SendBox,
           BoxSent, CopyBox, BoxesDone, PlaceSubsystem, PlacePreallocation, Flush,
           StopThread, EndMkfs
    <2> QED BY <1>1, <2>2, <2>3
  <1>4. ASSUME NEW t \in Threads, FileStep(t) \/ ChunkStep(t) \/ SplitFails(t) \/ AppendFails(t)
        PROVE  UNCHANGED boxes
    BY <1>4 DEF FileStep, TakeJob, Look, SplitChunk, ChunksDone, WriteImage, MarkRecord, FinishJob,
                ChunkStep, TakeChunk, AppendChunk, RetireChunk, AppendFails, SplitFails
  <1>5. CASE UnpackNext \/ UNCHANGED vars
    BY <1>1, <1>5, UnpackMadeStays DEF mkfsVars
  <1>6. ASSUME NEW t \in Threads, Writes(t)
        PROVE  UNCHANGED boxes
    BY <1>6, WritesAre
  <1> QED BY <1>1, <1>3, <1>4, <1>5, <1>6 DEF Next, MkfsNext, Mishap, Writes

--------------------------------------------------------------------------------
\* Content is as long as the file.
LEMMA ContentLen ==
  ASSUME NEW e, e.cells \in Nat
  PROVE  Len(Content(e)) = e.cells
  <1>1. DOMAIN Content(e) = 1 .. e.cells
    BY DEF Content
  <1>2. Len(Content(e)) \in Nat /\ DOMAIN Content(e) = 1 .. Len(Content(e))
    BY ContentSeq, SeqLen
  <1> HIDE DEF Content
  <1> QED BY <1>1, <1>2

LEMMA EntryFound ==
  ASSUME plan \in Plans, NEW path \in Paths(plan)
  PROVE  \E i \in DOMAIN plan.entries : EntryOf(path) = plan.entries[i] /\ plan.entries[i].path = path
  <1>1. \E i \in DOMAIN plan.entries : plan.entries[i].path = path
    BY DEF Paths
  <1> QED BY <1>1 DEF EntryOf

\* What main gives to threads is never empty.
LEMMA GivenFull ==
  ASSUME ImageInv, BoxesFull, TuneFile \/ CompressDirEntry \/ SendBox
  PROVE  UNCHANGED pools
         \/ (UNCHANGED chunkers /\ \E job : Dispatch(job) /\ Len(job.cells) > 0)
  <1>1. plan \in Plans /\ MainOk
    BY DEF ImageInv
  <1>2. CASE TuneFile
    <2>1. Task.path \in Paths(plan)
      BY <1>1, <1>2, TaskKnown DEF TuneFile, At, MainOk
    <2>2. EntryOf(Task.path).cells \in Nat
      BY <1>1, <2>1, EntryFound, EntryIsEntry
    <2>3. CASE EntryOf(Task.path).cells = 0
      BY <1>2, <2>3 DEF TuneFile
    <2>4. CASE EntryOf(Task.path).cells # 0
      <3>1. Len(PathJob("tune", Task.path, Task.cmd).cells) > 0
        BY <2>2, <2>4, ContentLen DEF PathJob, Job
      <3> QED BY <1>2, <2>4, <3>1 DEF TuneFile
    <2> QED BY <2>3, <2>4
  <1>3. CASE CompressDirEntry
    <2>1. CASE Member.dir = Task.path /\ Compressible(Member)
      <3>1. main.j \in DOMAIN plan.entries
        <4>1. plan.entries \in Seq(Range(plan.entries))
          BY <1>1, PlanAssumption
        <4> QED BY <1>1, <1>3, <4>1 DEF CompressDirEntry, MainOk
      <3>2. Member.path \in Paths(plan) /\ Member.cells \in Nat
        BY <1>1, <3>1, EntryIsEntry DEF Member
      <3>3. EntryOf(Member.path) = Member
        <4>1. PICK i \in DOMAIN plan.entries :
                EntryOf(Member.path) = plan.entries[i] /\ plan.entries[i].path = Member.path
          BY <1>1, <3>2, EntryFound
        <4>2. i = main.j
          BY <1>1, <3>1, <4>1, PlanAssumption DEF Member
        <4> QED BY <4>1, <4>2 DEF Member
      <3>4. Member.cells > 0
        BY <2>1 DEF Compressible
      <3>5. Len(PathJob("folder", Member.path, Task.cmd).cells) > 0
        BY <3>2, <3>3, <3>4, ContentLen DEF PathJob, Job
      <3> QED BY <1>3, <2>1, <3>5 DEF CompressDirEntry
    <2>2. CASE ~(Member.dir = Task.path /\ Compressible(Member))
      BY <1>3, <2>2 DEF CompressDirEntry
    <2> QED BY <2>1, <2>2
  <1>4. CASE SendBox
    <2>1. BoxOrder[main.i] \in DOMAIN boxes
      <3>1. Len(BoxOrder) = 5 /\ DOMAIN BoxOrder = 1 .. 5
        BY DEF BoxOrder
      <3>2. main.i \in DOMAIN BoxOrder
        <4>1. main.i <= Len(BoxOrder)
          BY <1>4 DEF SendBox, At
        <4> QED BY <1>1, <3>1, <4>1 DEF MainOk
      <3>3. BoxOrder[main.i] \in Range(BoxOrder)
        BY <3>2 DEF Range
      <3> QED BY <3>3 DEF ImageInv, BoxesOk
    <2>2. Len(Box.cells) > 0
      BY <1>4, <2>1 DEF SendBox, BoxesFull, Box
    <2>3. Len(Job("dlinks", "", Box.ino, BoxCmd[BoxOrder[main.i]], Box.cells).cells) > 0
      BY <2>2 DEF Job
    <2> QED BY <1>4, <2>3 DEF SendBox
  <1> QED BY <1>2, <1>3, <1>4

LEMMA PoolsRest ==
  ASSUME \A f \in Threads : PackOk(f), UNCHANGED <<files, chunkers>>
  PROVE  \A f \in Threads : PackOk(f)'
  BY DEF PackOk, Hit, Pending, Helpers

LEMMA PackInvStep ==
  ASSUME ImageInv, VerdictInv, PackInv, [Next]_vars
  PROVE  PackInv'
  <1>1. \A g \in Threads : PackLike(files'[g])
    <2>1. CASE UnpackNext \/ UNCHANGED vars
      BY <2>1, UnpackMadeStays DEF mkfsVars, PackInv
    <2> QED BY <2>1, MainLikes, FileLikes, ChunkLikes DEF PackInv, Next, MkfsNext, Mishap, Writes
  <1>2. BoxesFull'
    BY BoxesFullStep DEF PackInv
  <1>3. CASE main.at = "undefined"
    BY <1>1, <1>2, <1>3, UndefinedStays DEF PackInv
  <1>4. CASE main.at # "undefined"
    <2>1. Good /\ \A f \in Threads : PackLike(files[f]) /\ PackOk(f)
      BY <1>4 DEF VerdictInv, PackInv
    <2>2. CASE MainStep \/ CopyFails
      <3>1. CASE TuneFile \/ CompressDirEntry \/ SendBox
        <4>1. CASE UNCHANGED pools
          BY <1>1, <1>2, <2>1, <4>1, PoolsRest DEF PackInv, pools
        <4>2. CASE UNCHANGED chunkers /\ \E job : Dispatch(job) /\ Len(job.cells) > 0
          BY <1>1, <1>2, <2>1, <4>2, DispatchPack DEF PackInv
        <4> QED BY <3>1, <4>1, <4>2, GivenFull DEF PackInv
      <3>2. CASE UNCHANGED pools
        BY <1>1, <1>2, <2>1, <3>2, PoolsRest DEF PackInv, pools
      <3>3. UNCHANGED pools \/ TuneFile \/ CompressDirEntry \/ SendBox
        BY <2>2 DEF MainStep, CopyFails, ReadList, InsertMetadata, InsertHlinksMetadata,
           AllocateFixedArea, FixedAreasDone, TuneFolder, CompressDirDone, TuneDone,
           InsertData, InsertDataDone, InsertHlinkData, InsertHlinksDone, SkipBox,
           BoxSent, CopyBox, BoxesDone, PlaceSubsystem, PlacePreallocation, Flush,
           StopThread, EndMkfs
      <3> QED BY <3>1, <3>2, <3>3
    <2>3. ASSUME NEW t \in Threads,
                 FileStep(t) \/ ChunkStep(t) \/ SplitFails(t) \/ AppendFails(t) \/ Writes(t)
          PROVE  main'.at = "undefined" \/ \A g \in Threads : PackOk(g)'
      BY <2>1, <2>3, TakeJobPack, SplitPack, DonePack, TakeChunkPack, AppendChunkPack,
         AppendFailsPack, RetireChunkPack DEF FileStep, ChunkStep, Writes
    <2>4. CASE UnpackNext \/ UNCHANGED vars
      BY <1>1, <1>2, <2>1, <2>4, UnpackMadeStays, PoolsRest DEF mkfsVars, PackInv
    <2> QED BY <1>1, <1>2, <2>2, <2>3, <2>4 DEF Next, MkfsNext, Mishap, PackInv, Writes
  <1> QED BY <1>3, <1>4

LEMMA PackInvInit ==
  ASSUME Init
  PROVE  PackInv
  <1>1. MkfsInit
    BY DEF Init
  <1>2. \A f \in Threads : files[f] = NewFile
    BY <1>1 DEF MkfsInit
  <1>3. /\ NewFile.pc = "idle" /\ NewFile.raw = 0 /\ NewFile.pack = <<>>
        /\ Len(NewFile.pack) = 0 /\ Idle(NewFile)
    BY DEF NewFile, Idle
  <1>4. \A f \in Threads : PackLike(files[f]) /\ PackOk(f)
    <2>1. PackLike(NewFile)
      BY <1>3, SeqEmpty DEF PackLike
    <2>2. ASSUME NEW f \in Threads
          PROVE  PackOk(f)
      <3>1. files[f] = NewFile
        BY <1>2
      <3> QED BY <1>3, <3>1 DEF PackOk
    <2> QED BY <1>2, <2>1, <2>2
  <1>5. BoxesFull
    BY <1>1 DEF MkfsInit, BoxesFull, NoBox
  <1> QED BY <1>4, <1>5 DEF PackInv

--------------------------------------------------------------------------------
(* Where main comes from, and what stays wrong.                            *)

\* Main is making the image: the phases before and while it writes.
Later == Filling \cup {"place", "flush"}
Making == Early \cup Later

LEMMA ThreadsAlone ==
  ASSUME NEW t, FileStep(t) \/ ChunkStep(t) \/ AppendFails(t) \/ Writes(t)
  PROVE  main' = main
  BY WritesAre
     DEF FileStep, TakeJob, Look, SplitChunk, ChunksDone, WriteImage, MarkRecord, FinishJob,
         ChunkStep, TakeChunk, AppendChunk, RetireChunk, AppendFails

LEMMA MakingFrom ==
  ASSUME ImageInv, [Next]_vars, main'.at \in Making
  PROVE  main.at \in Making
  <1>1. CASE StopThread \/ EndMkfs
    <2>1. main'.at \in {"exit", "stuck", "failed", "done"}
      BY <1>1, Moved DEF StopThread, EndMkfs, At, Past
    <2> QED BY <2>1 DEF Making, Early, Later, Filling
  <1>2. CASE MainStep /\ ~StopThread /\ ~EndMkfs
    BY <1>2 DEF MainStep, ReadList, InsertMetadata, InsertHlinksMetadata, AllocateFixedArea,
                FixedAreasDone, TuneFile, TuneFolder, CompressDirEntry, CompressDirDone, TuneDone,
                InsertData, InsertDataDone, InsertHlinkData, InsertHlinksDone, SkipBox, SendBox,
                BoxSent, CopyBox, BoxesDone, PlaceSubsystem, PlacePreallocation, Flush,
                At, Past, Making, Early, Later, Filling
  <1>3. CASE CopyFails
    BY <1>3 DEF CopyFails, Making, Early, Later, Filling
  <1>4. ASSUME NEW t \in Threads, SplitFails(t)
        PROVE  main'.at = main.at \/ main'.at = "undefined"
    BY <1>4, Moved DEF SplitFails
  <1>5. ASSUME NEW t \in Threads, FileStep(t) \/ ChunkStep(t) \/ AppendFails(t) \/ Writes(t)
        PROVE  main' = main
    BY <1>5, ThreadsAlone
  <1>6. CASE UnpackNext \/ UNCHANGED vars
    BY <1>6, UnpackMadeStays DEF mkfsVars
  <1> QED BY <1>1, <1>2, <1>3, <1>4, <1>5, <1>6
          DEF Next, MkfsNext, Mishap, Writes, Making, Early, Later, Filling

\* What becomes undefined did so while the image was being filled.
LEMMA UndefinedFrom ==
  ASSUME ImageInv, VerdictInv, [Next]_vars, main'.at = "undefined"
  PROVE  main.at \in Filling \cup {"undefined"}
  <1>1. CASE main.at = "undefined"
    BY <1>1
  <1>2. CASE main.at # "undefined"
    <2>1. ASSUME NEW t \in Threads, SplitFails(t)
          PROVE  main.at \in Filling
      <3>1. ~Idle(files[t])
        BY <2>1 DEF SplitFails, Idle
      <3> QED BY <1>2, <3>1, BusyWhere DEF VerdictInv, Filling
    <2>2. CASE MainStep
      <3>1. CASE CompressDirDone \/ TuneDone
        BY <3>1 DEF CompressDirDone, TuneDone, Past, Filling
      <3>2. CASE CopyObject(Entry, RecordOf(Entry.path).obj)
                   \/ \E e, obj : CopyObject(e, obj)
        <4>1. main'.at \in {main.at, "exit"}
          BY <3>2, Moved DEF CopyObject, CopyFile, Copied, ImageInv, MainOk
        <4> QED BY <1>2, <4>1
      <3>3. CASE \E at : Goto(at) /\ at # "undefined"
        BY <3>3, Moved
      <3>4. CASE Advance \/ FailWith \/ UNCHANGED main
        BY <1>2, <3>4, Moved
      <3>5. CASE \E at, j : main' = [main EXCEPT !.at = at, !.j = j] /\ at # "undefined"
        BY <3>5 DEF ImageInv, MainOk
      <3>6. CASE main' = [main EXCEPT !.at = "box"]
        BY <3>6 DEF ImageInv, MainOk
      <3>7. CASE main' = [main EXCEPT !.at = "boxes", !.i = @ + 1]
        BY <3>7 DEF ImageInv, MainOk
      <3>8. CASE \E j : main' = [main EXCEPT !.j = j]
        BY <1>2, <3>8 DEF ImageInv, MainOk
      <3>9. CASE ReadList \/ InsertMetadata \/ InsertHlinksMetadata \/ AllocateFixedArea
                   \/ FixedAreasDone
        BY <3>3, <3>4, <3>9 DEF ReadList, InsertMetadata, InsertHlinksMetadata,
                                AllocateFixedArea, FixedAreasDone
      <3>10. CASE TuneFile \/ TuneFolder \/ CompressDirEntry
        BY <3>4, <3>5, <3>8, <3>10 DEF TuneFile, TuneFolder, CompressDirEntry
      <3>11. CASE InsertData \/ InsertDataDone \/ InsertHlinkData \/ InsertHlinksDone
        BY <3>2, <3>3, <3>4, <3>11 DEF InsertData, InsertDataDone, InsertHlinkData, InsertHlinksDone
      <3>12. CASE SkipBox \/ SendBox \/ BoxSent \/ CopyBox \/ BoxesDone
        <4>1. CASE SkipBox \/ CopyBox
          BY <3>4, <4>1 DEF SkipBox, CopyBox
        <4>2. CASE SendBox \/ BoxSent
          BY <3>6, <3>7, <4>2 DEF SendBox, BoxSent
        <4>3. CASE BoxesDone
          BY <3>3, <3>4, <4>3 DEF BoxesDone
        <4> QED BY <3>12, <4>1, <4>2, <4>3
      <3>13. CASE PlaceSubsystem \/ PlacePreallocation \/ Flush \/ StopThread \/ EndMkfs
        BY <3>3, <3>4, <3>13 DEF PlaceSubsystem, PlacePreallocation, Flush, StopThread, EndMkfs
      <3> QED BY <2>2, <3>1, <3>9, <3>10, <3>11, <3>12, <3>13 DEF MainStep
    <2>3. CASE CopyFails
      BY <2>3, Moved DEF CopyFails
    <2>4. ASSUME NEW t \in Threads, FileStep(t) \/ ChunkStep(t) \/ AppendFails(t) \/ Writes(t)
          PROVE  main' = main
      BY <2>4, ThreadsAlone
    <2>5. CASE UnpackNext \/ UNCHANGED vars
      BY <1>2, <2>5, UnpackMadeStays DEF mkfsVars
    <2> QED BY <1>2, <2>1, <2>2, <2>3, <2>4, <2>5 DEF Next, MkfsNext, Mishap, Writes
  <1> QED BY <1>1, <1>2

LEMMA MainTrouble ==
  ASSUME ImageInv, Good, MainStep \/ CopyFails, ~main.error, Trouble
  PROVE  Trouble'
  <1>1. CASE UNCHANGED <<files, chunkers, frames>>
    BY <1>1 DEF Trouble
  <1>2. CASE UNCHANGED chunkers /\ \E job : Dispatch(job)
    <2>1. PICK job, h : /\ frames' = [frames EXCEPT ![job.frame].count = @ + 1]
                        /\ files' = [files EXCEPT ![h].has = TRUE, ![h].job = job]
      BY <1>2 DEF Dispatch
    <2>2. \A frame \in FrameNames : frames'[frame].error = frames[frame].error
      BY <2>1 DEF Good, FramesOk
    <2>3. \A f \in Threads : files'[f].bad = files[f].bad
      BY <2>1, FileRecord DEF FileNames
    <2> QED BY <1>2, <2>2, <2>3 DEF Trouble
  <1>3. UNCHANGED <<files, chunkers, frames>> \/ (UNCHANGED chunkers /\ \E job : Dispatch(job))
    BY DEF MainStep, CopyFails, ReadList, InsertMetadata, InsertHlinksMetadata, AllocateFixedArea,
           FixedAreasDone, TuneFile, TuneFolder, CompressDirEntry, CompressDirDone, TuneDone,
           InsertData, InsertDataDone, InsertHlinkData, InsertHlinksDone, SkipBox, SendBox,
           BoxSent, CopyBox, BoxesDone, PlaceSubsystem, PlacePreallocation, Flush,
           StopThread, EndMkfs, pools
  <1> QED BY <1>1, <1>2, <1>3

LEMMA FileTrouble ==
  ASSUME ImageInv, Good, NEW f \in Threads, FileStep(f) \/ Writes(f), Trouble
  PROVE  Trouble'
  <1>1. UNCHANGED main
    BY ThreadsAlone
  <1>2. CASE TakeJob(f) \/ Look(f) \/ ChunksDone(f) \/ MarkRecord(f) \/ Writes(f)
    <2>1. UNCHANGED <<chunkers, frames>>
      BY <1>2, WritesAre DEF TakeJob, Look, ChunksDone, MarkRecord
    <2>2. CASE \E pc, v : \/ files' = [files EXCEPT ![f].has = v, ![f].pc = pc]
                          \/ files' = [files EXCEPT ![f].pc = pc, ![f].left = v]
                          \/ files' = [files EXCEPT ![f].pc = pc, ![f].fork = v]
                          \/ files' = [files EXCEPT ![f].pc = pc]
      <3>1. \A g \in Threads : files'[g].bad = files[g].bad
        BY <2>2, FileRecord DEF FileNames
      <3> QED BY <1>1, <2>1, <3>1 DEF Trouble
    <2>3. CASE FileFails(f)
      <3>1. files'[f].bad = TRUE
        BY <2>3, FileRecord DEF FileNames, FileFails
      <3> QED BY <3>1 DEF Trouble
    <2>4. CASE TakeJob(f)
      BY <2>2, <2>4 DEF TakeJob
    <2>5. CASE Look(f)
      BY <2>2, <2>5 DEF Look, LookAt, FileGo
    <2>6. CASE ChunksDone(f) \/ MarkRecord(f)
      BY <2>2, <2>6 DEF ChunksDone, MarkRecord, FileGo
    <2>7. CASE Writes(f)
      BY <2>2, <2>3, <2>7, WriteEnds DEF FileStored
    <2> QED BY <1>2, <2>4, <2>5, <2>6, <2>7
  <1>3. CASE SplitChunk(f)
    <2>1. PICK c : chunkers' = [chunkers EXCEPT ![c] =
                     [@ EXCEPT !.has = TRUE, !.owner = f, !.chunk = files[f].k]]
      BY <1>3 DEF SplitChunk
    <2>2. \A d \in Threads : chunkers'[d].bad = chunkers[d].bad
      BY <2>1, ChunkRecord
    <2>3. files' = [files EXCEPT ![f].k = files[f].k + 1] /\ UNCHANGED frames
      BY <1>3 DEF SplitChunk
    <2>4. \A g \in Threads : files'[g].bad = files[g].bad
      BY <2>3, FileRecord DEF FileNames
    <2> QED BY <1>1, <2>2, <2>3, <2>4 DEF Trouble
  <1>4. CASE FinishJob(f)
    <2> DEFINE x == files[f].job.frame
    <2>1. /\ frames' = [frames EXCEPT ![x] = CountOut(@, files[f].bad)]
          /\ files' = [files EXCEPT ![f] = NewFile]
          /\ UNCHANGED chunkers
      BY <1>4 DEF FinishJob
    <2>2. x \in FrameNames
      BY FileRecord DEF WorkLike
    <2>3. \A g \in Threads \ {f} : files'[g] = files[g]
      BY <2>1, FileRecord
    <2>4. /\ \A frame \in FrameNames \ {x} : frames'[frame] = frames[frame]
          /\ frames'[x] = CountOut(frames[x], files[f].bad)
      BY <2>1, <2>2 DEF Good, FramesOk
    <2> HIDE DEF x
    <2>5. frames'[x].error = (frames[x].error \/ files[f].bad)
      <3>1. frames[x] \in [count : Nat, error : BOOLEAN]
        BY <2>2 DEF Good, FramesOk
      <3>2. frames'[x] = [count |-> frames[x].count - 1,
                          error |-> frames[x].error \/ files[f].bad]
        BY <2>4, <3>1 DEF CountOut
      <3> QED BY <3>2, CountedOut, Zenon
    <2>6. \A frame \in FrameNames : frames[frame].error => Trouble'
      <3>1. ASSUME NEW frame \in FrameNames, frames[frame].error
            PROVE  frames'[frame].error
        <4>1. CASE frame = x
          BY <2>4, <2>5, <3>1, <4>1
        <4>2. CASE frame # x
          BY <2>4, <3>1, <4>2
        <4> QED BY <4>1, <4>2
      <3> QED BY <3>1 DEF Trouble
    <2>7. \A g \in Threads : files[g].bad => Trouble'
      <3>1. files[f].bad => frames'[x].error
        BY <2>4, <2>5
      <3>2. files[f].bad => Trouble'
        BY <2>2, <3>1 DEF Trouble
      <3>3. \A g \in Threads \ {f} : files[g].bad => Trouble'
        BY <2>3 DEF Trouble
      <3> QED BY <3>2, <3>3
    <2>8. main.error => Trouble'
      BY <1>1 DEF Trouble
    <2>9. (\E c \in Threads : chunkers[c].bad) => Trouble'
      BY <2>1 DEF Trouble
    <2> QED BY <2>6, <2>7, <2>8, <2>9 DEF Trouble
  <1> QED BY <1>2, <1>3, <1>4 DEF FileStep, Writes

LEMMA ChunkTrouble ==
  ASSUME ImageInv, Good, NEW c \in Threads, ChunkStep(c) \/ AppendFails(c), Trouble
  PROVE  Trouble'
  <1>1. UNCHANGED <<main, frames>>
    BY DEF ChunkStep, TakeChunk, AppendChunk, RetireChunk, AppendFails
  <1>2. CASE AppendFails(c)
    <2>1. chunkers'[c].bad = TRUE
      BY <1>2, ChunkRecord DEF AppendFails
    <2> QED BY <2>1 DEF Trouble
  <1>3. CASE TakeChunk(c)
    <2>1. \A d \in Threads : chunkers'[d].bad = chunkers[d].bad
      BY <1>3, ChunkRecord DEF TakeChunk
    <2> QED BY <1>1, <1>3, <2>1 DEF TakeChunk, Trouble
  <1>4. CASE AppendChunk(c)
    <2>1. \A d \in Threads : chunkers'[d].bad = chunkers[d].bad
      BY <1>4, ChunkRecord DEF AppendChunk
    <2>2. PICK f, k, cell : files' = [files EXCEPT ![f] = AddChunk(@, k, cell)]
      BY <1>4 DEF AppendChunk
    <2>3. \A g \in Threads : AddChunk(files[g], k, cell).bad = files[g].bad
      BY FileRecord DEF AddChunk, FileNames
    <2>4. \A g \in Threads : files'[g].bad = files[g].bad
      BY <2>2, <2>3, FileRecord
    <2> QED BY <1>1, <2>1, <2>4 DEF Trouble
  <1>5. CASE RetireChunk(c)
    <2>1. ~Idle(chunkers[c])
      BY <1>5 DEF RetireChunk, Idle
    <2>2. PICK f \in Threads : f = chunkers[c].owner
      BY <2>1, HelperWhere
    <2>3. /\ \A g \in Threads \ {f} : files'[g] = files[g]
          /\ files'[f] = CountChunk(files[f], chunkers[c].bad)
      BY <1>5, <2>2, FileRecord DEF RetireChunk
    <2>4. files'[f].bad = (files[f].bad \/ chunkers[c].bad)
      BY <2>3, FileRecord, Zenon DEF CountChunk, FileNames
    <2>5. \A d \in Threads \ {c} : chunkers'[d] = chunkers[d]
      BY <1>5, ChunkRecord DEF RetireChunk
    <2>6. files[f].bad \/ chunkers[c].bad => Trouble'
      BY <2>4 DEF Trouble
    <2>7. \A g \in Threads : files[g].bad => Trouble'
      BY <2>3, <2>6 DEF Trouble
    <2>8. \A d \in Threads : chunkers[d].bad => Trouble'
      BY <2>5, <2>6 DEF Trouble
    <2> QED BY <1>1, <2>7, <2>8 DEF Trouble
  <1> QED BY <1>2, <1>3, <1>4, <1>5 DEF ChunkStep

\* As long as the image is made, what went wrong is not forgotten.
LEMMA TroubleStays ==
  ASSUME ImageInv, VerdictInv, [Next]_vars, main'.at \in Making, Trouble
  PROVE  Trouble'
  <1>1. main.at \in Making
    BY MakingFrom
  <1>2. Good /\ ~main.error
    BY <1>1 DEF VerdictInv, Good, SeenOk, Making, Early, Later, Filling
  <1>3. CASE MainStep \/ CopyFails
    BY <1>2, <1>3, MainTrouble
  <1>4. ASSUME NEW t \in Threads, FileStep(t) \/ ChunkStep(t) \/ AppendFails(t) \/ Writes(t)
        PROVE  Trouble'
    BY <1>2, <1>4, FileTrouble, ChunkTrouble
  <1>5. ASSUME NEW t \in Threads, SplitFails(t)
        PROVE  Trouble'
    <2>1. CASE Goto("undefined")
      <3>1. main'.at = "undefined"
        BY <2>1, Moved
      <3> QED BY <3>1 DEF Making, Early, Later, Filling
    <2>2. CASE files' = [files EXCEPT ![t].pc = "finish", ![t].bad = TRUE]
      <3>1. files'[t].bad = TRUE
        BY <1>2, <2>2, FileRecord DEF FileNames
      <3> QED BY <3>1 DEF Trouble
    <2> QED BY <1>5, <2>1, <2>2 DEF SplitFails
  <1>6. CASE UnpackNext \/ UNCHANGED vars
    BY <1>6, UnpackMadeStays DEF mkfsVars, Trouble
  <1> QED BY <1>3, <1>4, <1>5, <1>6 DEF Next, MkfsNext, Mishap, Writes

\* Nor is what was lost.
LEMMA LostStays ==
  ASSUME [Next]_vars, faults'.lost = {}
  PROVE  faults.lost = {}
  <1>1. CASE MainStep
    BY <1>1 DEF MainStep, ReadList, InsertMetadata, InsertHlinksMetadata,
           AllocateFixedArea, FixedAreasDone, TuneFile, TuneFolder, CompressDirEntry,
           CompressDirDone, TuneDone, InsertData, InsertDataDone, InsertHlinkData,
           InsertHlinksDone, SkipBox, SendBox, BoxSent, CopyBox, BoxesDone, PlaceSubsystem,
           PlacePreallocation, Flush, StopThread, EndMkfs
  <1>15. CASE CopyFails
    BY <1>15 DEF CopyFails, FailureSeen
  <1>2. ASSUME NEW t \in Threads, FileStep(t) \/ ChunkStep(t) \/ SplitFails(t) \/ AppendFails(t)
        PROVE  faults'.lost = faults.lost
    BY <1>2 DEF FileStep, TakeJob, Look, SplitChunk, ChunksDone, WriteImage, MarkRecord, FinishJob,
           ChunkStep, TakeChunk, AppendChunk, RetireChunk, AppendFails, SplitFails, FailureSeen
  <1>3. ASSUME NEW t \in Threads, WriteLost(t) \/ WriteFails(t)
        PROVE  faults.lost \subseteq faults'.lost
    BY <1>3 DEF WriteLost, WriteFails, FailureLost, FailureSeen
  <1>4. CASE UnpackNext \/ UNCHANGED vars
    BY <1>4, UnpackMadeStays DEF mkfsVars
  <1> QED BY <1>1, <1>15, <1>2, <1>3, <1>4 DEF Next, MkfsNext, Mishap

--------------------------------------------------------------------------------
(* What is given out lies in front of what is free.                        *)

InFront(space) == Room(space) => \A b \in Nat : Taken(space, b) => b < MetadataSize(space)

\* No block is given out but those of the grant.
LEMMA GrantTakes ==
  ASSUME NEW space, GoodSpace(space), NEW offset \in Nat, NEW len \in Nat,
         NEW grant, grant = AllocateSpace(space, offset, len), grant.addr # Refused
  PROVE  \A b \in Nat : Taken(grant.space, b) =>
           Taken(space, b) \/ b \in ForkBlocks(Fork(grant.addr, len))
  <1>1. space \in Spaces
    BY DEF GoodSpace
  <1>2. CASE /\ space.readOnly
             /\ grant.addr = space.first
             /\ grant.space = [space EXCEPT !.first = @ + len]
    <2>1. space.first \in Nat /\ grant.space.first = space.first + len /\ grant.space.readOnly
      BY <1>1, <1>2 DEF Spaces
    <2>2. ForkBlocks(Fork(grant.addr, len)) = space.first .. space.first + len - 1
      BY <1>2 DEF ForkBlocks, Fork
    <2> QED BY <1>2, <2>1, <2>2 DEF Taken
  <1>3. CASE /\ ~space.readOnly
             /\ \E e \in space.free :
                  /\ grant.addr \in Nat
                  /\ e.start <= grant.addr /\ grant.addr + len <= e.start + e.len
                  /\ grant.space = Take(space, e, grant.addr, len).space
    <2>1. /\ grant.space.readOnly = space.readOnly
          /\ grant.space.used = space.used \cup BlocksOf(Extent(grant.addr, len))
      BY <1>3, TakeGood
    <2>2. BlocksOf(Extent(grant.addr, len)) = ForkBlocks(Fork(grant.addr, len))
      BY DEF BlocksOf, Extent, ForkBlocks, Fork
    <2> QED BY <1>3, <2>1, <2>2 DEF Taken
  <1> QED BY <1>2, <1>3, AllocateCases

\* Asked for at the front, space leaves the front behind what it gave.
LEMMA FrontMoves ==
  ASSUME NEW space, GoodSpace(space), OneExtent(space), InFront(space),
         NEW offset \in Nat, NEW len \in Nat,
         Room(space) => offset \in {AnyAddress, MetadataSize(space)},
         NEW grant, grant = AllocateSpace(space, offset, len), grant.addr # Refused
  PROVE  InFront(grant.space)
  <1>1. /\ Room(space) /\ grant.addr = MetadataSize(space)
        /\ Room(grant.space) => MetadataSize(grant.space) = MetadataSize(space) + len
    BY FrontGrants
  <1>2. grant.addr \in Nat
    BY GrantedAddress
  <1>3. SUFFICES ASSUME Room(grant.space), NEW b \in Nat, Taken(grant.space, b)
                 PROVE  b < grant.addr + len
    BY <1>1 DEF InFront
  <1>4. CASE Taken(space, b)
    BY <1>1, <1>2, <1>4 DEF InFront
  <1>5. CASE b \in ForkBlocks(Fork(grant.addr, len))
    BY <1>2, <1>5 DEF ForkBlocks, Fork
  <1> QED BY <1>3, <1>4, <1>5, GrantTakes

--------------------------------------------------------------------------------
(* The blocks of the image.                                                *)

\* Of numbers up to n one is the highest.
LEMMA MaxOf ==
  ASSUME NEW n \in Nat, NEW numbers, numbers # {}, numbers \subseteq 0 .. n
  PROVE  Max(numbers) \in numbers /\ \A x \in numbers : x <= Max(numbers)
  <1> DEFINE below == {n - x : x \in numbers}
  <1>1. below \in SUBSET Nat /\ below # {}
    <2>1. \A x \in numbers : x \in 0 .. n
      OBVIOUS
    <2>2. \A x \in numbers : n - x \in Nat
      BY <2>1
    <2> QED BY <2>2
  <1> HIDE DEF below
  <1>2. PICK low \in below : \A y \in below : low <= y
    BY <1>1, LowestExists
  <1>3. PICK x \in numbers : low = n - x
    BY <1>2 DEF below
  <1>4. \A y \in numbers : n - x <= n - y
    BY <1>2, <1>3 DEF below
  <1>5. \A y \in numbers : x >= y
    BY <1>4
  <1> QED BY <1>5 DEF Max

\* What is put into the image lies where it was put, and the rest stays.
LEMMA PutBlocks ==
  ASSUME NEW blocks, NEW start \in Nat, NEW cells, IsSeq(cells)
  PROVE  /\ DOMAIN Put(blocks, start, cells) = DOMAIN blocks \cup start .. start + Len(cells) - 1
         /\ \A b \in DOMAIN blocks : b \notin start .. start + Len(cells) - 1 =>
              Put(blocks, start, cells)[b] = blocks[b]
  <1>1. DOMAIN cells = 1 .. Len(cells) /\ Len(cells) \in Nat
    BY SeqLen
  <1> DEFINE new == {start + i - 1 : i \in DOMAIN cells}
  <1>2. new = start .. start + Len(cells) - 1
    <2>1. \A i \in 1 .. Len(cells) : start + i - 1 \in start .. start + Len(cells) - 1
      BY <1>1
    <2>2. \A b \in start .. start + Len(cells) - 1 :
            b - start + 1 \in 1 .. Len(cells) /\ b = start + (b - start + 1) - 1
      BY <1>1
    <2> QED BY <1>1, <2>1, <2>2
  <1> HIDE DEF new
  <1>3. Put(blocks, start, cells) = [x \in new \cup DOMAIN blocks |->
                   IF x \in new THEN cells[x - start + 1] ELSE blocks[x]]
    BY DEF Put, Entered, new
  <1> QED BY <1>2, <1>3

\* The image has blocks, and it ends.
BlocksLike(blocks) == 0 \in DOMAIN blocks /\ \E n \in Nat : DOMAIN blocks \subseteq 0 .. n

\* The end of the image is behind all of its blocks.
LEMMA EndBehind ==
  ASSUME NEW blocks, BlocksLike(blocks)
  PROVE  /\ EndOf(blocks) \in Nat /\ EndOf(blocks) - 1 \in DOMAIN blocks
         /\ \A b \in DOMAIN blocks : b \in Nat /\ b < EndOf(blocks)
  <1>1. PICK n \in Nat : DOMAIN blocks \subseteq 0 .. n
    BY DEF BlocksLike
  <1>2. 0 \in DOMAIN blocks
    BY DEF BlocksLike
  <1>3. /\ Max(DOMAIN blocks) \in DOMAIN blocks
        /\ \A x \in DOMAIN blocks : x <= Max(DOMAIN blocks)
    BY <1>1, <1>2, MaxOf
  <1> QED BY <1>1, <1>3 DEF EndOf

LEMMA PutLike ==
  ASSUME NEW blocks, BlocksLike(blocks), NEW start \in Nat, NEW cells, IsSeq(cells)
  PROVE  BlocksLike(Put(blocks, start, cells))
  <1>1. PICK n \in Nat : DOMAIN blocks \subseteq 0 .. n
    BY DEF BlocksLike
  <1>2. Len(cells) \in Nat
    BY SeqLen
  <1>3. DOMAIN Put(blocks, start, cells) = DOMAIN blocks \cup start .. start + Len(cells) - 1
    BY PutBlocks
  <1>4. DOMAIN Put(blocks, start, cells) \subseteq 0 .. n + start + Len(cells)
    <2>1. \A b \in 0 .. n : b \in 0 .. n + start + Len(cells)
      BY <1>2
    <2>2. \A b \in start .. start + Len(cells) - 1 : b \in 0 .. n + start + Len(cells)
      BY <1>2
    <2>3. DOMAIN Put(blocks, start, cells) \subseteq (0 .. n) \cup start .. start + Len(cells) - 1
      BY ONLY <1>1, <1>3
    <2> QED BY ONLY <2>1, <2>2, <2>3
  <1>5. n + start + Len(cells) \in Nat
    BY <1>2
  <1> QED BY <1>3, <1>4, <1>5 DEF BlocksLike

\* What is cut off leaves what is in front of it.
LEMMA CutBlocks ==
  ASSUME NEW blocks, NEW len \in Nat
  PROVE  /\ DOMAIN Truncate(blocks, len) = {b \in DOMAIN blocks : b < len}
         /\ \A b \in DOMAIN Truncate(blocks, len) : Truncate(blocks, len)[b] = blocks[b]
  BY DEF Truncate

LEMMA CutLike ==
  ASSUME NEW blocks, BlocksLike(blocks), NEW len \in Nat, len > 0
  PROVE  BlocksLike(Truncate(blocks, len))
  <1>1. DOMAIN Truncate(blocks, len) = {b \in DOMAIN blocks : b < len}
    BY CutBlocks
  <1> QED BY <1>1 DEF BlocksLike

--------------------------------------------------------------------------------
(* What every step keeps.                                                  *)

\* What an undefined program writes is behind the fixed areas all the same.
RoomAhead == main.at = "undefined" /\ Room(disk.space) => MetadataSize(disk.space) > 0
\* Every subsystem has a block of the metadata, and what else is written at
\* the end is a fixed area.
TableIn == \A t \in DOMAIN disk.table : MetaBlock(disk, t) \in MetaArea
FixedIn ==
  /\ main.at = "fixed" =>
       (main.i > 1 => disk.tables \in disk.fixed) /\ (main.i > 3 => 2 \in disk.fixed)
  /\ main.at \in Later => {2, disk.tables} \subseteq disk.fixed
\* As long as nothing went wrong, noticed or not, every block that was written
\* is one that was given out, and not to the metadata or a fixed area.
Whole ==
  main.at \in Making /\ ~Trouble /\ faults.lost = {} =>
    \A b \in DOMAIN disk.blocks \ {0, 1} : Taken(disk.space, b) /\ b \notin disk.fixed \cup MetaArea

KeepInv ==
  /\ InFront(disk.space) /\ BlocksLike(disk.blocks)
  /\ RoomAhead /\ TableIn /\ FixedIn /\ Whole

\* The blocks that were given out stay as they are, but for those main writes
\* over in the end once a write was lost.
Untouched ==
  \/ faults.lost # {} /\ main.at = "flush"
  \/ \A b \in DOMAIN disk.blocks \ {0, 1} :
       Taken(disk.space, b) => b \in DOMAIN disk'.blocks /\ disk'.blocks[b] = disk.blocks[b]

LEMMA MadeWhole ==
  ASSUME ImageInv, VerdictInv, [Next]_vars
  PROVE  main'.at \in Making /\ ~Trouble' /\ faults'.lost = {} =>
           main.at \in Making /\ ~Trouble /\ faults.lost = {}
  BY MakingFrom, TroubleStays, LostStays

\* Nothing is written before the fixed areas are known.
LEMMA LaterFrom ==
  ASSUME ImageInv, [Next]_vars, main'.at \in Later
  PROVE  main.at \in Later \/ (main.at = "fixed" /\ main.i > 4)
  <1>1. main.at \in Later \/ main.at \in Early
    <2>1. main.at \in Making
      BY MakingFrom DEF Making
    <2> QED BY <2>1 DEF Making
  <1>2. SUFFICES ASSUME main.at \in Early
                 PROVE  main.at = "fixed" /\ main.i > 4
    BY <1>1
  <1>3. Later = {"tune", "folder", "data", "hlinks", "boxes", "box", "place", "flush"}
    BY DEF Later, Filling
  <1>4. main'.at # main.at
    BY <1>2, <1>3 DEF Early
  <1>5. CASE ReadList \/ InsertMetadata \/ InsertHlinksMetadata \/ AllocateFixedArea
    <2>1. main'.at \in {main.at, "failed", "metadata", "fixed", "exit"}
      <3>1. CASE ReadList
        BY <3>1, Moved DEF ReadList
      <3>2. CASE InsertMetadata \/ InsertHlinksMetadata
        BY <3>2, Moved DEF InsertMetadata, InsertHlinksMetadata
      <3>3. CASE AllocateFixedArea
        BY <3>3, Moved DEF AllocateFixedArea
      <3> QED BY <1>5, <3>1, <3>2, <3>3
    <2> QED BY <1>3, <1>4, <2>1
  <1>6. CASE FixedAreasDone
    BY <1>6 DEF FixedAreasDone, Past, FixedAreas
  <1>7. CASE MainStep /\ ~(ReadList \/ InsertMetadata \/ InsertHlinksMetadata \/ AllocateFixedArea
                             \/ FixedAreasDone)
    <2>1. main.at \in Later \cup {"exit"}
      BY <1>3, <1>7 DEF MainStep, TuneFile, TuneFolder, CompressDirEntry, CompressDirDone, TuneDone,
                InsertData, InsertDataDone, InsertHlinkData, InsertHlinksDone, SkipBox, SendBox,
                BoxSent, CopyBox, BoxesDone, PlaceSubsystem, PlacePreallocation, Flush,
                StopThread, EndMkfs, At, Past
    <2> QED BY <1>2, <1>3, <2>1 DEF Early
  <1>8. CASE CopyFails
    BY <1>3, <1>8, Moved DEF CopyFails
  <1>9. ASSUME NEW t \in Threads, SplitFails(t)
        PROVE  main'.at = main.at \/ main'.at = "undefined"
    BY <1>9, Moved DEF SplitFails
  <1>10. ASSUME NEW t \in Threads, FileStep(t) \/ ChunkStep(t) \/ AppendFails(t) \/ Writes(t)
         PROVE  main' = main
    BY <1>10, ThreadsAlone
  <1>11. CASE UnpackNext \/ UNCHANGED vars
    BY <1>4, <1>11, UnpackMadeStays DEF mkfsVars
  <1>12. main'.at # "undefined"
    BY <1>3
  <1> QED BY <1>4, <1>5, <1>6, <1>7, <1>8, <1>9, <1>10, <1>11, <1>12
          DEF Next, MkfsNext, Mishap, Writes

\* The fixed areas are asked for from the first one on.
LEMMA FixedFrom ==
  ASSUME ImageInv, [Next]_vars, ~AllocateFixedArea, main'.at = "fixed"
  PROVE  main'.i = 1 \/ (main.at = "fixed" /\ main'.i = main.i)
  <1>1. CASE main.at = "fixed"
    <2>1. CASE FixedAreasDone
      BY <2>1, Moved DEF FixedAreasDone
    <2>2. CASE MainStep /\ ~FixedAreasDone
      BY <1>1, <2>2 DEF MainStep, ReadList, InsertMetadata, InsertHlinksMetadata, TuneFile,
                TuneFolder, CompressDirEntry, CompressDirDone, TuneDone,
                InsertData, InsertDataDone, InsertHlinkData, InsertHlinksDone, SkipBox, SendBox,
                BoxSent, CopyBox, BoxesDone, PlaceSubsystem, PlacePreallocation, Flush,
                StopThread, EndMkfs, At, Past
    <2>3. CASE CopyFails
      BY <1>1, <2>3 DEF CopyFails
    <2>4. ASSUME NEW t \in Threads, SplitFails(t)
          PROVE  main' = main
      BY <2>4, Moved DEF SplitFails
    <2>5. ASSUME NEW t \in Threads, FileStep(t) \/ ChunkStep(t) \/ AppendFails(t) \/ Writes(t)
          PROVE  main' = main
      BY <2>5, ThreadsAlone
    <2>6. CASE UnpackNext \/ UNCHANGED vars
      BY <2>6, UnpackMadeStays DEF mkfsVars
    <2> QED BY <1>1, <2>1, <2>2, <2>3, <2>4, <2>5, <2>6 DEF Next, MkfsNext, Mishap, Writes
  <1>2. CASE main.at # "fixed"
    <2>1. CASE InsertHlinksMetadata
      BY <2>1, Moved DEF InsertHlinksMetadata
    <2>2. ASSUME MainStep, ~InsertHlinksMetadata
          PROVE  main'.at # "fixed"
      <3>1. CASE \E at : Goto(at) /\ at # "fixed"
        BY <3>1, Moved
      <3>2. CASE Advance \/ FailWith \/ UNCHANGED main
        BY <1>2, <3>2, Moved
      <3>3. CASE \E e, obj : CopyObject(e, obj)
        <4>1. main'.at \in {main.at, "exit"}
          BY <3>3, Moved DEF CopyObject, CopyFile, Copied, ImageInv, MainOk
        <4> QED BY <1>2, <4>1
      <3>4. ASSUME NEW at, at # "fixed",
                   \/ main' = [main EXCEPT !.at = at]
                   \/ main' = [main EXCEPT !.at = at, !.i = main.i + 1]
                   \/ main' = [main EXCEPT !.at = at, !.j = 1]
                   \/ \E offset : main' = [main EXCEPT !.at = at, !.i = 1, !.offset = offset]
            PROVE  main'.at # "fixed"
        BY <3>4 DEF ImageInv, MainOk
      <3>5. CASE main' = [main EXCEPT !.j = main.j + 1]
        BY <1>2, <3>5 DEF ImageInv, MainOk
      <3>6. CASE ReadList \/ InsertMetadata \/ FixedAreasDone
        BY <3>1, <3>2, <3>6 DEF ReadList, InsertMetadata, FixedAreasDone
      <3>7. CASE TuneFile \/ TuneFolder \/ CompressDirEntry
        BY <3>2, <3>4, <3>5, <3>7 DEF TuneFile, TuneFolder, CompressDirEntry
      <3>8. CASE CompressDirDone
        <4>1. \/ main' = [main EXCEPT !.at = "tune", !.i = main.i + 1]
              \/ FailWith \/ Goto("undefined")
          BY <3>8 DEF CompressDirDone
        <4>2. main'.at \in {"tune", "exit", "undefined"}
          BY <4>1, Moved DEF ImageInv, MainOk
        <4> QED BY <4>2
      <3>9. CASE TuneDone
        <4>1. \/ main' = [main EXCEPT !.at = "data", !.i = 1, !.offset = MetadataSize(disk.space)]
              \/ FailWith \/ Goto("undefined")
          BY <3>9 DEF TuneDone
        <4>2. main'.at \in {"data", "exit", "undefined"}
          BY <4>1, Moved DEF ImageInv, MainOk
        <4> QED BY <4>2
      <3>10. CASE InsertData \/ InsertDataDone \/ InsertHlinkData \/ InsertHlinksDone
        BY <3>1, <3>2, <3>3, <3>10 DEF InsertData, InsertDataDone, InsertHlinkData, InsertHlinksDone
      <3>11. CASE SkipBox \/ CopyBox
        BY <3>2, <3>11 DEF SkipBox, CopyBox
      <3>12. CASE SendBox \/ BoxSent
        BY <3>4, <3>12 DEF SendBox, BoxSent
      <3>13. CASE BoxesDone
        BY <3>1, <3>2, <3>13 DEF BoxesDone
      <3>14. CASE PlaceSubsystem \/ PlacePreallocation \/ Flush \/ StopThread \/ EndMkfs
        BY <3>1, <3>2, <3>14 DEF PlaceSubsystem, PlacePreallocation, Flush, StopThread, EndMkfs
      <3> QED BY <2>2, <3>6, <3>7, <3>8, <3>9, <3>10, <3>11, <3>12, <3>13, <3>14 DEF MainStep
    <2>3. CASE CopyFails
      BY <2>3, Moved DEF CopyFails
    <2>4. ASSUME NEW t \in Threads, SplitFails(t)
          PROVE  main'.at # "fixed"
      BY <1>2, <2>4, Moved DEF SplitFails
    <2>5. ASSUME NEW t \in Threads, FileStep(t) \/ ChunkStep(t) \/ AppendFails(t) \/ Writes(t)
          PROVE  main' = main
      BY <2>5, ThreadsAlone
    <2>6. CASE UnpackNext \/ UNCHANGED vars
      BY <1>2, <2>6, UnpackMadeStays DEF mkfsVars
    <2> QED BY <1>2, <2>1, <2>2, <2>3, <2>4, <2>5, <2>6 DEF Next, MkfsNext, Mishap, Writes
  <1> QED BY <1>1, <1>2

LEMMA FixedInStays ==
  ASSUME ImageInv, FixedIn, [Next]_vars, ~AllocateFixedArea,
         disk'.fixed = disk.fixed, disk'.tables = disk.tables
  PROVE  FixedIn'
  <1>1. ASSUME main'.at = "fixed"
        PROVE  /\ main'.i > 1 => disk.tables \in disk.fixed
               /\ main'.i > 3 => 2 \in disk.fixed
    <2>1. main'.i = 1 \/ (main.at = "fixed" /\ main'.i = main.i)
      BY <1>1, FixedFrom
    <2> QED BY <1>1, <2>1 DEF FixedIn
  <1>2. ASSUME main'.at \in Later
        PROVE  {2, disk.tables} \subseteq disk.fixed
    <2>1. CASE main.at \in Later
      BY <2>1 DEF FixedIn
    <2>2. CASE main.at = "fixed" /\ main.i > 4
      <3>1. main.i > 1 /\ main.i > 3
        BY <2>2 DEF ImageInv, MainOk
      <3> QED BY <2>2, <3>1 DEF FixedIn
    <2> QED BY <1>2, <2>1, <2>2, LaterFrom
  <1> QED BY <1>1, <1>2 DEF FixedIn

LEMMA AheadStays ==
  ASSUME ImageInv, VerdictInv, FrontOk, RoomAhead, [Next]_vars, disk'.space = disk.space
  PROVE  RoomAhead'
  BY UndefinedFrom DEF FrontOk, RoomAhead

--------------------------------------------------------------------------------
(* A grant.                                                                *)

\* Blocks that are new to the space, and that what is new in the image is among.
Given(given, new) ==
  /\ Keeps(disk.space, disk'.space) /\ new \subseteq given \cup {0, 1}
  /\ \A b \in given : b \in Nat /\ ~Taken(disk.space, b) /\ Taken(disk'.space, b)

LEMMA GrantGiven ==
  ASSUME ImageInv, NEW offset \in Nat, NEW len \in Nat, NEW grant,
         grant = AllocateSpace(disk.space, offset, len), grant.addr # Refused,
         disk'.space = grant.space,
         NEW given, given = ForkBlocks(Fork(grant.addr, len)),
         NEW new, new \subseteq given \cup {0, 1}
  PROVE  Given(given, new)
  <1>1. GoodSpace(disk.space)
    BY DEF ImageInv, DiskLike
  <1> QED BY <1>1, GivenBlocks DEF Given

LEMMA WholeGiven ==
  ASSUME ImageInv, VerdictInv, AreasInv, KeepInv, [Next]_vars,
         NEW given, NEW new, Given(given, new),
         DOMAIN disk'.blocks \subseteq DOMAIN disk.blocks \cup new,
         disk'.fixed \cup MetaArea' \subseteq (disk.fixed \cup MetaArea) \cup (given \ new)
  PROVE  Whole'
  <1>1. SUFFICES ASSUME main'.at \in Making, ~Trouble', faults'.lost = {},
                        NEW b \in DOMAIN disk'.blocks \ {0, 1}
                 PROVE  /\ Taken(disk'.space, b) /\ b \notin disk'.fixed \cup MetaArea'
    BY DEF Whole
  <1>2. \A x \in DOMAIN disk.blocks \ {0, 1} :
          Taken(disk.space, x) /\ x \notin disk.fixed \cup MetaArea
    BY <1>1, MadeWhole DEF KeepInv, Whole
  <1>3. /\ Keeps(disk.space, disk'.space)
        /\ \A x \in given : x \in Nat /\ ~Taken(disk.space, x) /\ Taken(disk'.space, x)
    BY DEF Given
  <1>4. \A x \in disk.fixed \cup MetaArea : Taken(disk.space, x)
    BY DEF AreasInv, Apart
  <1>5. CASE b \in new
    <2>1. b \in given
      BY <1>1, <1>5 DEF Given
    <2>2. Taken(disk'.space, b) /\ b \notin disk.fixed \cup MetaArea
      BY <1>3, <1>4, <2>1
    <2> QED BY <1>5, <2>2
  <1>6. CASE b \in DOMAIN disk.blocks
    <2>1. Taken(disk.space, b) /\ b \notin disk.fixed \cup MetaArea
      BY <1>1, <1>2, <1>6
    <2>2. b \in Nat
      BY <1>6, EndBehind DEF KeepInv
    <2>3. Taken(disk'.space, b) /\ b \notin given
      BY <1>3, <2>1, <2>2 DEF Keeps
    <2> QED BY <2>1, <2>3
  <1> QED BY <1>1, <1>5, <1>6

LEMMA GivenUntouched ==
  ASSUME NEW given, NEW new, Given(given, new),
         \A b \in DOMAIN disk.blocks \ {0, 1} : b \notin given =>
           b \in DOMAIN disk'.blocks /\ disk'.blocks[b] = disk.blocks[b]
  PROVE  Untouched
  BY DEF Untouched, Given

--------------------------------------------------------------------------------
(* Steps of main.                                                          *)

\* Nothing is written or given out.
LEMMA QuietKeep ==
  ASSUME ImageInv, VerdictInv, AreasInv, KeepInv, [Next]_vars, UNCHANGED disk, ~AllocateFixedArea
  PROVE  KeepInv' /\ Untouched
  <1>1. Untouched
    BY DEF Untouched
  <1>2. FixedIn' /\ RoomAhead'
    BY FixedInStays, AheadStays DEF KeepInv, AreasInv
  <1>3. TableIn' /\ InFront(disk.space)' /\ BlocksLike(disk.blocks)'
    BY DEF KeepInv, TableIn, MetaArea, MetaBlock
  <1>4. MetaArea' = MetaArea
    BY DEF MetaArea
  <1>5. Whole'
    BY <1>4, MadeWhole DEF KeepInv, Whole
  <1> QED BY <1>1, <1>2, <1>3, <1>5 DEF KeepInv

\* What main gives up on is not made any more.
LEMMA StopKeep ==
  ASSUME ImageInv, VerdictInv, AreasInv, KeepInv, UNCHANGED disk, main'.at = "exit"
  PROVE  KeepInv' /\ Untouched
  <1>1. Untouched
    BY DEF Untouched
  <1>2. FixedIn' /\ RoomAhead' /\ Whole'
    BY DEF FixedIn, RoomAhead, Whole, Making, Early, Later, Filling
  <1>3. TableIn' /\ InFront(disk.space)' /\ BlocksLike(disk.blocks)'
    BY DEF KeepInv, TableIn, MetaArea, MetaBlock
  <1> QED BY <1>1, <1>2, <1>3 DEF KeepInv

\* A fixed area is given what was nobody's.
LEMMA FixedKeep ==
  ASSUME ImageInv, VerdictInv, AreasInv, KeepInv, [Next]_vars, AllocateFixedArea
  PROVE  KeepInv' /\ Untouched
  <1> DEFINE offset == FixedAreas[main.i]
             grant == AllocateSpace(disk.space, offset, 1)
  <1>1. main.at = "fixed" /\ main.i \in 1 .. 4
    BY DEF AllocateFixedArea, At, FixedAreas, ImageInv, MainOk
  <1>2. offset \in Nat /\ (offset = AnyAddress \/ offset = main.i - 1)
        /\ (main.i = 3 => offset = 2)
    BY <1>1 DEF FixedAreas, AnyAddress
  <1>3. GoodSpace(disk.space) /\ FrontOk /\ InFront(disk.space)
    BY DEF ImageInv, DiskLike, AreasInv, KeepInv
  <1>4. CASE grant.addr = Refused
    <2>1. main'.at = "exit" /\ UNCHANGED disk
      BY <1>4, Moved DEF AllocateFixedArea
    <2> QED BY <2>1, StopKeep
  <1>5. CASE grant.addr # Refused
    <2>1. /\ Advance
          /\ disk' = [disk EXCEPT !.space = grant.space, !.fixed = @ \cup {grant.addr},
                                  !.tables = grant.addr]
      BY <1>5 DEF AllocateFixedArea
    <2>2. /\ disk'.space = grant.space /\ disk'.fixed = disk.fixed \cup {grant.addr}
          /\ disk'.tables = grant.addr /\ disk'.blocks = disk.blocks
          /\ disk'.table = disk.table /\ disk'.meta = disk.meta
      BY <2>1 DEF ImageInv, DiskLike
    <2>3. main'.at = "fixed" /\ main'.i = main.i + 1
      BY <1>1, <2>1, Moved
    <2>4. Room(disk.space) => offset \in {AnyAddress, MetadataSize(disk.space)}
      BY <1>1, <1>2, <1>3 DEF FrontOk
    <2>5. grant.addr \in Nat
      BY <1>2, <1>3, <1>5, GrantedAddress
    <2> HIDE DEF grant, offset
    <2>6. grant = AllocateSpace(disk.space, offset, 1)
      BY DEF grant
    <2>7. Room(disk.space) /\ grant.addr = MetadataSize(disk.space)
      BY <1>2, <1>3, <1>5, <2>4, <2>6, FrontGrants DEF FrontOk
    <2>8. InFront(disk.space)'
      BY <1>2, <1>3, <1>5, <2>2, <2>4, <2>6, FrontMoves DEF FrontOk
    <2>9. main.i = 3 => grant.addr = 2
      BY <1>1, <1>3, <2>7 DEF FrontOk
    <2>10. FixedIn'
      <3>1. main'.i > 3 => 2 \in disk'.fixed
        <4>1. CASE main.i = 3
          BY <2>2, <2>9, <4>1
        <4>2. CASE main.i > 3
          BY <1>1, <2>2, <4>2 DEF KeepInv, FixedIn
        <4> QED BY <1>1, <2>3, <4>1, <4>2
      <3> QED BY <2>2, <2>3, <3>1 DEF FixedIn, Later, Filling
    <2>11. RoomAhead'
      BY <2>3 DEF RoomAhead
    <2>12. TableIn' /\ BlocksLike(disk.blocks)'
      BY <2>2 DEF KeepInv, TableIn, MetaArea, MetaBlock
    <2>13. Whole'
      <3> DEFINE given == ForkBlocks(Fork(grant.addr, 1))
      <3>1. given = {grant.addr}
        BY <2>5 DEF ForkBlocks, Fork
      <3>2. MetaArea' = MetaArea
        BY <2>2 DEF MetaArea
      <3>3. PICK new : new = {}
        OBVIOUS
      <3>4. /\ DOMAIN disk'.blocks \subseteq DOMAIN disk.blocks \cup new
            /\ disk'.fixed \cup MetaArea' \subseteq (disk.fixed \cup MetaArea) \cup (given \ new)
        BY <2>2, <3>1, <3>2, <3>3
      <3>5. Given(given, new)
        <4>1. PICK o \in Nat : o = offset
          BY <1>2
        <4>2. 1 \in Nat /\ new \subseteq given \cup {0, 1} /\ given = ForkBlocks(Fork(grant.addr, 1))
          BY <3>3
        <4>3. grant = AllocateSpace(disk.space, o, 1)
          BY <2>6, <4>1
        <4> HIDE DEF given
        <4> QED BY <1>5, <2>2, <4>2, <4>3, GrantGiven
      <3> HIDE DEF given
      <3> QED BY <3>4, <3>5, WholeGiven
    <2>14. Untouched
      BY <2>2 DEF Untouched
    <2> QED BY <2>8, <2>10, <2>11, <2>12, <2>13, <2>14 DEF KeepInv
  <1> QED BY <1>4, <1>5

\* Content is put where space was given for it.
LEMMA PutKeep ==
  ASSUME ImageInv, VerdictInv, AreasInv, KeepInv, [Next]_vars, ~AllocateFixedArea,
         main'.at # "undefined", NEW cells, IsSeq(cells),
         NEW offset \in Nat, NEW len \in Nat, len = Len(cells),
         Room(disk.space) => offset \in {AnyAddress, MetadataSize(disk.space)},
         NEW grant, grant = AllocateSpace(disk.space, offset, len), grant.addr # Refused,
         disk'.space = grant.space, disk'.blocks = Put(disk.blocks, grant.addr, PlainCells(cells)),
         disk'.fixed = disk.fixed, disk'.tables = disk.tables,
         disk'.table = disk.table, disk'.meta = disk.meta
  PROVE  KeepInv' /\ Untouched
  <1>1. GoodSpace(disk.space) /\ FrontOk /\ InFront(disk.space) /\ OneExtent(disk.space)
    BY DEF ImageInv, DiskLike, AreasInv, KeepInv, FrontOk
  <1>2. grant.addr \in Nat
    BY <1>1, GrantedAddress
  <1>3. IsSeq(PlainCells(cells)) /\ Len(PlainCells(cells)) = len
    <2>1. DOMAIN cells = 1 .. len
      BY SeqLen
    <2>2. PlainCells(cells) \in [1 .. len -> Range(PlainCells(cells))]
      BY <2>1 DEF PlainCells, Range
    <2>3. PlainCells(cells) \in Seq(Range(PlainCells(cells)))
      BY <2>2
    <2>4. DOMAIN PlainCells(cells) = 1 .. len
      BY <2>1 DEF PlainCells
    <2>5. IsSeq(PlainCells(cells))
      BY <2>3 DEF IsSeq
    <2>6. Len(PlainCells(cells)) \in Nat /\ DOMAIN PlainCells(cells) = 1 .. Len(PlainCells(cells))
      BY <2>5, SeqLen
    <2>7. Len(PlainCells(cells)) = len
      BY ONLY <2>4, <2>6, len \in Nat
    <2> QED BY <2>5, <2>7
  <1> DEFINE given == ForkBlocks(Fork(grant.addr, len))
  <1>4. given = grant.addr .. grant.addr + len - 1
    BY DEF ForkBlocks, Fork
  <1>5. /\ DOMAIN disk'.blocks = DOMAIN disk.blocks \cup given
        /\ \A b \in DOMAIN disk.blocks : b \notin given => disk'.blocks[b] = disk.blocks[b]
    <2>1. PICK plain : plain = PlainCells(cells)
      OBVIOUS
    <2>2. IsSeq(plain) /\ Len(plain) = len /\ disk'.blocks = Put(disk.blocks, grant.addr, plain)
      BY <1>3, <2>1
    <2>3. PICK start \in Nat : start = grant.addr
      BY <1>2
    <2>4. /\ DOMAIN Put(disk.blocks, start, plain) = DOMAIN disk.blocks \cup start .. start + Len(plain) - 1
          /\ \A b \in DOMAIN disk.blocks : b \notin start .. start + Len(plain) - 1 =>
               Put(disk.blocks, start, plain)[b] = disk.blocks[b]
      BY ONLY <2>2, PutBlocks, start \in Nat
    <2> HIDE DEF given
    <2>5. given = start .. start + Len(plain) - 1
      BY <1>4, <2>2, <2>3
    <2> QED BY <2>2, <2>3, <2>4, <2>5
  <1> HIDE DEF given
  <1>6. InFront(disk.space)'
    BY <1>1, FrontMoves
  <1>7. BlocksLike(disk.blocks)'
    BY <1>2, <1>3, PutLike DEF KeepInv
  <1>8. FixedIn'
    BY FixedInStays DEF KeepInv
  <1>9. RoomAhead'
    BY DEF RoomAhead
  <1>10. MetaArea' = MetaArea
    BY DEF MetaArea
  <1>11. TableIn'
    BY <1>10 DEF KeepInv, TableIn, MetaBlock
  <1>12. Given(given, given)
    <2>1. given = ForkBlocks(Fork(grant.addr, len)) /\ given \subseteq given \cup {0, 1}
      BY DEF given
    <2> QED BY <2>1, GrantGiven
  <1>13. Whole'
    <2>1. /\ DOMAIN disk'.blocks \subseteq DOMAIN disk.blocks \cup given
          /\ disk'.fixed \cup MetaArea' \subseteq (disk.fixed \cup MetaArea) \cup (given \ given)
      BY <1>5, <1>10
    <2> QED BY <1>12, <2>1, WholeGiven
  <1>14. Untouched
    BY <1>5, <1>12, GivenUntouched
  <1> QED BY <1>6, <1>7, <1>8, <1>9, <1>11, <1>13, <1>14 DEF KeepInv

\* Main copies a file to the image.
LEMMA CopyFileKeep ==
  ASSUME ImageInv, VerdictInv, AreasInv, KeepInv, [Next]_vars, main.at \in {"data", "hlinks"},
         NEW obj, NEW cells, IsSeq(cells), CopyFile(obj, cells)
  PROVE  KeepInv' /\ Untouched
  <1> DEFINE len == Len(cells)
             grant == AllocateSpace(disk.space, main.offset, len)
  <1>1. len \in Nat /\ main.offset \in Nat /\ FrontOk /\ ~AllocateFixedArea
    BY SeqLen DEF ImageInv, MainOk, AreasInv, AllocateFixedArea, At
  <1>2. CASE UNCHANGED disk
    BY <1>1, <1>2, QuietKeep
  <1>3. CASE grant.addr # Refused /\ Copied(obj, cells, grant)
    <2>1. /\ disk' = AddRange(CopyTo(disk, grant, cells), Fork(grant.addr, len))
          /\ main' = [main EXCEPT !.i = @ + 1, !.offset = grant.addr + len]
      BY <1>3 DEF Copied
    <2>2. main'.at # "undefined"
      BY <2>1 DEF ImageInv, MainOk
    <2> DEFINE copied == CopyTo(disk, grant, cells)
    <2>3. /\ copied.space = grant.space
          /\ copied.blocks = Put(disk.blocks, grant.addr, PlainCells(cells))
          /\ copied.fixed = disk.fixed /\ copied.tables = disk.tables
          /\ copied.table = disk.table /\ copied.meta = disk.meta
          /\ DOMAIN copied = {"space", "blocks", "ranges", "fixed", "tables", "meta", "table"}
      BY DEF CopyTo, ImageInv, DiskLike
    <2> HIDE DEF copied, grant, len
    <2>4. /\ disk'.space = grant.space
          /\ disk'.blocks = Put(disk.blocks, grant.addr, PlainCells(cells))
          /\ disk'.fixed = disk.fixed /\ disk'.tables = disk.tables
          /\ disk'.table = disk.table /\ disk'.meta = disk.meta
      BY <2>1, <2>3 DEF AddRange, copied
    <2>5. PICK offset, n \in Nat : offset = main.offset /\ n = len
      BY <1>1
    <2>6. /\ n = Len(cells) /\ grant = AllocateSpace(disk.space, offset, n)
          /\ Room(disk.space) => offset \in {AnyAddress, MetadataSize(disk.space)}
      BY <1>1, <2>5 DEF len, grant, FrontOk
    <2> QED BY <1>1, <1>3, <2>2, <2>4, <2>6, PutKeep
  <1> QED BY <1>2, <1>3 DEF CopyFile

\* Main copies a file to the image or packs it into a container.
LEMMA DataKeep ==
  ASSUME ImageInv, VerdictInv, AreasInv, KeepInv, [Next]_vars, InsertData \/ InsertHlinkData
  PROVE  KeepInv' /\ Untouched
  <1>1. main.at \in {"data", "hlinks"} /\ ~AllocateFixedArea
    BY DEF InsertData, InsertHlinkData, AllocateFixedArea, At
  <1>2. CASE UNCHANGED disk
    BY <1>1, <1>2, QuietKeep
  <1>3. ASSUME NEW e, IsSeq(Content(e)), NEW obj, CopyObject(e, obj)
        PROVE  KeepInv' /\ Untouched
    <2>1. UNCHANGED disk \/ CopyFile(obj, Content(e))
      BY <1>3 DEF CopyObject
    <2> QED BY <1>1, <1>2, <1>3, <2>1, CopyFileKeep
  <1>4. MainOk /\ LinksOk /\ plan \in Plans
    BY DEF ImageInv
  <1>5. CASE InsertData
    <2>1. CASE CopyObject(Entry, RecordOf(Entry.path).obj)
      <3>1. plan.entries \in Seq(Range(plan.entries))
        BY <1>4, PlanAssumption
      <3>2. main.i \in DOMAIN plan.entries
        BY <1>4, <1>5, <3>1 DEF InsertData, At, MainOk
      <3>3. IsSeq(Content(Entry))
        BY <1>4, <3>2, EntryIsEntry DEF Entry
      <3> QED BY <1>3, <2>1, <3>3
    <2> QED BY <1>2, <1>5, <2>1 DEF InsertData
  <1>6. CASE InsertHlinkData
    <2>1. main.i \in DOMAIN catalog.links
      BY <1>4, <1>6, SeqLen DEF InsertHlinkData, At, MainOk, LinksOk
    <2>2. IsSeq(Content(EntryOf(catalog.links[main.i].path)))
      BY <1>4, <2>1, KnownPath DEF LinksOk
    <2>3. CopyObject(EntryOf(catalog.links[main.i].path), catalog.links[main.i].obj)
      BY <1>6 DEF InsertHlinkData
    <2> QED BY <1>3, <2>2, <2>3
  <1> QED BY <1>5, <1>6

\* The plain container is copied.
LEMMA CopyBoxKeep ==
  ASSUME ImageInv, VerdictInv, AreasInv, KeepInv, [Next]_vars, CopyBox
  PROVE  KeepInv' /\ Untouched
  <1> DEFINE len == Len(Box.cells)
             grant == AllocateSpace(disk.space, AnyAddress, len)
  <1>1. len \in Nat /\ AnyAddress \in Nat /\ IsSeq(Box.cells) /\ ~AllocateFixedArea
    BY BoxSeq, SeqLen DEF CopyBox, AnyAddress, AllocateFixedArea, At
  <1>2. CASE FailWith /\ UNCHANGED disk
    <2>1. main'.at = "exit"
      BY <1>2, Moved
    <2> QED BY <1>2, <2>1, StopKeep
  <1>3. CASE grant.addr # Refused /\ Advance /\ disk' = CopyTo(disk, grant, Box.cells)
    <2>1. main'.at # "undefined"
      BY <1>3, Moved DEF CopyBox, At
    <2> HIDE DEF grant, len
    <2>2. /\ disk'.space = grant.space
          /\ disk'.blocks = Put(disk.blocks, grant.addr, PlainCells(Box.cells))
          /\ disk'.fixed = disk.fixed /\ disk'.tables = disk.tables
          /\ disk'.table = disk.table /\ disk'.meta = disk.meta
      BY <1>3 DEF CopyTo, ImageInv, DiskLike
    <2>3. PICK offset, n \in Nat : offset = AnyAddress /\ n = len
      BY <1>1
    <2>4. PICK cells : cells = Box.cells
      OBVIOUS
    <2>5. /\ n = Len(cells) /\ grant = AllocateSpace(disk.space, offset, n) /\ IsSeq(cells)
          /\ Room(disk.space) => offset \in {AnyAddress, MetadataSize(disk.space)}
          /\ disk'.blocks = Put(disk.blocks, grant.addr, PlainCells(cells))
      BY <1>1, <2>2, <2>3, <2>4 DEF len, grant
    <2> QED BY <1>1, <1>3, <2>1, <2>2, <2>5, PutKeep
  <1> QED BY <1>2, <1>3 DEF CopyBox

\* The metadata grows, and its table with it.
LEMMA MetaKeep ==
  ASSUME ImageInv, VerdictInv, AreasInv, KeepInv, [Next]_vars, main.at = "place",
         main'.at \in {"place", "flush"},
         NEW len \in Nat, NEW grant, grant = AllocateSpace(disk.space, MetaEnd(disk), len),
         grant.addr # Refused, disk'.space = grant.space,
         disk'.fixed = disk.fixed, disk'.tables = disk.tables, disk'.blocks = disk.blocks,
         disk'.meta.first = (IF disk.meta.first = 0 THEN grant.addr ELSE disk.meta.first),
         disk'.meta.count = disk.meta.count + len,
         \/ disk'.table = disk.table
         \/ /\ len = 1
            /\ \E name : disk'.table = Entered([t \in {name} |-> grant.addr - disk'.meta.first], disk.table)
  PROVE  KeepInv' /\ Untouched
  <1> DEFINE given == ForkBlocks(Fork(grant.addr, len))
  <1>1. /\ MetaEnd(disk) \in Nat
        /\ Room(disk.space) => MetaEnd(disk) \in {AnyAddress, MetadataSize(disk.space)}
        /\ grant.addr \in Nat /\ grant.addr > 0
        /\ disk'.meta.first > 0 /\ MetaArea' = MetaArea \cup given
    BY MetaGrown
  <1>2. GoodSpace(disk.space) /\ OneExtent(disk.space) /\ InFront(disk.space)
        /\ disk.meta.first \in Nat /\ disk.meta.count \in Nat
        /\ (disk.meta.first = 0 => disk.meta.count = 0)
    BY DEF ImageInv, DiskLike, AreasInv, FrontOk, KeepInv
  <1>3. given = grant.addr .. grant.addr + len - 1
    BY DEF ForkBlocks, Fork
  <1> HIDE DEF given
  <1>4. InFront(disk.space)'
    BY <1>1, <1>2, FrontMoves
  <1>5. BlocksLike(disk.blocks)' /\ RoomAhead' /\ Untouched
    BY DEF KeepInv, RoomAhead, Untouched
  <1>6. FixedIn'
    <2>1. ~AllocateFixedArea
      BY DEF AllocateFixedArea, At
    <2> QED BY <2>1, FixedInStays DEF KeepInv
  <1>7. TableIn'
    <2>1. ASSUME NEW t \in DOMAIN disk.table, disk'.table[t] = disk.table[t]
          PROVE  MetaBlock(disk, t)' \in MetaArea'
      <3>1. MetaBlock(disk, t) \in MetaArea
        BY DEF KeepInv, TableIn
      <3>2. disk.meta.first # 0
        <4>1. disk.meta.first = 0 => MetaArea = {}
          BY <1>2 DEF MetaArea
        <4> QED BY <3>1, <4>1
      <3>3. disk'.meta.first = disk.meta.first
        BY <3>2
      <3> QED BY <1>1, <2>1, <3>1, <3>3 DEF MetaBlock
    <2>2. CASE disk'.table = disk.table
      BY <2>1, <2>2 DEF TableIn
    <2>3. ASSUME NEW name, len = 1,
                 disk'.table = Entered([t \in {name} |-> grant.addr - disk'.meta.first], disk.table)
          PROVE  TableIn'
      <3>1. /\ DOMAIN disk'.table = {name} \cup DOMAIN disk.table
            /\ disk'.table[name] = grant.addr - disk'.meta.first
            /\ \A t \in DOMAIN disk.table \ {name} : disk'.table[t] = disk.table[t]
        BY <2>3 DEF Entered
      <3>2. disk'.meta.first \in Int
        BY <1>1, <1>2
      <3>3. disk'.meta.first + disk'.table[name] = grant.addr
        BY <1>1, <3>1, <3>2
      <3>4. MetaBlock(disk, name)' \in MetaArea'
        <4>1. grant.addr \in given
          BY <1>1, <1>3, <2>3
        <4> QED BY <1>1, <3>3, <4>1 DEF MetaBlock
      <3>5. \A t \in DOMAIN disk.table \ {name} : MetaBlock(disk, t)' \in MetaArea'
        BY <2>1, <3>1
      <3> QED BY <3>1, <3>4, <3>5 DEF TableIn
    <2> QED BY <2>2, <2>3
  <1>8. Whole'
    <2>1. PICK new : new = {}
      OBVIOUS
    <2>2. Given(given, new)
      <3>1. PICK offset \in Nat : offset = MetaEnd(disk)
        BY <1>1
      <3>2. grant = AllocateSpace(disk.space, offset, len) /\ new \subseteq given \cup {0, 1}
            /\ given = ForkBlocks(Fork(grant.addr, len))
        BY <2>1, <3>1 DEF given
      <3> QED BY <3>2, GrantGiven
    <2>3. /\ DOMAIN disk'.blocks \subseteq DOMAIN disk.blocks \cup new
          /\ disk'.fixed \cup MetaArea' \subseteq (disk.fixed \cup MetaArea) \cup (given \ new)
      BY <1>1, <2>1
    <2> QED BY <2>2, <2>3, WholeGiven
  <1> QED BY <1>4, <1>5, <1>6, <1>7, <1>8 DEF KeepInv

\* The metadata is given what was nobody's, a block at a time.
LEMMA PlaceKeep ==
  ASSUME ImageInv, VerdictInv, AreasInv, KeepInv, [Next]_vars, PlaceSubsystem \/ PlacePreallocation
  PROVE  KeepInv' /\ Untouched
  <1>1. main.at = "place" /\ DiskLike(disk)
    BY DEF PlaceSubsystem, PlacePreallocation, At, Past, ImageInv
  <1>2. CASE FailWith /\ UNCHANGED disk
    <2>1. main'.at = "exit"
      BY <1>2, Moved
    <2> QED BY <1>2, <2>1, StopKeep
  <1>3. CASE PlaceSubsystem /\ ~(FailWith /\ UNCHANGED disk)
    <2> DEFINE grant == AllocateSpace(disk.space, MetaEnd(disk), 1)
    <2>1. /\ grant.addr # Refused /\ Advance
          /\ disk' = EnterTable(ExtendMeta(disk, grant, 1), Subsystems[main.i], grant.addr)
      BY <1>3 DEF PlaceSubsystem
    <2> HIDE DEF grant
    <2>2. PICK g, d, name : g = grant /\ d = ExtendMeta(disk, g, 1) /\ name = Subsystems[main.i]
      OBVIOUS
    <2>3. g = AllocateSpace(disk.space, MetaEnd(disk), 1) /\ 1 \in Nat /\ g.addr # Refused
      BY <2>1, <2>2 DEF grant
    <2>4. disk' = [d EXCEPT !.table = Entered([t \in {name} |-> g.addr - d.meta.first], d.table)]
      BY <2>1, <2>2 DEF EnterTable
    <2>5. /\ d.space = g.space /\ d.fixed = disk.fixed /\ d.tables = disk.tables
          /\ d.blocks = disk.blocks /\ d.table = disk.table
          /\ d.meta.first = (IF disk.meta.first = 0 THEN g.addr ELSE disk.meta.first)
          /\ d.meta.count = disk.meta.count + 1
          /\ DOMAIN d = {"space", "blocks", "ranges", "fixed", "tables", "meta", "table"}
      BY <1>1, <2>2 DEF ExtendMeta, DiskLike
    <2>6. /\ disk'.space = g.space /\ disk'.fixed = disk.fixed /\ disk'.tables = disk.tables
          /\ disk'.blocks = disk.blocks /\ disk'.meta = d.meta
          /\ disk'.table = Entered([t \in {name} |-> g.addr - disk'.meta.first], disk.table)
      BY <2>4, <2>5
    <2>7. main'.at = "place"
      BY <1>1, <2>1, Moved
    <2>8. \E n : disk'.table = Entered([t \in {n} |-> g.addr - disk'.meta.first], disk.table)
      BY <2>6
    <2> QED BY <1>1, <2>3, <2>5, <2>6, <2>7, <2>8, MetaKeep
  <1>4. CASE PlacePreallocation /\ ~(FailWith /\ UNCHANGED disk)
    <2> DEFINE grant == AllocateSpace(disk.space, MetaEnd(disk), Preallocation)
    <2>1. /\ grant.addr # Refused /\ Goto("flush")
          /\ disk' = ExtendMeta(disk, grant, Preallocation)
      BY <1>4 DEF PlacePreallocation
    <2> HIDE DEF grant
    <2>2. PICK len \in Nat : len = Preallocation
      BY DEF Preallocation
    <2>3. grant = AllocateSpace(disk.space, MetaEnd(disk), len)
      BY <2>2 DEF grant
    <2>4. disk' = ExtendMeta(disk, grant, len)
      BY <2>1, <2>2
    <2>5. main'.at = "flush"
      BY <2>1, Moved
    <2>6. PICK g, d : g = grant /\ d = disk'
      OBVIOUS
    <2>7. g = AllocateSpace(disk.space, MetaEnd(disk), len) /\ g.addr # Refused
          /\ d = ExtendMeta(disk, g, len)
      BY <2>1, <2>3, <2>4, <2>6
    <2>8. /\ d.space = g.space /\ d.fixed = disk.fixed /\ d.tables = disk.tables
          /\ d.blocks = disk.blocks /\ d.table = disk.table
          /\ d.meta.first = (IF disk.meta.first = 0 THEN g.addr ELSE disk.meta.first)
          /\ d.meta.count = disk.meta.count + len
      BY <1>1, <2>7 DEF ExtendMeta, DiskLike
    <2> QED BY <1>1, <2>5, <2>6, <2>7, <2>8, MetaKeep
  <1> QED BY <1>2, <1>3, <1>4

\* When the image is written out, nothing is on its way to go wrong.
LEMMA FlushClean ==
  ASSUME Good, main.at = "flush"
  PROVE  ~Trouble
  <1>1. ~main.error /\ \A frame \in FrameNames : ~frames[frame].error
    BY DEF Good, SeenOk, FrameNames
  <1>2. /\ \A f \in Threads : ~files[f].bad
        /\ \A c \in Threads : ~chunkers[c].bad
    BY NobodyWorks
  <1> QED BY <1>1, <1>2 DEF Trouble

\* What is written at the end, and what is not.
LEMMA FlushBlocks ==
  ASSUME ImageInv, Flush
  PROVE  /\ disk'.space = disk.space /\ disk'.fixed = disk.fixed /\ disk'.tables = disk.tables
         /\ disk'.table = disk.table /\ disk'.meta = disk.meta
         /\ DOMAIN disk'.blocks = DOMAIN disk.blocks \cup {0, 1, 2, disk.tables}
                                    \cup {MetaBlock(disk, t) : t \in DOMAIN disk.table}
         /\ \A b \in DOMAIN disk.blocks \ {0, 1, 2, disk.tables} :
              (\A t \in DOMAIN disk.table : b # MetaBlock(disk, t)) =>
                disk'.blocks[b] = disk.blocks[b]
  <1> DEFINE names == {"space", "blocks", "ranges", "fixed", "tables", "meta", "table"}
             own == {MetaBlock(disk, t) : t \in DOMAIN disk.table}
  <1>1. DOMAIN disk = names
    BY DEF ImageInv, DiskLike
  <1>3. PICK trees : /\ DOMAIN trees = own
                     /\ FlushTrees(disk) = [disk EXCEPT !.blocks = Entered(trees, disk.blocks)]
    BY DEF FlushTrees
  <1>4. PICK d : d = FlushTrees(disk)
    OBVIOUS
  <1>5. /\ DOMAIN d = names /\ d.space = disk.space /\ d.fixed = disk.fixed
        /\ d.tables = disk.tables /\ d.table = disk.table /\ d.meta = disk.meta
        /\ d.blocks = Entered(trees, disk.blocks)
    BY <1>1, <1>3, <1>4
  <1>6. PICK snap : /\ DOMAIN snap = {2, d.tables}
                    /\ FlushSnapshot(d) = [d EXCEPT !.blocks = Entered(snap, d.blocks)]
    BY DEF FlushSnapshot
  <1>7. PICK e : e = FlushSnapshot(d)
    OBVIOUS
  <1>8. /\ DOMAIN e = names /\ e.space = disk.space /\ e.fixed = disk.fixed
        /\ e.tables = disk.tables /\ e.table = disk.table /\ e.meta = disk.meta
        /\ e.blocks = Entered(snap, d.blocks)
    BY <1>5, <1>6, <1>7
  <1>9. PICK super : /\ DOMAIN super = {0, 1}
                     /\ FlushSuperblocks(e) = [e EXCEPT !.blocks = Entered(super, e.blocks)]
    BY DEF FlushSuperblocks
  <1>10. disk' = FlushSuperblocks(e)
    BY <1>4, <1>7 DEF Flush
  <1>11. /\ disk'.space = disk.space /\ disk'.fixed = disk.fixed /\ disk'.tables = disk.tables
         /\ disk'.table = disk.table /\ disk'.meta = disk.meta
         /\ disk'.blocks = Entered(super, e.blocks)
    BY <1>8, <1>9, <1>10
  <1> HIDE DEF own, names
  <1>12. PICK b0, b1, b2, b3 : b0 = disk.blocks /\ b1 = d.blocks /\ b2 = e.blocks /\ b3 = disk'.blocks
    OBVIOUS
  <1>13. b1 = Entered(trees, b0) /\ b2 = Entered(snap, b1) /\ b3 = Entered(super, b2)
    BY <1>5, <1>8, <1>11, <1>12
  <1>14. /\ DOMAIN b1 = own \cup DOMAIN b0
         /\ \A b \in DOMAIN b0 : b \notin own => b1[b] = b0[b]
    <2>1. b1 = Entered(trees, b0) /\ DOMAIN trees = own
      BY <1>3, <1>13
    <2>2. /\ DOMAIN b1 = DOMAIN trees \cup DOMAIN b0
          /\ \A b \in DOMAIN b0 : b \notin DOMAIN trees => b1[b] = b0[b]
      BY ONLY <2>1 DEF Entered
    <2> QED BY ONLY <2>1, <2>2
  <1>15. /\ DOMAIN b2 = {2, disk.tables} \cup DOMAIN b1
         /\ \A b \in DOMAIN b1 : b \notin {2, disk.tables} => b2[b] = b1[b]
    <2>1. b2 = Entered(snap, b1) /\ DOMAIN snap = {2, disk.tables}
      BY <1>5, <1>6, <1>13
    <2>2. /\ DOMAIN b2 = DOMAIN snap \cup DOMAIN b1
          /\ \A b \in DOMAIN b1 : b \notin DOMAIN snap => b2[b] = b1[b]
      BY ONLY <2>1 DEF Entered
    <2> QED BY ONLY <2>1, <2>2
  <1>16. /\ DOMAIN b3 = {0, 1} \cup DOMAIN b2
         /\ \A b \in DOMAIN b2 : b \notin {0, 1} => b3[b] = b2[b]
    <2>1. b3 = Entered(super, b2) /\ DOMAIN super = {0, 1}
      BY <1>9, <1>13
    <2>2. /\ DOMAIN b3 = DOMAIN super \cup DOMAIN b2
          /\ \A b \in DOMAIN b2 : b \notin DOMAIN super => b3[b] = b2[b]
      BY ONLY <2>1 DEF Entered
    <2> QED BY ONLY <2>1, <2>2
  <1>17. DOMAIN disk'.blocks = DOMAIN disk.blocks \cup {0, 1, 2, disk.tables} \cup own
    BY ONLY <1>12, <1>14, <1>15, <1>16
  <1>18. ASSUME NEW b \in DOMAIN disk.blocks \ {0, 1, 2, disk.tables}, b \notin own
         PROVE  disk'.blocks[b] = disk.blocks[b]
    BY ONLY <1>12, <1>14, <1>15, <1>16, <1>18
  <1>19. \A b : (\A t \in DOMAIN disk.table : b # MetaBlock(disk, t)) => b \notin own
    BY DEF own
  <1> QED BY <1>11, <1>17, <1>18, <1>19 DEF own

\* The metadata is written where nothing else is.
LEMMA FlushKeep ==
  ASSUME ImageInv, VerdictInv, AreasInv, KeepInv, Flush
  PROVE  KeepInv' /\ Untouched
  <1>1. main.at = "flush" /\ main'.at = "exit"
    BY Moved DEF Flush
  <1> DEFINE own == {MetaBlock(disk, t) : t \in DOMAIN disk.table}
  <1>2. /\ disk'.space = disk.space /\ disk'.fixed = disk.fixed /\ disk'.tables = disk.tables
        /\ disk'.table = disk.table /\ disk'.meta = disk.meta
        /\ DOMAIN disk'.blocks = DOMAIN disk.blocks \cup {0, 1, 2, disk.tables} \cup own
        /\ \A b \in DOMAIN disk.blocks \ {0, 1, 2, disk.tables} :
             b \notin own => disk'.blocks[b] = disk.blocks[b]
    BY FlushBlocks
  <1>3. own \subseteq MetaArea /\ {2, disk.tables} \subseteq disk.fixed
    BY <1>1 DEF KeepInv, TableIn, FixedIn, Later
  <1> HIDE DEF own
  <1>4. faults.lost = {} =>
          \A b \in DOMAIN disk.blocks \ {0, 1} : b \notin disk.fixed \cup MetaArea
    <2>1. ~Trouble
      BY <1>1, FlushClean DEF VerdictInv
    <2> QED BY <1>1, <2>1 DEF KeepInv, Whole, Making, Later
  <1>5. Untouched
    BY <1>1, <1>2, <1>3, <1>4 DEF Untouched
  <1>6. FixedIn' /\ RoomAhead' /\ Whole'
    BY <1>1 DEF FixedIn, RoomAhead, Whole, Making, Early, Later, Filling
  <1>7. TableIn' /\ InFront(disk.space)'
    BY <1>2 DEF KeepInv, TableIn, MetaArea, MetaBlock
  <1>8. BlocksLike(disk'.blocks)
    <2>1. PICK n \in Nat : DOMAIN disk.blocks \subseteq 0 .. n
      BY DEF KeepInv, BlocksLike
    <2>2. PICK first, count \in Nat : MetaArea = first .. first + count - 1
      BY DEF MetaArea, ImageInv, DiskLike
    <2>3. PICK tables \in Nat : tables = disk.tables
      BY <1>3 DEF AreasInv, Apart
    <2>4. PICK end \in Nat : end = n + first + count + tables + 2
      OBVIOUS
    <2>5. 0 .. n \subseteq 0 .. end /\ first .. first + count - 1 \subseteq 0 .. end
          /\ {0, 1, 2, tables} \subseteq 0 .. end
      BY <2>4
    <2>6. DOMAIN disk'.blocks \subseteq 0 .. end
      BY <1>2, <1>3, <2>1, <2>2, <2>3, <2>5
    <2>7. 0 \in DOMAIN disk'.blocks
      BY <1>2
    <2> QED BY <2>6, <2>7 DEF BlocksLike
  <1> QED BY <1>5, <1>6, <1>7, <1>8 DEF KeepInv

--------------------------------------------------------------------------------
(* A thread writes a file: its data where the next free block is, the table *)
(* at the end of the image.                                                 *)

\* What has a value for each number up to n is a sequence of that length.
LEMMA FunSeq ==
  ASSUME NEW n \in Nat, NEW s, NEW S, s \in [1 .. n -> S]
  PROVE  IsSeq(s) /\ Len(s) = n
  <1>1. s \in Seq(S)
    OBVIOUS
  <1>2. DOMAIN s = 1 .. Len(s) /\ Len(s) \in Nat
    BY <1>1
  <1>3. Len(s) = n
    BY <1>2
  <1> QED BY <1>1, <1>3 DEF IsSeq

LEMMA JoinSeq ==
  ASSUME NEW s, NEW t, IsSeq(s), IsSeq(t)
  PROVE  IsSeq(s \o t) /\ Len(s \o t) = Len(s) + Len(t)
  <1>1. PICK S, T : s \in Seq(S) /\ t \in Seq(T)
    BY DEF IsSeq
  <1>2. PICK U : U = S \cup T
    OBVIOUS
  <1>3. s \in Seq(U) /\ t \in Seq(U)
    BY <1>1, <1>2
  <1>4. s \o t \in Seq(U) /\ Len(s \o t) = Len(s) + Len(t)
    BY <1>3
  <1> QED BY <1>4 DEF IsSeq

\* What is stored of a file: as many cells as chunks were kept.
LEMMA StoredLen ==
  ASSUME NEW t, PackLike(t)
  PROVE  /\ IsSeq(StoredData(t, RawChunks(t)))
         /\ Len(StoredData(t, RawChunks(t))) = t.raw + Len(t.pack)
  <1>1. t.raw \in Nat /\ DOMAIN t.pack = 1 .. Len(t.pack) /\ Len(t.pack) \in Nat
    BY SeqLen DEF PackLike
  <1>2. PICK chunks : chunks = RawChunks(t)
    OBVIOUS
  <1>3. DOMAIN chunks = 1 .. t.raw
    BY <1>2 DEF RawChunks
  <1> DEFINE front == [i \in DOMAIN chunks |-> DataCell(t.job.cells[chunks[i]], FALSE)]
             back == [i \in DOMAIN t.pack |-> Packed(t.pack[i])]
  <1>4. PICK n, m \in Nat : n = t.raw /\ m = Len(t.pack)
    BY <1>1
  <1>5. front \in [1 .. n -> {front[i] : i \in 1 .. n}]
    BY <1>3, <1>4
  <1>6. back \in [1 .. m -> {back[i] : i \in 1 .. m}]
    BY <1>1, <1>4
  <1>7. StoredData(t, RawChunks(t)) = front \o back
    BY <1>2 DEF StoredData
  <1> HIDE DEF front, back
  <1>8. IsSeq(front) /\ Len(front) = n /\ IsSeq(back) /\ Len(back) = m
    BY <1>5, <1>6, FunSeq
  <1> QED BY <1>4, <1>7, <1>8, JoinSeq

\* The blocks of the image once a file and its table are written: what was in
\* front of them is there still and, if every block was, nothing else is but
\* the place the space manager is asked for.
LEMMA WrittenBlocks ==
  ASSUME ImageInv, AreasInv, KeepInv,
         main.at \in {"tune", "folder", "box", "undefined"}, Room(disk.space),
         NEW dst, dst = MetadataSize(disk.space),
         NEW stored, IsSeq(stored), NEW cell,
         NEW d, d = WithTable(Stored(disk, dst, stored), cell)
  PROVE  /\ dst \in Nat /\ dst > 0
         /\ DOMAIN d = DOMAIN disk /\ d.space = disk.space /\ d.ranges = disk.ranges
         /\ d.fixed = disk.fixed /\ d.meta = disk.meta /\ d.tables = disk.tables
         /\ d.table = disk.table /\ BlocksLike(d.blocks)
         /\ \A b \in DOMAIN disk.blocks :
              b < dst => b \in DOMAIN d.blocks /\ d.blocks[b] = disk.blocks[b]
         /\ \A b \in DOMAIN disk.blocks : Taken(disk.space, b) => b < dst
         /\ Len(stored) > 0 => \A b \in DOMAIN d.blocks : b < dst => b \in DOMAIN disk.blocks
         /\ Len(stored) > 0 /\ (\A b \in DOMAIN disk.blocks \ {0, 1} : b < dst) =>
              DOMAIN d.blocks \subseteq
                DOMAIN disk.blocks \cup ForkBlocks(Fork(dst, Len(stored) + 1))
  <1>1. GoodSpace(disk.space) /\ FrontOk /\ InFront(disk.space) /\ BlocksLike(disk.blocks)
    BY DEF ImageInv, DiskLike, AreasInv, KeepInv
  <1>2. dst \in Nat
    BY <1>1, NextOffset DEF Room
  <1>3. dst > 0
    <2>1. CASE main.at = "undefined"
      BY <2>1 DEF KeepInv, RoomAhead
    <2>2. CASE main.at \in {"tune", "folder", "box"}
      BY <1>1, <2>2 DEF FrontOk, Filling
    <2> QED BY <2>1, <2>2
  <1>8. PICK blocks, first, both : /\ blocks = disk.blocks /\ first = Put(blocks, dst, stored)
                                   /\ both = Put(first, EndOf(first), <<cell>>)
    OBVIOUS
  <1>9. DOMAIN disk = {"space", "blocks", "ranges", "fixed", "tables", "meta", "table"}
    BY DEF ImageInv, DiskLike
  <1>10. /\ DOMAIN d = DOMAIN disk /\ d.space = disk.space /\ d.ranges = disk.ranges
         /\ d.fixed = disk.fixed /\ d.meta = disk.meta /\ d.tables = disk.tables
         /\ d.table = disk.table /\ d.blocks = both
    <2>1. PICK e : e = Stored(disk, dst, stored)
      OBVIOUS
    <2>2. e = [disk EXCEPT !.blocks = first]
      BY <1>8, <2>1 DEF Stored
    <2>3. d = [e EXCEPT !.blocks = Put(@, EndOf(@), <<cell>>)]
      BY <2>1 DEF WithTable
    <2> QED BY <1>8, <1>9, <2>2, <2>3
  <1>11. BlocksLike(blocks)
    BY <1>1, <1>8
  <1>12. PICK n, end \in Nat : n = Len(stored) /\ end = EndOf(first)
    <2>1. BlocksLike(first)
      BY <1>2, <1>8, <1>11, PutLike
    <2> QED BY <2>1, SeqLen, EndBehind
  <1>13. /\ BlocksLike(both)
         /\ DOMAIN both = DOMAIN blocks \cup (dst .. dst + n - 1) \cup {end}
         /\ \A b \in DOMAIN blocks : b < dst => b \in DOMAIN both /\ both[b] = blocks[b]
         /\ n > 0 => end >= dst + n
         /\ n > 0 /\ dst > 0 /\ (\A b \in DOMAIN blocks \ {0, 1} : b < dst) => end = dst + n
    <2>1. /\ dst \in Nat /\ IsSeq(stored) /\ n = Len(stored) /\ BlocksLike(blocks)
          /\ first = Put(blocks, dst, stored) /\ end = EndOf(first)
          /\ both = Put(first, end, <<cell>>)
      BY <1>2, <1>8, <1>11, <1>12
    <2>2. /\ DOMAIN first = DOMAIN blocks \cup dst .. dst + n - 1
          /\ \A b \in DOMAIN blocks : b \notin dst .. dst + n - 1 => first[b] = blocks[b]
      <3>1. /\ DOMAIN Put(blocks, dst, stored) = DOMAIN blocks \cup dst .. dst + Len(stored) - 1
            /\ \A b \in DOMAIN blocks : b \notin dst .. dst + Len(stored) - 1 =>
                 Put(blocks, dst, stored)[b] = blocks[b]
        BY ONLY <2>1, PutBlocks
      <3> QED BY ONLY <2>1, <3>1
    <2>3. BlocksLike(first)
      BY ONLY <2>1, PutLike
    <2>5. end - 1 \in DOMAIN first /\ \A b \in DOMAIN first : b \in Nat /\ b < end
      BY <2>1, <2>3, EndBehind
    <2>6. PICK last : last = <<cell>>
      OBVIOUS
    <2>7. IsSeq(last) /\ Len(last) = 1
      <3>1. last \in Seq({cell}) /\ Len(last) = 1
        BY <2>6
      <3> QED BY <3>1 DEF IsSeq
    <2>8. both = Put(first, end, last)
      BY <2>1, <2>6
    <2>9. /\ DOMAIN both = DOMAIN first \cup end .. end + Len(last) - 1
          /\ \A b \in DOMAIN first : b \notin end .. end + Len(last) - 1 => both[b] = first[b]
      <3>1. /\ DOMAIN Put(first, end, last) = DOMAIN first \cup end .. end + Len(last) - 1
            /\ \A b \in DOMAIN first : b \notin end .. end + Len(last) - 1 =>
                 Put(first, end, last)[b] = first[b]
        BY ONLY <2>7, end \in Nat, PutBlocks
      <3> QED BY ONLY <2>8, <3>1
    <2>10. end .. end + Len(last) - 1 = {end}
      BY <2>7
    <2>11. BlocksLike(both)
      BY <2>3, <2>7, <2>8, PutLike
    <2>12. DOMAIN both = DOMAIN blocks \cup (dst .. dst + n - 1) \cup {end}
      BY <2>2, <2>9, <2>10
    <2>13. ASSUME NEW b \in DOMAIN blocks, b < dst
           PROVE  b \in DOMAIN both /\ both[b] = blocks[b]
      <3>1. b \in DOMAIN first /\ b \in Nat /\ b < end
        BY <2>1, <2>2, <2>5, <2>13
      <3>2. b \notin dst .. dst + n - 1 /\ b # end
        BY <2>1, <2>13, <3>1
      <3>3. first[b] = blocks[b]
        BY <2>2, <2>13, <3>2
      <3> QED BY <2>9, <2>10, <3>1, <3>2, <3>3
    <2>14. n > 0 => end >= dst + n
      <3>1. n > 0 => dst + n - 1 \in DOMAIN first
        BY <2>1, <2>2
      <3> QED BY <2>1, <2>5, <3>1
    <2>15. ASSUME n > 0, dst > 0, \A b \in DOMAIN blocks \ {0, 1} : b < dst
           PROVE  end = dst + n
      <3>1. end - 1 \in {0, 1} \/ end - 1 < dst \/ end - 1 \in dst .. dst + n - 1
        BY <2>1, <2>2, <2>5, <2>15
      <3>2. end - 1 <= dst + n - 1
        BY <2>1, <2>15, <3>1
      <3> QED BY <2>1, <2>14, <2>15, <3>2
    <2> QED BY <2>11, <2>12, <2>13, <2>14, <2>15
  <1>14. \A b \in DOMAIN disk.blocks : b \in Nat
    BY <1>1, EndBehind
  <1>15. \A b \in DOMAIN disk.blocks : Taken(disk.space, b) => b < dst
    BY <1>1, <1>14 DEF InFront
  <1>17. ASSUME n > 0, NEW b \in DOMAIN both, b < dst
         PROVE  b \in DOMAIN blocks
    BY <1>2, <1>13, <1>17
  <1>18. ASSUME n > 0, \A b \in DOMAIN blocks \ {0, 1} : b < dst
         PROVE  DOMAIN both \subseteq DOMAIN blocks \cup ForkBlocks(Fork(dst, n + 1))
    <2>1. end = dst + n
      BY <1>3, <1>13, <1>18
    <2>2. ForkBlocks(Fork(dst, n + 1)) = dst .. dst + n
      <3>1. dst + (n + 1) - 1 = dst + n
        BY <1>2
      <3> QED BY <3>1 DEF ForkBlocks, Fork
    <2>3. dst .. dst + n - 1 \subseteq dst .. dst + n /\ end \in dst .. dst + n
      BY <1>2, <2>1
    <2> QED BY <1>13, <2>2, <2>3
  <1> QED BY <1>2, <1>3, <1>8, <1>10, <1>12, <1>13, <1>15, <1>17, <1>18

\* The same before the table is written.
LEMMA StoredBlocks ==
  ASSUME ImageInv, KeepInv, NEW dst \in Nat, NEW stored, IsSeq(stored),
         NEW d, d = Stored(disk, dst, stored)
  PROVE  /\ DOMAIN d = DOMAIN disk /\ d.space = disk.space /\ d.ranges = disk.ranges
         /\ d.fixed = disk.fixed /\ d.meta = disk.meta /\ d.tables = disk.tables
         /\ d.table = disk.table /\ BlocksLike(d.blocks)
         /\ \A b \in DOMAIN disk.blocks :
              b < dst => b \in DOMAIN d.blocks /\ d.blocks[b] = disk.blocks[b]
  <1>1. /\ DOMAIN d = DOMAIN disk /\ d.space = disk.space /\ d.ranges = disk.ranges
        /\ d.fixed = disk.fixed /\ d.meta = disk.meta /\ d.tables = disk.tables
        /\ d.table = disk.table /\ d.blocks = Put(disk.blocks, dst, stored)
    BY DEF Stored, ImageInv, DiskLike
  <1>2. PICK blocks : blocks = disk.blocks
    OBVIOUS
  <1>3. BlocksLike(blocks) /\ d.blocks = Put(blocks, dst, stored)
    BY <1>1, <1>2 DEF KeepInv
  <1>4. BlocksLike(d.blocks)
    BY <1>3, PutLike
  <1>5. ASSUME NEW b \in DOMAIN blocks, b < dst
        PROVE  b \in DOMAIN d.blocks /\ d.blocks[b] = blocks[b]
    <2>1. b \notin dst .. dst + Len(stored) - 1
      BY <1>5, <1>3, EndBehind
    <2>2. /\ DOMAIN Put(blocks, dst, stored) = DOMAIN blocks \cup dst .. dst + Len(stored) - 1
          /\ \A x \in DOMAIN blocks : x \notin dst .. dst + Len(stored) - 1 =>
               Put(blocks, dst, stored)[x] = blocks[x]
      BY ONLY dst \in Nat, IsSeq(stored), PutBlocks
    <2> QED BY ONLY <1>3, <1>5, <2>1, <2>2
  <1> QED BY <1>1, <1>2, <1>4, <1>5

\* A part of a sequence is one, and so are two parts put together.
LEMMA PartSeq ==
  ASSUME NEW s, IsSeq(s), NEW i \in Nat, i > 0, NEW j \in Int, j <= Len(s)
  PROVE  IsSeq(SubSeq(s, i, j))
  <1>1. PICK S : s \in Seq(S)
    BY DEF IsSeq
  <1>2. Len(s) \in Nat
    BY SeqLen
  <1>3. SubSeq(s, i, j) \in Seq(S)
    BY <1>1, <1>2
  <1> QED BY <1>3 DEF IsSeq

\* What is written is all that was kept of the file, or a write was lost; what
\* is left behind by a failure lies where the file was to be.
LEMMA WriteCases ==
  ASSUME PackInv, NEW f \in Threads, Writes(f)
  PROVE  \/ FileFails(f) /\ UNCHANGED disk
         \/ /\ ~Full
            /\ \E cells, table :
                 /\ IsSeq(cells) /\ Puts(f, cells, table)
                 /\ \/ Len(cells) = files[f].raw + Len(files[f].pack)
                    \/ faults'.lost # {}
         \/ /\ ~Full
            /\ \E cells, table :
                 /\ IsSeq(cells)
                 /\ \/ Leaves(f, Stored(disk, MetadataSize(disk.space), cells))
                    \/ Leaves(f, WithTable(Stored(disk, MetadataSize(disk.space), cells), table))
  <1> DEFINE written == Written(files[f])
  <1>1. /\ IsSeq(written) /\ Len(written) = files[f].raw + Len(files[f].pack)
        /\ files[f].raw \in Nat /\ Len(files[f].pack) \in Nat
        /\ DOMAIN written = 1 .. Len(written) /\ Len(written) \in Nat
    <2>1. PackLike(files[f])
      BY DEF PackInv
    <2>2. IsSeq(written) /\ Len(written) = files[f].raw + Len(files[f].pack)
      BY <2>1, StoredLen DEF Written
    <2> QED BY <2>1, <2>2, SeqLen DEF PackLike
  <1>2. CASE WriteImage(f)
    <2>1. CASE ~Full
      <3>1. Puts(f, written, Table(files[f]))
        BY <1>2, <2>1 DEF WriteImage, Write, Puts
      <3> HIDE DEF written
      <3> QED BY <1>1, <2>1, <3>1
    <2> QED BY <1>2, <2>1 DEF WriteImage
  <1>3. CASE WriteLost(f)
    <2>1. PICK i, j \in DOMAIN written :
            i <= j /\ Puts(f, Without(written, i, j), Table(files[f]))
      BY <1>3 DEF WriteLost, Write, Puts
    <2>2. faults'.lost # {} /\ ~Full
      BY <1>3 DEF WriteLost, FailureLost
    <2> HIDE DEF written
    <2>3. IsSeq(Without(written, i, j))
      <3>1. IsSeq(SubSeq(written, 1, i - 1)) /\ IsSeq(SubSeq(written, j + 1, Len(written)))
        BY <1>1, PartSeq
      <3> QED BY <3>1, JoinSeq DEF Without
    <2> QED BY <2>1, <2>2, <2>3
  <1>4. CASE WriteFails(f)
    <2>1. FileFails(f) /\ ~Full
      BY <1>4 DEF WriteFails
    <2>2. CASE \E n \in 0 .. files[f].raw :
                 disk' = Stored(disk, MetadataSize(disk.space), SubSeq(written, 1, n))
      <3>1. PICK n \in 0 .. files[f].raw :
              Leaves(f, Stored(disk, MetadataSize(disk.space), SubSeq(written, 1, n)))
        BY <2>1, <2>2 DEF Leaves
      <3> HIDE DEF written
      <3>2. IsSeq(SubSeq(written, 1, n))
        BY <1>1, PartSeq
      <3> QED BY <2>1, <3>1, <3>2
    <2>3. CASE disk' = Stored(disk, MetadataSize(disk.space), written)
      <3>1. Leaves(f, Stored(disk, MetadataSize(disk.space), written))
        BY <2>1, <2>3 DEF Leaves
      <3> HIDE DEF written
      <3> QED BY <1>1, <2>1, <3>1
    <2>4. CASE disk' = WithTable(Stored(disk, MetadataSize(disk.space), written), TreeCell("torn"))
      <3>1. Leaves(f, WithTable(Stored(disk, MetadataSize(disk.space), written), TreeCell("torn")))
        BY <2>1, <2>4 DEF Leaves
      <3> HIDE DEF written
      <3> QED BY <1>1, <2>1, <3>1
    <2> QED BY <1>4, <2>2, <2>3, <2>4 DEF WriteFails
  <1> HIDE DEF written
  <1> QED BY <1>2, <1>3, <1>4 DEF Writes

\* A file that fails is trouble.
LEMMA FailsTrouble ==
  ASSUME ImageInv, NEW f \in Threads, FileFails(f)
  PROVE  Trouble'
  <1>1. DOMAIN files = Threads /\ DOMAIN files[f] = FileNames
    BY DEF ImageInv, FilesOk, FileLike, FileNames
  <1>2. files' = [files EXCEPT ![f].pc = "finish", ![f].bad = TRUE]
    BY DEF FileFails
  <1>3. files'[f].bad = TRUE
    BY <1>1, <1>2 DEF FileNames
  <1>4. files'[f].bad
    BY <1>3, Zenon
  <1> QED BY <1>4 DEF Trouble

\* A thread that writes has work, main waits for it, and there is room.
LEMMA WriteWhere ==
  ASSUME ImageInv, VerdictInv, NEW f \in Threads, Writes(f)
  PROVE  /\ UNCHANGED <<plan, main>> /\ files[f].pc = "write" /\ ~AllocateFixedArea
         /\ main.at \in {"tune", "folder", "box", "undefined"}
         /\ ~Full => Room(disk.space)
  <1>1. UNCHANGED <<plan, main>> /\ files[f].pc = "write"
    BY WritesAre
  <1>2. main.at \in {"tune", "folder", "box", "undefined"}
    BY <1>1, BusyWhere DEF VerdictInv, Idle
  <1> QED BY <1>1, <1>2 DEF AllocateFixedArea, At, Full, Room, ImageInv, KindOk

\* A failed write is trouble; what it leaves lies behind what was given out.
LEMMA LeavesKeep ==
  ASSUME ImageInv, VerdictInv, AreasInv, KeepInv, [Next]_vars, NEW f \in Threads, Writes(f),
         ~Full, NEW dst, dst = MetadataSize(disk.space), NEW cells, IsSeq(cells), NEW table,
         NEW d, d = Stored(disk, dst, cells) \/ d = WithTable(Stored(disk, dst, cells), table),
         Leaves(f, d)
  PROVE  KeepInv' /\ Untouched
  <1>1. /\ UNCHANGED <<plan, main>> /\ ~AllocateFixedArea /\ Room(disk.space)
        /\ main.at \in {"tune", "folder", "box", "undefined"}
    BY WriteWhere
  <1>2. GoodSpace(disk.space) /\ InFront(disk.space)
    BY DEF ImageInv, DiskLike, KeepInv
  <1>3. dst \in Nat
    BY <1>1, <1>2, NextOffset DEF Room
  <1>4. \A b \in DOMAIN disk.blocks : Taken(disk.space, b) => b < dst
    <2>1. \A b \in DOMAIN disk.blocks : b \in Nat
      BY EndBehind DEF KeepInv
    <2> QED BY <1>1, <1>2, <2>1 DEF InFront
  <1>5. /\ d.space = disk.space /\ d.fixed = disk.fixed /\ d.meta = disk.meta
        /\ d.tables = disk.tables /\ d.table = disk.table /\ BlocksLike(d.blocks)
        /\ \A b \in DOMAIN disk.blocks :
             b < dst => b \in DOMAIN d.blocks /\ d.blocks[b] = disk.blocks[b]
    <2>1. CASE d = Stored(disk, dst, cells)
      BY ONLY ImageInv, KeepInv, <1>3, <2>1, IsSeq(cells), StoredBlocks
    <2>2. CASE d = WithTable(Stored(disk, dst, cells), table)
      BY ONLY ImageInv, AreasInv, KeepInv, <1>1, <2>2, dst = MetadataSize(disk.space),
              IsSeq(cells), WrittenBlocks
    <2> QED BY <2>1, <2>2
  <1>6. disk' = d /\ FileFails(f)
    BY DEF Leaves
  <1>7. FixedIn'
    BY <1>1, <1>5, <1>6, FixedInStays DEF KeepInv
  <1>8. TableIn' /\ InFront(disk.space)' /\ BlocksLike(disk.blocks)'
    BY <1>5, <1>6 DEF KeepInv, TableIn, MetaArea, MetaBlock
  <1>9. RoomAhead' /\ Whole'
    BY <1>1, <1>5, <1>6, FailsTrouble DEF KeepInv, RoomAhead, Whole
  <1>10. Untouched
    BY <1>4, <1>5, <1>6 DEF Untouched
  <1> QED BY <1>7, <1>8, <1>9, <1>10 DEF KeepInv

\* A file and its table are written behind what was given out.
LEMMA PutsKeep ==
  ASSUME ImageInv, VerdictInv, AreasInv, PackInv, KeepInv, [Next]_vars,
         NEW f \in Threads, Writes(f), ~Full, NEW cells, IsSeq(cells), NEW table,
         Puts(f, cells, table),
         Len(cells) = files[f].raw + Len(files[f].pack) \/ faults'.lost # {}
  PROVE  KeepInv' /\ Untouched
  <1>1. UNCHANGED <<plan, main>> /\ files[f].pc = "write"
    BY WriteWhere
  <1>2. main.at \in {"tune", "folder", "box", "undefined"}
    BY WriteWhere
  <1>3. ~AllocateFixedArea
    BY WriteWhere
  <1>5. PICK len \in Nat : len = Len(files[f].job.cells) + 1
    BY SeqLen DEF ImageInv, FilesOk, FileLike
  <1>55. main.at # "undefined" /\ faults'.lost = {} => Len(cells) > 0 /\ len = Len(cells) + 1
    <2>1. main.at # "undefined" => PackOk(f)
      BY DEF PackInv
    <2> QED BY <1>1, <1>5, <2>1 DEF PackOk, Idle
  <1>6. CASE Room(disk.space)
    <2>1. PICK dst : dst = MetadataSize(disk.space)
      OBVIOUS
    <2>2. PICK d : d = WithTable(Stored(disk, dst, cells), table)
      OBVIOUS
    <2>3. /\ dst \in Nat /\ dst > 0
          /\ DOMAIN d = DOMAIN disk /\ d.space = disk.space /\ d.ranges = disk.ranges
          /\ d.fixed = disk.fixed /\ d.meta = disk.meta /\ d.tables = disk.tables
          /\ d.table = disk.table /\ BlocksLike(d.blocks)
          /\ \A b \in DOMAIN disk.blocks :
               b < dst => b \in DOMAIN d.blocks /\ d.blocks[b] = disk.blocks[b]
          /\ \A b \in DOMAIN disk.blocks : Taken(disk.space, b) => b < dst
          /\ Len(cells) > 0 => \A b \in DOMAIN d.blocks : b < dst => b \in DOMAIN disk.blocks
          /\ Len(cells) > 0 /\ (\A b \in DOMAIN disk.blocks \ {0, 1} : b < dst) =>
               DOMAIN d.blocks \subseteq DOMAIN disk.blocks \cup ForkBlocks(Fork(dst, Len(cells) + 1))
      BY ONLY ImageInv, AreasInv, KeepInv, <1>2, <1>6, <2>1, <2>2, IsSeq(cells), WrittenBlocks
    <2>4. DOMAIN disk = {"space", "blocks", "ranges", "fixed", "tables", "meta", "table"}
      BY DEF ImageInv, DiskLike
    <2>5. PICK twin, grant : /\ twin = (IF plan.readOnly THEN DuplicateOf(d, dst, len) ELSE 0)
                             /\ grant = AllocateSpace(disk.space, dst, len)
      OBVIOUS
    <2>6. \/ disk' = DropCopy(d, dst)
          \/ disk' = d /\ FileFails(f)
          \/ /\ grant.addr # Refused
             /\ disk' = AddRange([d EXCEPT !.space = grant.space], Fork(grant.addr, len))
      <3>1. SettleNew(f, d, dst, len)
        BY <1>5, <2>1, <2>2 DEF Puts
      <3> QED BY <2>3, <2>5, <3>1 DEF SettleNew, Settle, TakeSpace
    \* What every outcome leaves alone.
    <2>7. ASSUME disk'.fixed = disk.fixed, disk'.tables = disk.tables, disk'.meta = disk.meta,
                 disk'.table = disk.table,
                 \A b \in DOMAIN d.blocks :
                   b < dst => b \in DOMAIN disk'.blocks /\ disk'.blocks[b] = d.blocks[b]
          PROVE  FixedIn' /\ TableIn' /\ Untouched /\ MetaArea' = MetaArea
      <3>1. FixedIn'
        BY <1>3, <2>7, FixedInStays DEF KeepInv
      <3>2. MetaArea' = MetaArea /\ TableIn'
        BY <2>7 DEF KeepInv, TableIn, MetaArea, MetaBlock
      <3>3. Untouched
        BY <2>3, <2>7 DEF Untouched
      <3> QED BY <3>1, <3>2, <3>3
    <2>8. CASE disk' = DropCopy(d, dst)
      <3>1. /\ disk'.space = disk.space /\ disk'.fixed = disk.fixed /\ disk'.tables = disk.tables
            /\ disk'.meta = disk.meta /\ disk'.table = disk.table
            /\ disk'.blocks = Truncate(d.blocks, dst)
        BY <2>3, <2>4, <2>8 DEF DropCopy
      <3>2. PICK blocks : blocks = d.blocks
        OBVIOUS
      <3>3. /\ DOMAIN disk'.blocks = {b \in DOMAIN blocks : b < dst}
            /\ \A b \in DOMAIN disk'.blocks : disk'.blocks[b] = blocks[b]
        BY <3>1, <3>2 DEF Truncate
      <3>4. BlocksLike(disk.blocks)'
        <4>1. BlocksLike(Truncate(blocks, dst))
          BY <2>3, <3>2, CutLike
        <4> QED BY <3>1, <3>2, <4>1
      <3>5. FixedIn' /\ TableIn' /\ Untouched /\ MetaArea' = MetaArea
        BY <2>7, <3>1, <3>2, <3>3
      <3>6. RoomAhead' /\ InFront(disk.space)'
        BY <1>1, <3>1 DEF KeepInv, RoomAhead
      <3>7. Whole'
        <4>1. SUFFICES ASSUME main'.at \in Making, ~Trouble', faults'.lost = {},
                              NEW b \in DOMAIN disk'.blocks \ {0, 1}
                       PROVE  Taken(disk'.space, b) /\ b \notin disk'.fixed \cup MetaArea'
          BY DEF Whole
        <4>2. main.at # "undefined"
          BY <1>1, <4>1 DEF Making, Early, Later, Filling
        <4>3. b \in DOMAIN disk.blocks \ {0, 1}
          BY <1>55, <2>3, <3>2, <3>3, <4>1, <4>2
        <4>4. Taken(disk.space, b) /\ b \notin disk.fixed \cup MetaArea
          BY <4>1, <4>3, MadeWhole DEF KeepInv, Whole
        <4> QED BY <3>1, <3>5, <4>4
      <3> QED BY <3>4, <3>5, <3>6, <3>7 DEF KeepInv
    <2>9. CASE disk' = d /\ FileFails(f)
      <3>1. FixedIn' /\ TableIn' /\ Untouched /\ MetaArea' = MetaArea
        BY <2>3, <2>7, <2>9
      <3>2. RoomAhead' /\ InFront(disk.space)' /\ BlocksLike(disk.blocks)'
        BY <1>1, <2>3, <2>9 DEF KeepInv, RoomAhead
      <3>3. Whole'
        BY <2>9, FailsTrouble DEF Whole
      <3> QED BY <3>1, <3>2, <3>3 DEF KeepInv
    <2>10. CASE /\ grant.addr # Refused
                /\ disk' = AddRange([d EXCEPT !.space = grant.space], Fork(grant.addr, len))
      <3>1. PICK e : e = [d EXCEPT !.space = grant.space]
        OBVIOUS
      <3>2. /\ DOMAIN e = DOMAIN disk /\ e.space = grant.space /\ e.fixed = disk.fixed
            /\ e.tables = disk.tables /\ e.meta = disk.meta /\ e.table = disk.table
            /\ e.blocks = d.blocks
        BY <2>3, <2>4, <3>1
      <3>3. /\ disk'.space = grant.space /\ disk'.fixed = disk.fixed /\ disk'.tables = disk.tables
            /\ disk'.meta = disk.meta /\ disk'.table = disk.table /\ disk'.blocks = d.blocks
        BY <2>10, <3>1, <3>2, <2>4 DEF AddRange
      <3>4. FixedIn' /\ TableIn' /\ Untouched /\ MetaArea' = MetaArea
        BY <2>7, <3>3
      <3>5. GoodSpace(disk.space) /\ OneExtent(disk.space) /\ InFront(disk.space)
        BY DEF ImageInv, DiskLike, AreasInv, FrontOk, KeepInv
      <3>6. InFront(disk.space)'
        BY <2>1, <2>3, <2>5, <2>10, <3>3, <3>5, FrontMoves
      <3>7. /\ grant.addr = dst
            /\ Room(grant.space) => MetadataSize(grant.space) = dst + len
        BY <2>1, <2>3, <2>5, <2>10, <3>5, FrontGrants
      <3>8. RoomAhead'
        BY <2>3, <3>3, <3>7 DEF RoomAhead
      <3>9. BlocksLike(disk.blocks)'
        BY <2>3, <3>3
      <3>10. PICK given : given = ForkBlocks(Fork(dst, len))
        OBVIOUS
      <3>11. Given(given, given)
        <4>1. given = ForkBlocks(Fork(grant.addr, len)) /\ given \subseteq given \cup {0, 1}
          BY <3>7, <3>10
        <4> QED BY <2>3, <2>5, <2>10, <3>3, <4>1, GrantGiven
      <3>12. Whole'
        <4>1. SUFFICES ASSUME main'.at \in Making, ~Trouble', faults'.lost = {}
                       PROVE  Whole'
          BY DEF Whole
        <4>2. main.at # "undefined"
          BY <1>1, <4>1 DEF Making, Early, Later, Filling
        <4>3. \A b \in DOMAIN disk.blocks \ {0, 1} : b < dst
          BY <2>3, <4>1, MadeWhole DEF KeepInv, Whole
        <4>4. DOMAIN disk'.blocks \subseteq DOMAIN disk.blocks \cup given
          BY <1>55, <2>3, <3>3, <3>10, <4>1, <4>2, <4>3
        <4>5. disk'.fixed \cup MetaArea' \subseteq (disk.fixed \cup MetaArea) \cup (given \ given)
          BY <3>3, <3>4
        <4> QED BY <3>11, <4>4, <4>5, WholeGiven
      <3> QED BY <3>4, <3>6, <3>8, <3>9, <3>12 DEF KeepInv
    <2> QED BY <2>6, <2>8, <2>9, <2>10
  <1> QED BY <1>6, WriteWhere

LEMMA WriteKeep ==
  ASSUME ImageInv, VerdictInv, AreasInv, PackInv, KeepInv, [Next]_vars,
         NEW f \in Threads, Writes(f)
  PROVE  KeepInv' /\ Untouched
  <1>1. CASE UNCHANGED disk
    BY <1>1, WriteWhere, QuietKeep
  <1>2. ASSUME ~Full, NEW cells, IsSeq(cells), NEW table, NEW d, Leaves(f, d),
               \/ d = Stored(disk, MetadataSize(disk.space), cells)
               \/ d = WithTable(Stored(disk, MetadataSize(disk.space), cells), table)
        PROVE  KeepInv' /\ Untouched
    BY <1>2, LeavesKeep
  <1> QED BY <1>1, <1>2, WriteCases, PutsKeep

--------------------------------------------------------------------------------
(* All steps together.                                                     *)

LEMMA KeepStep ==
  ASSUME ImageInv, VerdictInv, AreasInv, PackInv, KeepInv, [Next]_vars
  PROVE  KeepInv' /\ Untouched
  <1>1. CASE AllocateFixedArea
    BY <1>1, FixedKeep
  <1>2. CASE UNCHANGED disk /\ ~AllocateFixedArea
    BY <1>2, QuietKeep
  <1>3. CASE InsertData \/ InsertHlinkData
    BY <1>3, DataKeep
  <1>4. CASE CopyBox
    BY <1>4, CopyBoxKeep
  <1>5. CASE PlaceSubsystem \/ PlacePreallocation
    BY <1>5, PlaceKeep
  <1>6. CASE Flush
    BY <1>6, FlushKeep
  <1>7. ASSUME NEW f \in Threads, Writes(f)
        PROVE  KeepInv' /\ Untouched
    BY <1>7, WriteKeep
  <1>8. ASSUME MainStep
        PROVE  \/ UNCHANGED disk \/ AllocateFixedArea \/ InsertData \/ InsertHlinkData
               \/ CopyBox \/ PlaceSubsystem \/ PlacePreallocation \/ Flush
    <2>1. CASE ReadList \/ InsertMetadata \/ InsertHlinksMetadata \/ FixedAreasDone
      BY <2>1 DEF ReadList, InsertMetadata, InsertHlinksMetadata, FixedAreasDone
    <2>2. CASE TuneFile \/ TuneFolder \/ CompressDirEntry \/ CompressDirDone \/ TuneDone
      BY <2>2 DEF TuneFile, TuneFolder, CompressDirEntry, CompressDirDone, TuneDone
    <2>3. CASE InsertDataDone \/ InsertHlinksDone \/ SkipBox \/ SendBox \/ BoxSent \/ BoxesDone
      BY <2>3 DEF InsertDataDone, InsertHlinksDone, SkipBox, SendBox, BoxSent, BoxesDone
    <2>4. CASE StopThread \/ EndMkfs
      BY <2>4 DEF StopThread, EndMkfs
    <2> QED BY <1>8, <2>1, <2>2, <2>3, <2>4 DEF MainStep
  <1>9. CopyFails => UNCHANGED disk
    BY DEF CopyFails
  <1>10. ASSUME NEW t \in Threads, FileStep(t) \/ ChunkStep(t) \/ SplitFails(t) \/ AppendFails(t)
         PROVE  UNCHANGED disk \/ Writes(t)
    BY <1>10 DEF FileStep, TakeJob, Look, SplitChunk, ChunksDone, MarkRecord, FinishJob,
                 ChunkStep, TakeChunk, AppendChunk, RetireChunk, SplitFails, AppendFails, Writes
  <1>11. UnpackNext \/ UNCHANGED vars => UNCHANGED disk
    BY UnpackMadeStays DEF mkfsVars
  <1>12. \/ UNCHANGED disk \/ AllocateFixedArea \/ InsertData \/ InsertHlinkData
         \/ CopyBox \/ PlaceSubsystem \/ PlacePreallocation \/ Flush
         \/ \E f \in Threads : Writes(f)
    BY <1>8, <1>9, <1>10, <1>11 DEF Next, MkfsNext, Mishap, Writes
  <1> QED BY <1>1, <1>2, <1>3, <1>4, <1>5, <1>6, <1>7, <1>12

\* At first only the cleared superblocks are there.
LEMMA KeepInvInit ==
  ASSUME Init
  PROVE  KeepInv
  <1>1. MkfsInit /\ ImageInv /\ AreasInv
    BY ImageInvInit, AreasInvInit DEF Init
  <1>2. main.at = "list"
    BY <1>1 DEF MkfsInit
  <1>3. /\ disk.blocks = CleanSuperblocks /\ disk.table = <<>>
        /\ disk.space = NewSpace(plan.readOnly, plan.blocks)
    BY <1>1 DEF MkfsInit
  <1>4. DOMAIN disk.blocks = {0, 1}
    BY <1>3 DEF CleanSuperblocks
  <1>5. BlocksLike(disk.blocks)
    <2>1. {0, 1} \subseteq 0 .. 1 /\ 1 \in Nat
      OBVIOUS
    <2> QED BY <1>4, <2>1 DEF BlocksLike
  <1>6. InFront(disk.space)
    <2>1. ASSUME NEW b \in Nat
          PROVE  ~Taken(disk.space, b)
      BY <1>3 DEF Taken, NewSpace
    <2> QED BY <2>1 DEF InFront
  <1>7. DOMAIN disk.table = {}
    BY <1>3
  <1>8. TableIn
    BY <1>7 DEF TableIn
  <1>9. RoomAhead /\ FixedIn
    BY <1>2 DEF RoomAhead, FixedIn, Later, Filling
  <1>10. Whole
    BY <1>4 DEF Whole
  <1> QED BY <1>5, <1>6, <1>8, <1>9, <1>10 DEF KeepInv

\* What was written into a block that was given out is in the image to the
\* end, for every plan, any number of threads and any failures the code checks
\* for: neither main nor a thread writes over it, no thread cuts it off again
\* with a copy of data the image already holds, and the metadata goes
\* elsewhere.  Failures the code does not check for leave this to the threads
\* and to main up to its last step, the flush, which may then write over a
\* table put where the image ended too early.
THEOREM WrittenStays == Spec => KeepsData
  <1> DEFINE Inv == ImageInv /\ VerdictInv /\ AreasInv /\ PackInv /\ KeepInv
  <1>1. Init => Inv
    BY ImageInvInit, VerdictInvInit, AreasInvInit, PackInvInit, KeepInvInit
  <1>2. Inv /\ [Next]_vars => Inv'
    BY ImageInvStep, VerdictInvStep, AreasInvStep, PackInvStep, KeepStep
  <1>3. Inv /\ [Next]_vars
          => [\A b \in DOMAIN disk.blocks \ {0, 1} :
                Taken(disk.space, b) =>
                  \/ b \in DOMAIN disk'.blocks /\ disk'.blocks[b] = disk.blocks[b]
                  \/ faults.lost # {} /\ main.at = "flush"]_disk
    BY KeepStep DEF Untouched
  <1> QED BY <1>1, <1>2, <1>3, PTL DEF Spec, KeepsData
================================================================================
