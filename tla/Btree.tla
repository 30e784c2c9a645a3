-------------------------------- MODULE Btree --------------------------------
(***************************************************************************)
(* The B-tree of the vdfs-tools (lib/btree.c and lib/bnode.c), which holds *)
(* the catalog, the extents and the extended attributes of an image.       *)
(*                                                                         *)
(* A tree is a record: the bnodes by id, the ids in use (the bitmap in the *)
(* head), the root, the height, how many more bnodes memory allows, and    *)
(* whether a bnode overflowed or an assertion (VDFS4_BUG_ON) failed.  A    *)
(* record keeps its key, its length and, in an index bnode, the child it   *)
(* points to; the rest of a leaf's value never leads the algorithm.        *)
(* Bnodes of a level are chained by prev and next.  A bnode that the level *)
(* above does not point to is "dangling": the chain alone leads to it.     *)
(***************************************************************************)
EXTENDS Integers, Sequences, SequencesExt, FiniteSetsExt

CONSTANTS
  Keys, First,     \* as in OrderedMap
  RecLen,          \* [Keys \cup {First} -> length of the record of a key]
  IndexLen,        \* length of an index record
  NodeSize, Descr, Slot,   \* bytes of a bnode, its descriptor, one offset
  Built,           \* the keys the tree starts with, in insertion order
  Churned,         \* the keys inserted and removed after that
  MaxBnodes,       \* ids the bitmap has room for
  MaxFaults        \* operations that may meet a failing allocation

ASSUME KeysAssumption == Keys \subseteq Int /\ First \in Int /\ \A k \in Keys : First < k
\* Records are small against a bnode: both halves of a split hold several.
ASSUME NodeAssumption ==
  \A k \in Keys \cup {First} : 3 * (RecLen[k] + Slot) <= NodeSize - Descr
ASSUME IndexAssumption == 3 * (IndexLen + Slot) <= NodeSize - Descr

VARIABLES
  tree, reply, faults,
  contents         \* auxiliary: the keys in the leaves of tree

vars == <<tree, reply, faults, contents>>

-----------------------------------------------------------------------------
(* Records in a bnode; positions count from 1 and 0 means "not found". *)

NoNode == 0

RecordAt(t, id, pos) == t.nodes[id].recs[pos]
Count(t, id) == Len(t.nodes[id].recs)
FirstKey(t, id) == RecordAt(t, id, 1).key

UsedBy(recs) ==
  LET used[i \in 0 .. Len(recs)] == IF i = 0 THEN Descr ELSE used[i - 1] + recs[i].len + Slot
  IN  used[Len(recs)]
FreeSpace(t, id) == NodeSize - UsedBy(t.nodes[id].recs)

IsNodeFull(t, id, len) == FreeSpace(t, id) < len + Slot

\* __place_into_node: BUG_ON when the space is not there.
PlaceIntoNode(t, id, rec, pos) ==
  [t EXCEPT !.nodes[id].recs = InsertAt(@, pos, rec),
            !.broken = @ \/ IsNodeFull(t, id, rec.len)]

DeleteFromNode(t, id, pos) == [t EXCEPT !.nodes[id].recs = RemoveAt(@, pos)]

\* (mutant of BinarySearch) The last record is never looked at.
BinarySearchShort(recs, key) ==
  LET below == {i \in 1 .. Len(recs) - 1 : recs[i].key <= key}
  IN  IF recs[1].key > key THEN 0 ELSE IF below = {} THEN 1 ELSE Max(below)

\* binary_search: the last record not above the key, 0 when the first is.
BinarySearch(recs, key) ==
  LET halve[range \in (1 .. Len(recs)) \X (1 .. Len(recs))] ==
        LET lo == range[1]
            hi == range[2]
            mid == lo + ((hi + 1 - lo) \div 2)
        IN  IF lo >= hi - 1 THEN lo
            ELSE IF recs[mid].key = key THEN mid
            ELSE IF recs[mid].key < key THEN halve[<<mid, hi>>]
            ELSE halve[<<lo, mid>>]
  IN  IF recs[1].key > key THEN 0
      ELSE IF recs[1].key = key \/ Len(recs) = 1 THEN 1
      ELSE IF Last(recs).key <= key THEN Len(recs)
      ELSE halve[<<1, Len(recs)>>]

-----------------------------------------------------------------------------
(* Bnodes. *)

FreeIds(t) == (1 .. MaxBnodes) \ t.used

Blank == [recs |-> <<>>, prev |-> NoNode, next |-> NoNode]

\* vdfs4_alloc_new_bnode: the lowest free id.  NoNode when memory is out.
NewBnode(t) == IF t.memory = 0 \/ FreeIds(t) = {} THEN NoNode ELSE Min(FreeIds(t))

AllocNewBnode(t, id, recs, prev, next) ==
  [t EXCEPT !.nodes[id] = [recs |-> recs, prev |-> prev, next |-> next],
            !.used = @ \cup {id},
            !.memory = @ - 1]

DestroyBnode(t, id) == [t EXCEPT !.nodes[id] = Blank, !.used = @ \ {id}]

SetPrev(t, id, prev) == IF id = NoNode THEN t ELSE [t EXCEPT !.nodes[id].prev = prev]
SetNext(t, id, next) == IF id = NoNode THEN t ELSE [t EXCEPT !.nodes[id].next = next]

-----------------------------------------------------------------------------
(* Searching.  A path is the bnodes passed, the deepest first.  A work item *)
(* names a bnode that still lacks an index record, the path above it (empty *)
(* at the top level, where a new root is needed) and the root at that time. *)

Work(above, id, t) == [above |-> above, id |-> id, root |-> t.root]

\* btree_traverse_level: search a bnode and, while the key is at or behind
\* its last record, its right neighbours; each one entered was dangling.
RECURSIVE TraverseLevel(_, _, _)

TraverseRight(t, id, key, pos, next) ==
  IF \/ pos # Count(t, id)
     \/ next = NoNode
     \/ BinarySearch(t.nodes[next].recs, key) = 0
  THEN [id |-> id, pos |-> pos, dangling |-> <<>>]
  ELSE [TraverseLevel(t, next, key) EXCEPT !.dangling = <<next>> \o @]

TraverseLevel(t, id, key) ==
  TraverseRight(t, id, key, BinarySearch(t.nodes[id].recs, key), t.nodes[id].next)

\* vdfs4_btree_traverse, from one bnode of a level down to level "till".
RECURSIVE TraverseFrom(_, _, _, _, _, _, _)

TraverseDown(t, key, level, till, found, path, todo) ==
  IF level = till \/ found.pos = 0
  THEN [id |-> found.id, pos |-> found.pos, path |-> path, todo |-> todo]
  ELSE TraverseFrom(t, RecordAt(t, found.id, found.pos).kid, key, level - 1, till, path, todo)

TraverseFound(t, key, level, till, found, above, todo) ==
  TraverseDown(t, key, level, till, found,
    <<[id |-> found.id, level |-> level]>> \o above,
    Reverse([i \in DOMAIN found.dangling |-> Work(above, found.dangling[i], t)]) \o todo)

TraverseFrom(t, id, key, level, till, above, todo) ==
  TraverseFound(t, key, level, till, TraverseLevel(t, id, key), above, todo)

Traverse(t, key, till) == TraverseFrom(t, t.root, key, t.height, till, <<>>, <<>>)

\* vdfs4_btree_find: the key of the record the search ends at.
NoKey == First - 1
BtreeFind(t, key) ==
  LET answer(found) == IF found.pos = 0 THEN NoKey ELSE RecordAt(t, found.id, found.pos).key
  IN  answer(Traverse(t, key, 1))

-----------------------------------------------------------------------------
(* Insertion. *)

\* split_bnode: records go to the left bnode until more than half of it is
\* used.  The new record counts there with the length of the record its key
\* was taken from, not with the one it will have.
SplitPoint(all, pos, taken) ==
  LET length(i) == IF i = pos THEN taken ELSE all[i].len
      used[i \in 0 .. Len(all)] == IF i = 0 THEN Descr ELSE used[i - 1] + length(i) + Slot
      beyond == {i \in 1 .. Len(all) : 2 * used[i] > NodeSize}
  IN  IF beyond = {} THEN Len(all) ELSE Min(beyond)

\* (mutant of Halves) The bnode behind the new one keeps its prev.
HalvesForward(t, left, right, low, high) ==
  [AllocNewBnode(t, right, high, left, t.nodes[left].next) EXCEPT
     !.nodes[left].recs = low, !.nodes[left].next = right]

Halves(t, left, right, low, high) ==
  SetPrev([AllocNewBnode(t, right, high, left, t.nodes[left].next) EXCEPT
             !.nodes[left].recs = low,
             !.nodes[left].next = right,
             !.broken = @ \/ UsedBy(low) > NodeSize \/ UsedBy(high) > NodeSize],
          t.nodes[left].next, right)

SplitBnode(t, left, right, new, pos, taken) ==
  LET halve(all, cut) ==
        Halves(t, left, right, SubSeq(all, 1, cut), SubSeq(all, cut + 1, Len(all)))
      place(all) == halve(all, SplitPoint(all, pos, taken))
  IN  place(InsertAt(t.nodes[left].recs, pos, new))

\* place_key_in_bnode: the record goes behind pos, or the bnode is split and
\* the index record of the new one is left to the work list.
PlaceKeyInBnode(t, path, id, pos, new, taken, todo) ==
  LET right == NewBnode(t)
      above == IF Head(path).level = t.height THEN <<>> ELSE Tail(path)
  IN  IF RecordAt(t, id, pos).key = new.key
      THEN [t |-> t, err |-> "EEXIST", todo |-> todo]
      ELSE IF ~IsNodeFull(t, id, new.len)
      THEN [t |-> PlaceIntoNode(t, id, new, pos + 1), err |-> "ok", todo |-> todo]
      ELSE IF right = NoNode
      THEN [t |-> t, err |-> "ENOMEM", todo |-> todo]
      ELSE [t |-> SplitBnode(t, id, right, new, pos + 1, taken), err |-> "ok",
            todo |-> <<Work(above, right, t)>> \o todo]

\* build_new_root: an index record for each bnode of the root's level, as far
\* as they fit; what is asked to fit is the record the key is taken from.
RECURSIVE Chain(_, _)
Chain(t, id) == IF id = NoNode THEN <<>> ELSE <<id>> \o Chain(t, t.nodes[id].next)

IndexRecord(t, id) == [key |-> FirstKey(t, id), len |-> IndexLen, kid |-> id]

NewRootRecords(t) ==
  LET level == Chain(t, t.root)
      fits(i) == Descr + (i - 1) * (IndexLen + Slot)
                   + RecordAt(t, level[i], 1).len + Slot <= NodeSize
      taken == Max({n \in 1 .. Len(level) : \A i \in 1 .. n : fits(i)})
  IN  [i \in 1 .. taken |-> IndexRecord(t, level[i])]

BuildNewRoot(t, rootThen) ==
  LET new == NewBnode(t)
  IN  IF rootThen # t.root \/ new = NoNode \/ t.nodes[t.root].next = NoNode
      THEN t
      ELSE [AllocNewBnode(t, new, NewRootRecords(t), NoNode, NoNode) EXCEPT
              !.root = new, !.height = @ + 1]

\* place_index_record: what becomes of one work item.
PlaceIndexRecord(t, work, todo) ==
  LET place(at) ==
        IF at.pos = 0 THEN [t |-> t, todo |-> todo]
        ELSE PlaceKeyInBnode(t, work.above, at.id, at.pos, IndexRecord(t, work.id),
                             RecordAt(t, work.id, 1).len, todo)
  IN  IF work.above = <<>>
      THEN [t |-> BuildNewRoot(t, work.root), todo |-> todo]
      ELSE place(TraverseLevel(t, Head(work.above).id, FirstKey(t, work.id)))

RECURSIVE DoWorks(_, _)
DoWorks(t, todo) ==
  IF todo = <<>> THEN t
  ELSE LET on(done) == DoWorks(done.t, done.todo)
       IN  on(PlaceIndexRecord(t, Head(todo), Tail(todo)))

Finish(placed) == [t |-> DoWorks(placed.t, placed.todo), err |-> placed.err]

\* (mutant of PlaceFound) The dangling bnodes met on the way are forgotten.
PlaceFoundForgets(t, new, found) ==
  IF found.pos = 0
  THEN [t |-> t, err |-> "ENOENT"]
  ELSE Finish(PlaceKeyInBnode(t, found.path, found.id, found.pos, new, new.len, <<>>))

\* place_data_at_level.  The work list is done whatever became of the record,
\* and an error in it is not reported: the bnode stays dangling.
PlaceFound(t, new, found) ==
  IF found.pos = 0
  THEN [t |-> t, err |-> "ENOENT"]
  ELSE Finish(PlaceKeyInBnode(t, found.path, found.id, found.pos, new, new.len, found.todo))

InsertAtLevel(t, new, level) == PlaceFound(t, new, Traverse(t, new.key, level))

LeafRecord(key) == [key |-> key, len |-> RecLen[key], kid |-> NoNode]

BtreeInsert(t, key) == InsertAtLevel(t, LeafRecord(key), 1)

-----------------------------------------------------------------------------
(* Removal. *)

\* btree_update_key: the first record of a bnode went away, so its index
\* record gets the new first key, and so on upwards.  The old index record is
\* missing when the bnode was dangling.
RECURSIVE UpdateKey(_, _, _, _)

DropOldKey(t, key, level, at) ==
  IF at.pos = 0 THEN [t |-> t, err |-> "EINVAL"]
  ELSE IF RecordAt(t, at.id, at.pos).key # key THEN [t |-> t, err |-> "ok"]
  ELSE IF at.pos = 1 /\ level < t.height
  THEN UpdateKey(DeleteFromNode(t, at.id, 1), key, at.id, level + 1)
  ELSE [t |-> DeleteFromNode(t, at.id, at.pos), err |-> "ok"]

UpdateKey(t, key, id, level) ==
  LET drop(inserted) ==
        IF inserted.err # "ok" THEN inserted
        ELSE DropOldKey(inserted.t, key, level, Traverse(inserted.t, key, level))
  IN  drop(InsertAtLevel(t, IndexRecord(t, id), level))

\* The bnode is taken out of the chain of its level and freed.
Unlink(t, id) ==
  LET n == t.nodes[id]
  IN  DestroyBnode(SetNext(SetPrev(t, n.next, n.prev), n.prev, n.next), id)

\* (mutant of MergeRecords) The right bnode's first record is left behind.
MergeRecordsFromOne(t, left, right) ==
  LET r == t.nodes[right]
  IN  SetPrev([t EXCEPT !.nodes[left].recs = @ \o Tail(r.recs), !.nodes[left].next = r.next],
              r.next, left)

\* btree_merge, up to the removal of the right bnode's index record.
MergeRecords(t, left, right) ==
  LET r == t.nodes[right]
  IN  SetPrev([t EXCEPT !.nodes[left].recs = @ \o r.recs, !.nodes[left].next = r.next,
                        !.broken = @ \/ UsedBy(t.nodes[left].recs \o r.recs) > NodeSize],
              r.next, left)

IsDangling(t, parent, pos, id) == RecordAt(t, parent, pos).kid # id

\* Whom rebalance merges a bnode with: the pair of bnodes, and whether the
\* right one has no index record.  Neither, at the edge of the parent.
MergePair(t, key, level, id) ==
  LET n == t.nodes[id]
      withPrev(dangling) == [left |-> n.prev, right |-> id, dangling |-> dangling]
      withNext(dangling) == [left |-> id, right |-> n.next, dangling |-> dangling]
      none   == [left |-> NoNode, right |-> NoNode, dangling |-> FALSE]
      under(parent) ==
        IF parent.pos > 1
        THEN withPrev(IsDangling(t, parent.id, parent.pos, id))
        ELSE IF parent.pos < Count(t, parent.id)
        THEN withNext(IsDangling(t, parent.id, parent.pos + 1, n.next))
        ELSE none
  IN  IF level # t.height THEN under(Traverse(t, key, level + 1))
      ELSE IF n.prev # NoNode THEN withPrev(TRUE)
      ELSE IF n.next # NoNode THEN withNext(TRUE)
      ELSE none

\* __btree_remove, with rebalance and btree_merge.
RECURSIVE RemoveAtLevel(_, _, _)

Merge(t, pair, level) ==
  LET drop(above) == IF above.err # "ok" THEN above
                     ELSE [above EXCEPT !.t = DestroyBnode(@, pair.right)]
      merge(m) == drop(IF pair.dangling THEN [t |-> m, err |-> "ok"]
                       ELSE RemoveAtLevel(m, FirstKey(t, pair.right), level + 1))
  IN  merge(MergeRecords(t, pair.left, pair.right))

Rebalance(t, key, level, id) ==
  LET neighbour(pair) == IF pair.left = id THEN pair.right ELSE pair.left
      merge(pair) ==
        IF \/ neighbour(pair) = NoNode
           \/ FreeSpace(t, id) + FreeSpace(t, neighbour(pair)) < NodeSize
        THEN [t |-> t, err |-> "ok"]
        ELSE Merge(t, pair, level)
  IN  merge(MergePair(t, key, level, id))

\* (mutant of LowerRoot) The old root's id stays in use.
LowerRootKeepsId(t, id) ==
  IF Count(t, id) # 1 \/ t.height = 1 THEN t
  ELSE [t EXCEPT !.root = RecordAt(t, id, 1).kid, !.height = @ - 1]

\* A root with one record left hands its place to the child.
LowerRoot(t, id) ==
  IF Count(t, id) # 1 \/ t.height = 1 THEN t
  ELSE DestroyBnode([t EXCEPT !.root = RecordAt(t, id, 1).kid, !.height = @ - 1], id)

Tidy(t, key, level, id) ==
  IF 3 * FreeSpace(t, id) <= NodeSize THEN [t |-> t, err |-> "ok"]
  ELSE IF id = t.root THEN [t |-> LowerRoot(t, id), err |-> "ok"]
  ELSE Rebalance(t, key, level, id)

\* The bnode is empty: out of the chain, and its index record out of the tree.
RemoveEmptied(t, key, level, id) ==
  LET quiet(above) == [above EXCEPT !.err = IF @ = "ENOENT" THEN "ok" ELSE @]
      unlinked == [Unlink(t, id) EXCEPT !.broken = @ \/ id = t.root]
  IN  IF level = t.height THEN [t |-> unlinked, err |-> "ok"]
      ELSE quiet(RemoveAtLevel(unlinked, key, level + 1))

\* The record at pos is out of bnode id.
AfterDelete(t, key, level, id, pos) ==
  LET tidy(updated) == IF updated.err # "ok" THEN updated
                       ELSE Tidy(updated.t, FirstKey(t, id), level, id)
  IN  IF Count(t, id) = 0 THEN RemoveEmptied(t, key, level, id)
      ELSE IF pos > 1 \/ level = t.height THEN Tidy(t, key, level, id)
      ELSE tidy(UpdateKey(t, key, id, level + 1))

RemoveFound(t, key, level, at) ==
  IF at.pos = 0 THEN [t |-> t, err |-> "ENOENT"]
  ELSE IF RecordAt(t, at.id, at.pos).key # key THEN [t |-> t, err |-> "ENOENT"]
  ELSE AfterDelete(DeleteFromNode(t, at.id, at.pos), key, level, at.id, at.pos)

RemoveAtLevel(t, key, level) == RemoveFound(t, key, level, Traverse(t, key, level))

BtreeRemove(t, key) == RemoveAtLevel(t, key, 1)

-----------------------------------------------------------------------------
(* What fsck asks of a tree: vdfs4_check_btree_links and _records_order.    *)

\* The first bnode of each level, the root's level first.
LevelStart(t, depth) ==
  LET start[i \in 1 .. t.height] ==
        IF i = 1 THEN t.root ELSE RecordAt(t, start[i - 1], 1).kid
  IN  start[depth]

Levels(t) == [i \in 1 .. t.height |-> Chain(t, LevelStart(t, i))]

RecordsOf(t, level) == FoldLeft(LAMBDA recs, id : recs \o t.nodes[id].recs, <<>>, level)

\* The bnodes the level above points to; nothing points to the root but the head.
PointedTo(t, levels, i) ==
  IF i = 1 THEN <<t.root>>
  ELSE LET recs == RecordsOf(t, levels[i - 1]) IN [j \in DOMAIN recs |-> recs[j].kid]

RecordsOrdered(t, levels) ==
  \A i \in DOMAIN levels :
    LET recs == RecordsOf(t, levels[i])
    IN  \A j \in 1 .. Len(recs) - 1 : recs[j].key <= recs[j + 1].key

\* At each level the chain is doubly linked and meets, in this order, every
\* bnode the level above points to.  The bnodes between them are dangling.
LinksSound(t, levels) ==
  \A i \in DOMAIN levels :
    LET level == levels[i]
        kids  == PointedTo(t, levels, i)
    IN  /\ \A j \in DOMAIN level :
             t.nodes[level[j]].prev = IF j = 1 THEN NoNode ELSE level[j - 1]
        /\ SelectSeq(level, LAMBDA id : id \in ToSet(kids)) = kids

Linked(levels) == UNION {ToSet(levels[i]) : i \in DOMAIN levels}

Dangling(t, levels) ==
  UNION {ToSet(levels[i]) \ ToSet(PointedTo(t, levels, i)) : i \in DOMAIN levels}

-----------------------------------------------------------------------------
Plenty == MaxBnodes

\* btree_init and the init_root_bnode of the three trees, then insertions.
EmptyTree ==
  [nodes |-> [i \in 1 .. MaxBnodes |->
                IF i = 1 THEN [Blank EXCEPT !.recs = <<LeafRecord(First)>>] ELSE Blank],
   used |-> {1}, root |-> 1, height |-> 1, memory |-> Plenty, broken |-> FALSE]

BuiltTree ==
  FoldLeft(LAMBDA t, k : [BtreeInsert(t, k).t EXCEPT !.memory = Plenty], EmptyTree, Built)

LeafKeys(t) ==
  UNION {{r.key : r \in ToSet(t.nodes[id].recs)} : id \in ToSet(Chain(t, LevelStart(t, t.height)))}

Init == tree = BuiltTree /\ contents = LeafKeys(tree) /\ reply = "ok" /\ faults = 0

Answer(result) ==
  /\ tree' = [result.t EXCEPT !.memory = Plenty]
  /\ contents' = LeafKeys(result.t)
  /\ reply' = result.err

InsertKey(k) ==
  /\ Answer(BtreeInsert(tree, k))
  /\ UNCHANGED faults

\* The same with room for only a few more bnodes.
InsertKeyShort(k) ==
  /\ faults < MaxFaults
  /\ \E memory \in 0 .. 1 : Answer(BtreeInsert([tree EXCEPT !.memory = memory], k))
  /\ faults' = faults + 1

RemoveKey(k) ==
  /\ Answer(BtreeRemove(tree, k))
  /\ UNCHANGED faults

Next == \E k \in Churned : InsertKey(k) \/ InsertKeyShort(k) \/ RemoveKey(k)

Spec == Init /\ [][Next]_vars

-----------------------------------------------------------------------------
(* Properties *)

\* The leaves hold the ordered map the callers were promised.
Map == INSTANCE OrderedMap WITH keys <- contents

Implements == Map!MapSpec

\* A search answers the greatest key present that is not above the one given,
\* through index records and dangling bnodes alike.
FindsGreatest ==
  \A k \in Keys : BtreeFind(tree, k) = Max({l \in contents : l <= k})

\* No bnode overflows, no assertion fails, and fsck's two checks accept.
TreeSound ==
  LET levels == Levels(tree)
  IN  ~tree.broken /\ LinksSound(tree, levels) /\ RecordsOrdered(tree, levels)

\* A bnode left dangling for want of memory gets its index record with the next
\* insertion that comes past it ("this will be done next time, when somebody
\* find dangling bnode").
RepairsOnTheWay ==
  [][\A k \in Churned : InsertKey(k) =>
       \A work \in ToSet(Traverse(tree, k, 1).todo) :
         work.id \notin Dangling(tree', Levels(tree'))]_vars

\* While memory has always sufficed no bnode dangles and none leaks.
NothingLost ==
  LET levels == Levels(tree)
  IN  faults = 0 => Dangling(tree, levels) = {} /\ tree.used = Linked(levels)
=============================================================================
