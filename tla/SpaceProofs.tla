------------------------------ MODULE SpaceProofs ------------------------------
(***************************************************************************)
(* What the space manager promises to its callers, for images of any size  *)
(* and any order of requests: blocks are given out once.  The runs see     *)
(* this through AreasDisjoint of VdfsImage, on images of a few blocks.     *)
(***************************************************************************)
EXTENDS SpaceManager, WellFoundedInduction, TLAPS

\* What a space is made of.
Extents == [start : Nat, len : Nat]
Spaces == [readOnly : BOOLEAN, first : Nat, used : SUBSET Nat, free : SUBSET Extents]

\* The state the theorems speak of: a space in which the list and the bitmap
\* agree.
GoodSpace(space) == space \in Spaces /\ Sound(space)

Granted(grant) == grant.addr # Refused
BlocksGranted(grant, len) == BlocksOf(Extent(grant.addr, len))

--------------------------------------------------------------------------------
\* The blocks of an extent are the numbers from its start on.
LEMMA BlocksOfExtent ==
  ASSUME NEW e \in Extents, NEW b
  PROVE  b \in BlocksOf(e) <=> b \in Nat /\ e.start <= b /\ b < e.start + e.len
  BY DEF Extents, BlocksOf

\* A new space is good: nothing is used, and a sized image is one free extent.
THEOREM NewSpaceGood ==
  ASSUME NEW readOnly \in BOOLEAN, NEW blocks \in Nat \ {0}
  PROVE  GoodSpace(NewSpace(readOnly, blocks))
  <1>1. NewSpace(readOnly, blocks) \in Spaces
    BY DEF NewSpace, Spaces, Extents, Extent
  <1>2. Sound(NewSpace(readOnly, blocks))
    BY DEF NewSpace, Sound, Extent
  <1> QED BY <1>1, <1>2 DEF GoodSpace

--------------------------------------------------------------------------------
(* The list is a set here, and its head the extent with the lowest         *)
(* address: there is one whatever the set.                                 *)

Less == {pair \in Nat \X Nat : pair[1] < pair[2]}

LEMMA LessWellFounded == IsWellFoundedOn(Less, Nat)
  BY NatLessThanWellFounded DEF OpToRel, Less

\* Of some numbers one is the lowest.
LEMMA LowestExists ==
  ASSUME NEW numbers \in SUBSET Nat, numbers # {}
  PROVE  \E x \in numbers : \A y \in numbers : x <= y
  <1>1. PICK x \in numbers : \A y \in numbers : ~(<<y, x>> \in Less)
    BY LessWellFounded, WFMin
  <1>2. \A y \in numbers : ~(y < x)
    BY <1>1 DEF Less
  <1> QED BY <1>2

LEMMA FirstOfIsFirst ==
  ASSUME NEW extents \in SUBSET Extents, extents # {}
  PROVE  /\ FirstOf(extents) \in extents
         /\ \A e \in extents : FirstOf(extents).start <= e.start
  <1> DEFINE starts == {e.start : e \in extents}
  <1>1. PICK x \in starts : \A y \in starts : x <= y
    <2>1. starts \in SUBSET Nat /\ starts # {}
      BY DEF Extents
    <2> HIDE DEF starts
    <2> QED BY <2>1, LowestExists
  <1>2. PICK e \in extents : e.start = x
    BY <1>1
  <1>3. \A f \in extents : e.start <= f.start
    BY <1>1, <1>2
  <1> QED BY <1>2, <1>3 DEF FirstOf

--------------------------------------------------------------------------------
(* One extent.                                                             *)

\* What is left of an extent is, block for block, the extent without what was
\* taken out of it, in extents that are not empty and do not overlap.
LEMMA RestOfExtent ==
  ASSUME NEW e \in Extents, NEW addr \in Nat, NEW len \in Nat,
         e.start <= addr, addr + len <= e.start + e.len
  PROVE  /\ Rest(e, addr, len) \in SUBSET Extents
         /\ \A r \in Rest(e, addr, len) : r.len > 0
         /\ \A r, s \in Rest(e, addr, len) : r # s => BlocksOf(r) \cap BlocksOf(s) = {}
         /\ \A b : (\E r \in Rest(e, addr, len) : b \in BlocksOf(r))
                     <=> b \in BlocksOf(e) \ BlocksOf(Extent(addr, len))
  <1> DEFINE before == Extent(e.start, addr - e.start)
             behind == Extent(addr + len, e.start + e.len - (addr + len))
  <1>1. before \in Extents /\ behind \in Extents /\ Extent(addr, len) \in Extents
    BY DEF Extents, Extent
  <1>2. before.start = e.start /\ before.len = addr - e.start
    BY DEF Extent
  <1>3. behind.start = addr + len /\ behind.len = e.start + e.len - (addr + len)
    BY DEF Extent
  <1>4. Extent(addr, len).start = addr /\ Extent(addr, len).len = len
    BY DEF Extent
  <1>5. \A r : r \in Rest(e, addr, len) <=> (r = before \/ r = behind) /\ r.len > 0
    BY DEF Rest, NonEmpty
  <1>6. e.start \in Nat /\ e.len \in Nat
    BY DEF Extents
  <1>7. \A b : b \in BlocksOf(before) <=> b \in Nat /\ e.start <= b /\ b < addr
    BY <1>1, <1>2, <1>6, BlocksOfExtent
  <1>8. \A b : b \in BlocksOf(behind)
                 <=> b \in Nat /\ addr + len <= b /\ b < e.start + e.len
    BY <1>1, <1>3, <1>6, BlocksOfExtent
  <1>9. \A b : b \in BlocksOf(e) <=> b \in Nat /\ e.start <= b /\ b < e.start + e.len
    BY <1>6, BlocksOfExtent
  <1>10. \A b : b \in BlocksOf(Extent(addr, len)) <=> b \in Nat /\ addr <= b /\ b < addr + len
    BY <1>1, <1>4, BlocksOfExtent
  <1> HIDE DEF before, behind
  <1>11. Rest(e, addr, len) \in SUBSET Extents /\ \A r \in Rest(e, addr, len) : r.len > 0
    BY <1>1, <1>5
  <1>12. BlocksOf(before) \cap BlocksOf(behind) = {}
    BY <1>7, <1>8
  <1>13. ASSUME NEW b
         PROVE  (\E r \in Rest(e, addr, len) : b \in BlocksOf(r))
                  <=> b \in BlocksOf(before) \/ b \in BlocksOf(behind)
    <2>1. b \in BlocksOf(before) => before.len > 0
      BY <1>2, <1>6, <1>7
    <2>2. b \in BlocksOf(behind) => behind.len > 0
      BY <1>3, <1>6, <1>8
    <2> QED BY <1>5, <2>1, <2>2
  <1>14. \A b : (\E r \in Rest(e, addr, len) : b \in BlocksOf(r))
                  <=> b \in BlocksOf(e) \ BlocksOf(Extent(addr, len))
    BY <1>6, <1>7, <1>8, <1>9, <1>10, <1>13
  <1>15. \A r, s \in Rest(e, addr, len) : r # s => BlocksOf(r) \cap BlocksOf(s) = {}
    BY <1>5, <1>12
  <1> QED BY <1>11, <1>14, <1>15

\* What a sized image grants lies in one free extent, and where it was asked for.
LEMMA FittingExtent ==
  ASSUME NEW free \in SUBSET Extents, NEW offset \in Nat, NEW len \in Nat,
         Fitting(free, offset, len) # {},
         NEW e, e = FirstOf(Fitting(free, offset, len)),
         NEW addr, addr = IF offset = AnyAddress THEN e.start ELSE offset
  PROVE  /\ e \in free /\ addr \in Nat
         /\ e.start <= addr /\ addr + len <= e.start + e.len
  <1>1. Fitting(free, offset, len) \in SUBSET Extents
    BY DEF Fitting
  <1>2. e \in Fitting(free, offset, len)
    BY <1>1, FirstOfIsFirst
  <1>3. e \in free /\ e.start \in Nat /\ e.len \in Nat
    BY <1>1, <1>2 DEF Fitting, Extents
  <1>4. CASE offset = AnyAddress
    BY <1>2, <1>3, <1>4 DEF Fitting
  <1>5. CASE offset # AnyAddress
    <2>1. addr = offset /\ e.start <= offset /\ offset + len <= e.start + e.len
      BY <1>2, <1>3, <1>5 DEF Fitting
    <2> QED BY <1>3, <2>1
  <1> QED BY <1>4, <1>5

--------------------------------------------------------------------------------
(* A request to a sized image.                                             *)

\* Taking blocks out of a free extent leaves a good space behind, in which
\* these blocks, and no others, have changed from free to used.
LEMMA TakeGood ==
  ASSUME NEW space, GoodSpace(space), NEW e \in space.free,
         NEW addr \in Nat, NEW len \in Nat,
         e.start <= addr, addr + len <= e.start + e.len,
         NEW after, after = Take(space, e, addr, len).space
  PROVE  /\ GoodSpace(after)
         /\ after.readOnly = space.readOnly
         /\ after.used = space.used \cup BlocksOf(Extent(addr, len))
         /\ BlocksOf(Extent(addr, len)) \cap space.used = {}
         /\ FreeBlocks(after) = FreeBlocks(space) \ BlocksOf(Extent(addr, len))
  <1> DEFINE rest == Rest(e, addr, len)
             taken == BlocksOf(Extent(addr, len))
  <1>1. space \in Spaces /\ Sound(space) /\ e \in Extents /\ space.free \in SUBSET Extents
    BY DEF GoodSpace, Spaces
  <1>2. /\ rest \in SUBSET Extents
        /\ \A r \in rest : r.len > 0
        /\ \A r, s \in rest : r # s => BlocksOf(r) \cap BlocksOf(s) = {}
        /\ \A b : (\E r \in rest : b \in BlocksOf(r)) <=> b \in BlocksOf(e) \ taken
    BY <1>1, RestOfExtent
  <1>3. after = [space EXCEPT !.free = (space.free \ {e}) \cup rest,
                              !.used = space.used \cup taken]
    BY DEF Take, Grant
  <1>4. /\ after.free = (space.free \ {e}) \cup rest
        /\ after.used = space.used \cup taken
        /\ after.readOnly = space.readOnly
        /\ after.first = space.first
    BY <1>1, <1>3 DEF Spaces
  <1>5. taken \in SUBSET Nat /\ \A b \in taken : b \in BlocksOf(e)
    <2>1. Extent(addr, len) \in Extents
      BY DEF Extent, Extents
    <2>2. Extent(addr, len).start = addr /\ Extent(addr, len).len = len
      BY DEF Extent
    <2>3. \A b \in taken : b \in Nat /\ addr <= b /\ b < addr + len
      BY <2>1, <2>2, BlocksOfExtent
    <2>4. e.start \in Nat /\ e.len \in Nat
      BY <1>1 DEF Extents
    <2>5. \A b \in taken : b \in Nat /\ e.start <= b /\ b < e.start + e.len
      BY <2>3, <2>4
    <2> QED BY <1>1, <2>5, BlocksOfExtent
  <1> HIDE DEF rest, taken
  <1>6. after \in Spaces
    <2>1. after.free \in SUBSET Extents
      BY <1>1, <1>2, <1>4
    <2>2. after.used \in SUBSET Nat
      BY <1>1, <1>4, <1>5 DEF Spaces
    <2> QED BY <1>1, <1>3, <1>4, <2>1, <2>2 DEF Spaces
  <1>7. \A r \in rest : BlocksOf(r) \subseteq BlocksOf(e) \ taken
    BY <1>2
  <1>8. \A f \in space.free \ {e} : BlocksOf(f) \cap BlocksOf(e) = {}
    BY <1>1 DEF Sound
  <1>9. Sound(after)
    <2>1. \A f \in after.free : f.start >= 0 /\ f.len > 0
      <3>1. \A f \in space.free : f.start >= 0 /\ f.len > 0
        BY <1>1 DEF Sound
      <3>2. \A r \in rest : r.start >= 0 /\ r.len > 0
        BY <1>2 DEF Extents
      <3> QED BY <1>4, <3>1, <3>2
    <2>2. \A f, g \in after.free : f # g => BlocksOf(f) \cap BlocksOf(g) = {}
      <3>1. \A f, g \in space.free : f # g => BlocksOf(f) \cap BlocksOf(g) = {}
        BY <1>1 DEF Sound
      <3>2. \A f \in space.free \ {e}, r \in rest : BlocksOf(f) \cap BlocksOf(r) = {}
        BY <1>7, <1>8
      <3> QED BY <1>2, <1>4, <3>1, <3>2
    <2>3. \A f \in after.free : BlocksOf(f) \cap after.used = {}
      <3>1. \A f \in space.free : BlocksOf(f) \cap space.used = {}
        BY <1>1 DEF Sound
      <3>2. \A f \in space.free \ {e} : BlocksOf(f) \cap after.used = {}
        BY <1>4, <1>5, <1>8, <3>1
      <3>3. \A r \in rest : BlocksOf(r) \cap after.used = {}
        BY <1>4, <1>7, <3>1
      <3> QED BY <1>4, <3>2, <3>3
    <2> QED BY <2>1, <2>2, <2>3 DEF Sound
  <1>10. taken \cap space.used = {}
    BY <1>1, <1>5 DEF Sound
  <1>11. FreeBlocks(after) = FreeBlocks(space) \ taken
    <2>1. ASSUME NEW b \in FreeBlocks(after)
          PROVE  b \in FreeBlocks(space) \ taken
      <3>1. PICK f \in after.free : b \in BlocksOf(f)
        BY <2>1 DEF FreeBlocks
      <3>2. CASE f \in rest
        BY <1>7, <3>1, <3>2 DEF FreeBlocks
      <3>3. CASE f \in space.free \ {e}
        BY <1>5, <1>8, <3>1, <3>3 DEF FreeBlocks
      <3> QED BY <1>4, <3>2, <3>3
    <2>2. ASSUME NEW b \in FreeBlocks(space) \ taken
          PROVE  b \in FreeBlocks(after)
      <3>1. PICK f \in space.free : b \in BlocksOf(f)
        BY <2>2 DEF FreeBlocks
      <3>2. CASE f = e
        BY <1>2, <1>4, <2>2, <3>1, <3>2 DEF FreeBlocks
      <3>3. CASE f # e
        BY <1>4, <3>1, <3>3 DEF FreeBlocks
      <3> QED BY <3>2, <3>3
    <2> QED BY <2>1, <2>2
  <1> QED BY <1>4, <1>6, <1>9, <1>10, <1>11 DEF GoodSpace, taken

--------------------------------------------------------------------------------
(* allocate_space.                                                         *)

\* The two ways a request is granted, in one place.
LEMMA AllocateCases ==
  ASSUME NEW space, GoodSpace(space), NEW offset \in Nat, NEW len \in Nat,
         NEW grant, grant = AllocateSpace(space, offset, len)
  PROVE  \/ grant.addr = Refused /\ grant.space = space
         \/ /\ space.readOnly
            /\ grant.addr = space.first
            /\ grant.space = [space EXCEPT !.first = @ + len]
         \/ /\ ~space.readOnly
            /\ \E e \in space.free :
                 /\ grant.addr \in Nat
                 /\ e.start <= grant.addr /\ grant.addr + len <= e.start + e.len
                 /\ grant.space = Take(space, e, grant.addr, len).space
  <1>1. space \in Spaces
    BY DEF GoodSpace
  <1>2. CASE space.readOnly
    <2>1. grant = GetFreeTail(space, offset, len)
      BY <1>2 DEF AllocateSpace
    <2> QED BY <1>2, <2>1 DEF GetFreeTail, Refusal, Grant
  <1>3. CASE ~space.readOnly
    <2>1. grant = GetFreeListed(space, offset, len)
      BY <1>3 DEF AllocateSpace
    <2>2. CASE Fitting(space.free, offset, len) = {}
      BY <2>1, <2>2 DEF GetFreeListed, Refusal, Grant
    <2>3. CASE Fitting(space.free, offset, len) # {}
      <3> DEFINE e == FirstOf(Fitting(space.free, offset, len))
                 addr == IF offset = AnyAddress THEN e.start ELSE offset
      <3>1. grant = Take(space, e, addr, len)
        BY <2>1, <2>3 DEF GetFreeListed, FirstFit
      <3>2. grant.addr = addr
        BY <3>1 DEF Take, Grant
      <3>3. space.free \in SUBSET Extents
        BY <1>1 DEF Spaces
      <3>4. /\ e \in space.free /\ addr \in Nat
            /\ e.start <= addr /\ addr + len <= e.start + e.len
        BY <2>3, <3>3, FittingExtent
      <3> QED BY <1>3, <3>1, <3>2, <3>4
    <2> QED BY <2>2, <2>3
  <1> QED BY <1>2, <1>3

\* Whatever is asked of a good space, it stays good.
THEOREM AllocateSpaceGood ==
  ASSUME NEW space, GoodSpace(space), NEW offset \in Nat, NEW len \in Nat
  PROVE  GoodSpace(AllocateSpace(space, offset, len).space)
  <1> DEFINE grant == AllocateSpace(space, offset, len)
  <1>1. CASE grant.space = space
    BY <1>1
  <1>2. CASE space.readOnly /\ grant.space = [space EXCEPT !.first = @ + len]
    <2>1. space \in Spaces /\ Sound(space)
      BY DEF GoodSpace
    <2>2. grant.space \in Spaces
      BY <1>2, <2>1 DEF Spaces
    <2>3. grant.space.free = space.free /\ grant.space.used = space.used
      BY <1>2, <2>1 DEF Spaces
    <2>4. Sound(grant.space)
      BY <2>1, <2>3 DEF Sound
    <2> QED BY <2>2, <2>4 DEF GoodSpace
  <1>3. CASE \E e \in space.free :
               /\ grant.addr \in Nat
               /\ e.start <= grant.addr /\ grant.addr + len <= e.start + e.len
               /\ grant.space = Take(space, e, grant.addr, len).space
    BY <1>3, TakeGood
  <1> QED BY <1>1, <1>2, <1>3, AllocateCases

\* A granted address is one, and no block of it had been given out before; all
\* of them, and whatever had been given out, are given out afterwards.  So two
\* grants never meet, with any number of requests between them.
THEOREM GivenOnce ==
  ASSUME NEW space, GoodSpace(space), NEW offset \in Nat, NEW len \in Nat,
         NEW grant, grant = AllocateSpace(space, offset, len)
  PROVE  /\ Granted(grant) =>
              /\ grant.addr \in Nat
              /\ \A b \in BlocksGranted(grant, len) :
                   ~Taken(space, b) /\ Taken(grant.space, b)
         /\ \A b \in Nat : Taken(space, b) => Taken(grant.space, b)
  <1>1. space \in Spaces
    BY DEF GoodSpace
  <1>2. CASE grant.addr = Refused /\ grant.space = space
    BY <1>2 DEF Granted
  <1>3. CASE /\ space.readOnly
             /\ grant.addr = space.first
             /\ grant.space = [space EXCEPT !.first = @ + len]
    <2>1. space.first \in Nat /\ grant.space.first = space.first + len /\ grant.space.readOnly
      BY <1>1, <1>3 DEF Spaces
    <2>2. \A b \in BlocksGranted(grant, len) : b \in Nat /\ space.first <= b /\ b < space.first + len
      <3>1. Extent(grant.addr, len) \in Extents
        BY <1>3, <2>1 DEF Extent, Extents
      <3>2. Extent(grant.addr, len).start = space.first /\ Extent(grant.addr, len).len = len
        BY <1>3 DEF Extent
      <3> QED BY <3>1, <3>2, BlocksOfExtent DEF BlocksGranted
    <2> QED BY <1>3, <2>1, <2>2 DEF Taken
  <1>4. CASE /\ ~space.readOnly
             /\ \E e \in space.free :
                  /\ grant.addr \in Nat
                  /\ e.start <= grant.addr /\ grant.addr + len <= e.start + e.len
                  /\ grant.space = Take(space, e, grant.addr, len).space
    <2>1. /\ grant.space.readOnly = space.readOnly
          /\ grant.space.used = space.used \cup BlocksGranted(grant, len)
          /\ BlocksGranted(grant, len) \cap space.used = {}
      BY <1>4, TakeGood DEF BlocksGranted
    <2> QED BY <1>4, <2>1 DEF Taken
  <1> QED BY <1>2, <1>3, <1>4, AllocateCases

\* A sized image loses no block: what a request takes from the free extents is
\* what it is granted, however the extent around it is cut.
THEOREM NothingLeaks ==
  ASSUME NEW space, GoodSpace(space), ~space.readOnly,
         NEW offset \in Nat, NEW len \in Nat,
         NEW grant, grant = AllocateSpace(space, offset, len)
  PROVE  FreeBlocks(grant.space) =
           FreeBlocks(space) \ (IF Granted(grant) THEN BlocksGranted(grant, len) ELSE {})
  <1>1. CASE grant.addr = Refused /\ grant.space = space
    BY <1>1 DEF Granted
  <1>2. CASE /\ space.readOnly
             /\ grant.addr = space.first
             /\ grant.space = [space EXCEPT !.first = @ + len]
    BY <1>2
  <1>3. CASE /\ ~space.readOnly
             /\ \E e \in space.free :
                  /\ grant.addr \in Nat
                  /\ e.start <= grant.addr /\ grant.addr + len <= e.start + e.len
                  /\ grant.space = Take(space, e, grant.addr, len).space
    <2>1. FreeBlocks(grant.space) = FreeBlocks(space) \ BlocksGranted(grant, len)
      BY <1>3, TakeGood DEF BlocksGranted
    <2>2. Granted(grant)
      BY <1>3 DEF Granted, Refused
    <2> QED BY <2>1, <2>2
  <1> QED BY <1>1, <1>2, <1>3, AllocateCases

================================================================================
