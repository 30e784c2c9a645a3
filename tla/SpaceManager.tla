----------------------------- MODULE SpaceManager -----------------------------
(***************************************************************************)
(* The space manager of mkfs (lib/space_manager.c): which blocks of the    *)
(* image are given out.  A read-only image is filled from the front and    *)
(* grows (first_free_address); an image of a given size keeps a list of    *)
(* free extents, sorted by address, and a bitmap of the blocks in use.     *)
(*                                                                         *)
(* A space is a record: readOnly, first (the first free address of a       *)
(* read-only image), free (the set of free extents; the list's order is    *)
(* the order of their addresses) and used (the bitmap).                    *)
(***************************************************************************)
EXTENDS Integers

AnyAddress == 0      \* ADDR_ANY
Refused == -1        \* a negative answer of get_free_space

Extent(start, len) == [start |-> start, len |-> len]
BlocksOf(e) == e.start .. e.start + e.len - 1
NonEmpty(extents) == {e \in extents : e.len > 0}

\* init_space_manager: one free extent covers a sized image.
NewSpace(readOnly, blocks) ==
  [readOnly |-> readOnly, first |-> 0, used |-> {},
   free |-> IF readOnly THEN {} ELSE {Extent(0, blocks)}]

\* The head of the sorted list: the extent with the lowest address.
FirstOf(extents) == CHOOSE e \in extents : \A f \in extents : e.start <= f.start

\* Extents the request fits in: anywhere, or exactly at the offset.
Fitting(free, offset, len) ==
  {e \in free : IF offset = AnyAddress THEN len <= e.len
                ELSE offset >= e.start /\ offset + len <= e.start + e.len}

Grant(space, addr, changed) == [addr |-> addr, space |-> changed]
Refusal(space) == Grant(space, Refused, space)

\* (mutant of GetFreeTail) The address does not move on.
GetFreeTailStays(space, offset, len) ==
  IF offset \notin {AnyAddress, space.first} THEN Refusal(space)
  ELSE Grant(space, space.first, [space EXCEPT !.first = @ + len - 1])

\* get_free_space of a read-only image: the only address is the next one.
GetFreeTail(space, offset, len) ==
  IF offset \notin {AnyAddress, space.first} THEN Refusal(space)
  ELSE Grant(space, space.first, [space EXCEPT !.first = @ + len])

\* (mutant of Rest) What follows begins one block too early.
RestTooMuch(e, addr, len) ==
  NonEmpty({Extent(e.start, addr - e.start),
            Extent(addr + len - 1, e.start + e.len - (addr + len - 1))})

\* What is left of extent e around the blocks addr .. addr + len - 1
\* (shrink_list_item, remove_from_list, put_space_manager_list_sorted).
Rest(e, addr, len) ==
  NonEmpty({Extent(e.start, addr - e.start),
            Extent(addr + len, e.start + e.len - (addr + len))})

Take(space, e, addr, len) ==
  Grant(space, addr,
        [space EXCEPT !.free = (@ \ {e}) \cup Rest(e, addr, len),
                      !.used = @ \cup BlocksOf(Extent(addr, len))])

FirstFit(space, e, offset, len) ==
  Take(space, e, IF offset = AnyAddress THEN e.start ELSE offset, len)

\* get_free_space of a sized image.
GetFreeListed(space, offset, len) ==
  IF Fitting(space.free, offset, len) = {} THEN Refusal(space)
  ELSE FirstFit(space, FirstOf(Fitting(space.free, offset, len)), offset, len)

\* allocate_space: the granted address, or Refused (-ENOSPC).
AllocateSpace(space, offset, len) ==
  IF space.readOnly THEN GetFreeTail(space, offset, len)
  ELSE GetFreeListed(space, offset, len)

\* get_metadata_size: where the next data goes, in blocks.  A sized image
\* asks the head of the list, so there must be one.
MetadataSize(space) ==
  IF space.readOnly THEN space.first ELSE FirstOf(space.free).start

\* The blocks nobody was given.
FreeBlocks(space) == UNION {BlocksOf(e) : e \in space.free}
Taken(space, b) == IF space.readOnly THEN b < space.first ELSE b \in space.used

\* The free extents are not empty, do not overlap and leave out what is used.
Sound(space) ==
  /\ \A e \in space.free : e.start >= 0 /\ e.len > 0
  /\ \A e, f \in space.free : e # f => BlocksOf(e) \cap BlocksOf(f) = {}
  /\ \A e \in space.free : BlocksOf(e) \cap space.used = {}
===============================================================================
