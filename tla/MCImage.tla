------------------------------- MODULE MCImage -------------------------------
(* Images of a handful of files, two threads in each pool, one fault. *)
EXTENDS VdfsImage

Reg(path, dir, rank, data, cells, ino) ==
  [path |-> path, dir |-> dir, rank |-> rank, kind |-> "reg", cells |-> cells,
   small |-> FALSE, ino |-> ino, data |-> data, signed |-> FALSE]
Small(path, dir, rank, data, ino, signed) ==
  [Reg(path, dir, rank, data, 1, ino) EXCEPT !.small = TRUE, !.signed = signed]
Dir(path, ino) ==
  [Reg(path, "", 0, "none", 0, ino) EXCEPT !.kind = "dir"]
Link(path, dir, rank, data, ino) ==
  [Small(path, dir, rank, data, ino, FALSE) EXCEPT !.kind = "link"]
Compress(path) == [path |-> path, word |-> "COMPRESS"]

\* A folder to compress: a file of three chunks under two names, a small signed
\* file, a link; beside it small files to leave as they are, two of them equal.
Parcel ==
  [readOnly |-> TRUE, key |-> TRUE, blocks |-> 0, raw |-> {<<"x", 2>>},
   entries |-> <<Small("p", "", 3, "p", 5, FALSE), Small("q", "", 2, "q", 6, FALSE),
                 Small("r", "", 1, "q", 7, FALSE), Dir("d", 1),
                 Reg("d/x", "d", 2, "x", 3, 2), Reg("d/y", "d", 1, "x", 3, 2),
                 Small("d/s", "d", 3, "s", 3, TRUE), Link("d/l", "d", 4, "l", 4)>>,
   list |-> <<Compress("d")>>,
   wanted |-> {"d/x", "d/y", "d/s", "d/l", "p", "r"}]

\* Two equal files and an empty one to compress, one to copy; small files that
\* share a container with a signed one.
Equals ==
  [readOnly |-> TRUE, key |-> FALSE, blocks |-> 0, raw |-> {},
   entries |-> <<Reg("a", "", 1, "a", 2, 1), Reg("b", "", 2, "a", 2, 2),
                 Reg("c", "", 3, "c", 1, 3), Reg("e", "", 4, "e", 0, 4),
                 Small("s", "", 5, "s", 5, FALSE), Small("t", "", 6, "t", 6, FALSE)>>,
   list |-> <<Compress("e"), Compress("t"), Compress("s"), Compress("b"), Compress("a")>>,
   wanted |-> {"a", "b", "c", "e", "s", "t"}]

\* A file and a folder to compress at the same time; files with two names, one
\* large and one small, that are only copied.
Mixed ==
  [readOnly |-> TRUE, key |-> TRUE, blocks |-> 0, raw |-> {<<"a", 1>>},
   entries |-> <<Reg("a", "", 3, "a", 2, 1),
                 Reg("m", "", 2, "m", 2, 4), Reg("n", "", 1, "m", 2, 4),
                 Small("u", "", 4, "u", 5, FALSE), Small("v", "", 5, "u", 5, FALSE),
                 Small("w", "", 6, "u", 6, TRUE),
                 Dir("d", 2), Reg("d/c", "d", 1, "c", 2, 3)>>,
   list |-> <<Compress("w"), Compress("d"), Compress("a")>>,
   wanted |-> {"a", "d/c", "m", "n", "u", "w"}]

\* An image of a given size, with and without room enough.
Sized(blocks) ==
  [readOnly |-> FALSE, key |-> FALSE, blocks |-> blocks, raw |-> {},
   entries |-> <<Small("b", "", 2, "b", 3, FALSE), Small("c", "", 1, "b", 3, FALSE),
                 Reg("f", "", 3, "f", 2, 5),
                 Dir("d", 1), Reg("d/e", "d", 2, "e", 0, 4), Reg("d/a", "d", 1, "a", 2, 2)>>,
   list |-> <<Compress("d"), Compress("b")>>,
   wanted |-> {"d/a", "d/e", "b", "c", "f"}]

\* A list that asks for a signed container without a key.
Unsigned == [Equals EXCEPT !.list = <<Compress("a"), [path |-> "s", word |-> "DLINK"]>>]

MCPlans ==
  {Parcel, Equals, Unsigned, Mixed,
   Sized(20), Sized(15), Sized(10), Sized(9), Sized(8), Sized(4), Sized(3)}
===============================================================================
