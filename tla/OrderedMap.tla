----------------------------- MODULE OrderedMap -----------------------------
(***************************************************************************)
(* What the B-trees of the vdfs-tools promise their callers (mkfs, fsck,   *)
(* tune): an ordered set of records.  A record is its key here.            *)
(*                                                                         *)
(* The tree is created around its smallest record, which stays: a search   *)
(* answers the greatest key that is not above the one it was given, so     *)
(* below the smallest record there is nothing to answer.                   *)
(***************************************************************************)
EXTENDS Integers

CONSTANTS Keys,    \* the keys callers use
          First    \* the smallest record, put there when a tree is created

VARIABLES keys,    \* the keys present
          reply    \* what the last operation answered

mapVars == <<keys, reply>>

MapInit == First \in keys /\ keys \subseteq Keys \cup {First} /\ reply = "ok"

\* An insertion answers EEXIST for a key that is there; it may run out of
\* memory, and has then changed nothing.
MapInsert(k) ==
  \/ /\ k \notin keys
     /\ keys' = keys \cup {k}
     /\ reply' = "ok"
  \/ /\ k \in keys
     /\ reply' = "EEXIST"
     /\ UNCHANGED keys
  \/ /\ k \notin keys
     /\ reply' = "ENOMEM"
     /\ UNCHANGED keys

\* A removal takes out exactly the key it names, or answers ENOENT.  Running
\* out of memory while the index above is tidied is reported too, with the
\* key gone from the leaves.
MapRemove(k) ==
  \/ /\ k \in keys
     /\ keys' = keys \ {k}
     /\ reply' \in {"ok", "ENOMEM"}
  \/ /\ k \notin keys
     /\ reply' = "ENOENT"
     /\ UNCHANGED keys

MapNext == \E k \in Keys : MapInsert(k) \/ MapRemove(k)

MapSpec == MapInit /\ [][MapNext]_mapVars
=============================================================================
