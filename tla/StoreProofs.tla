----------------------------- MODULE StoreProofs -----------------------------
(***************************************************************************)
(* Proofs about FirmwareStore, for any packs, removal threads and bounds,  *)
(* whatever calls run at the same time: an installation works from a       *)
(* verified download, no pack and no verified download is lost, a failure  *)
(* is undone; and until two threads have raced for the boot image, it is   *)
(* whole and that of the packs.                                            *)
(***************************************************************************)
EXTENDS FirmwareStore, TLAPS

\* Where each thread is, and what it holds.
Control ==
  /\ pc \in [Thread -> InstallPc \cup RebuildPc \cup RemovePc]
  /\ return \in [Thread -> {"idle", "keep", "tidy"}]
  /\ pc["installer"] \in InstallPc \cup RebuildPc
  /\ pc["installer"] \in RebuildPc => return["installer"] \in {"keep", "tidy"}
  /\ \A t \in Remover :
       /\ pc[t] \in RebuildPc \cup RemovePc
       /\ pc[t] \in RebuildPc => return[t] = "idle"
  /\ locked \in BOOLEAN /\ (locked <=> pc["installer"] # "idle")
  /\ target \in Pack
  /\ victims \in [Remover -> SUBSET Pack] /\ victim \in [Remover -> SUBSET Pack]
  /\ installs \in 0..MaxInstalls /\ (pc["installer"] # "idle" => installs > 0)

\* What is on the disk, and the histories.
Disk ==
  /\ live \in [Pack -> Content] /\ old \in [Pack -> Content]
  /\ runtime \in {Torn} \cup Image /\ temporary \in {Torn} \cup Image
  /\ mixed \in BOOLEAN /\ failed \in BOOLEAN
  /\ doomed \in BOOLEAN /\ raced \in BOOLEAN
  /\ zip \in [Pack -> {"none", "good", "bad"}]
  /\ part \in [Pack -> {"none", "good", "bad"}]
  /\ image \in [Thread -> Image] /\ owned \subseteq Pack /\ before \in Content

\* The two parts say more than the types.
LEMMA TypesInParts == Control /\ Disk /\ expired \subseteq Lying => TypeOK
BY DEF Control, Disk, TypeOK

\* The installer is a thread, and no removal thread.
LEMMA ThreadFacts ==
  "installer" \in Thread /\ Remover \subseteq Thread /\ "installer" \notin Remover
BY StoreAssumption DEF Thread

------------------------------------------------------------------------------

\* No step takes a thread where it cannot be.
LEMMA ControlStep ==
  ASSUME Control, [Next]_vars
  PROVE  Control'
<1> USE ThreadFacts DEF diskVars, fetchVars, litterVars, boundVars, threadVars,
       removeVars, historyVars, Step, Goto,
       Control, InstallPc, RebuildPc, RemovePc
<1>1. CASE UNCHANGED vars
  BY <1>1 DEF vars
<1>2. CASE CleanupAtStart
  BY <1>2 DEF CleanupAtStart, ClearStale
<1>3. CASE Expire
  BY <1>3 DEF Expire
<1>4. CASE Crash
  BY <1>4 DEF Crash
<1>5. ASSUME NEW p \in Pack, BeginInstall(p) PROVE Control'
  BY <1>5, StoreAssumption DEF BeginInstall, ClearStale
<1>6. CASE MakeWork
  BY <1>6 DEF MakeWork
<1>7. CASE CheckCache
  BY <1>7 DEF CheckCache
<1>8. CASE Fetch
  BY <1>8 DEF Fetch
<1>9. CASE RenamePart
  BY <1>9 DEF RenamePart
<1>10. CASE VerifyDownload
  BY <1>10 DEF VerifyDownload
<1>11. CASE Prepare
  BY <1>11 DEF Prepare
<1>12. CASE DropOld
  BY <1>12 DEF DropOld
<1>13. CASE StashTarget
  BY <1>13 DEF StashTarget
<1>14. CASE PlaceCandidate
  BY <1>14 DEF PlaceCandidate
<1>15. CASE UndoPlace
  BY <1>15 DEF UndoPlace
<1>16. CASE RestoreOld
  BY <1>16 DEF RestoreOld
<1>17. CASE ReplaceFails
  BY <1>17 DEF ReplaceFails
<1>18. CASE RestoreFails
  BY <1>18 DEF RestoreFails
<1>19. CASE KeepNew
  BY <1>19 DEF KeepNew
<1>20. CASE DiscardDownload
  BY <1>20 DEF DiscardDownload
<1>21. CASE TidyWork
  BY <1>21 DEF TidyWork
<1>22. CASE EndInstall
  BY <1>22 DEF EndInstall
<1>23. ASSUME NEW t \in Thread, BeginRebuild(t) PROVE Control'
  BY <1>23 DEF BeginRebuild, Failed
<1>24. ASSUME NEW t \in Thread, MergePacks(t) PROVE Control'
  BY <1>24 DEF MergePacks
<1>25. ASSUME NEW t \in Thread, OpenTemporary(t) PROVE Control'
  BY <1>25 DEF OpenTemporary
<1>26. ASSUME NEW t \in Thread, WriteTemporary(t) PROVE Control'
  BY <1>26 DEF WriteTemporary
<1>27. ASSUME NEW t \in Thread, SwapRuntime(t) PROVE Control'
  BY <1>27 DEF SwapRuntime
<1>28. ASSUME NEW t \in Thread, DropMerged(t) PROVE Control'
  BY <1>28 DEF DropMerged, Failed
<1>29. ASSUME NEW t \in Remover, UnlinkPack(t) PROVE Control'
  BY <1>29 DEF UnlinkPack
<1>30. ASSUME NEW t \in Remover, RemoveTree(t) PROVE Control'
  BY <1>30 DEF RemoveTree
<1>31. ASSUME NEW t \in Remover, EndRemove(t) PROVE Control'
  BY <1>31 DEF EndRemove
<1>32. ASSUME NEW t \in Remover, NEW packs \in SUBSET Pack, BeginRemove(t, packs)
        PROVE  Control'
  BY <1>32 DEF BeginRemove
<1> QED BY <1>1, <1>2, <1>3, <1>4, <1>5, <1>6, <1>7, <1>8, <1>9, <1>10, <1>11,
   <1>12, <1>13, <1>14, <1>15, <1>16, <1>17, <1>18, <1>19, <1>20, <1>21, <1>22,
   <1>23, <1>24, <1>25, <1>26, <1>27, <1>28, <1>29, <1>30, <1>31, <1>32
  DEF Next, InstallStep, RebuildStep, RemoveStep

\* What is built from the installed packs is an image, and a deletion leaves
\* nothing else than a directory may hold.
LEMMA Images ==
  /\ NoFile \in Image /\ Absent \in Content /\ Debris \in Content /\ Gutted \in Content
  /\ Version \subseteq Content
  /\ live \in [Pack -> Content] => ImageOfPacks \in Image
  /\ \A c \in Content : Left(c) \subseteq Content
BY StoreAssumption DEF Image, NoFile, Content, ImageOfPacks, Installed, Left

\* The disk holds nothing but packs, images, downloads and what is left of them.
LEMMA DiskStep ==
  ASSUME Control, Disk, [Next]_vars
  PROVE  Disk'
<1> USE ThreadFacts, Images DEF diskVars, fetchVars, litterVars, boundVars, threadVars,
       removeVars, historyVars, Step, Goto,
       Interferes, Control, Disk
<1>1. CASE UNCHANGED vars
  BY <1>1 DEF vars
<1>2. CASE CleanupAtStart
  BY <1>2 DEF CleanupAtStart, ClearStale
<1>3. CASE Expire
  BY <1>3 DEF Expire
<1>4. CASE Crash
  BY <1>4 DEF Crash
<1>5. ASSUME NEW p \in Pack, BeginInstall(p) PROVE Disk'
  BY <1>5 DEF BeginInstall, ClearStale
<1>6. CASE MakeWork
  BY <1>6 DEF MakeWork
<1>7. CASE CheckCache
  BY <1>7 DEF CheckCache
<1>8. CASE Fetch
  BY <1>8 DEF Fetch
<1>9. CASE RenamePart
  BY <1>9 DEF RenamePart
<1>10. CASE VerifyDownload
  BY <1>10 DEF VerifyDownload
<1>11. CASE Prepare
  BY <1>11 DEF Prepare
<1>12. CASE DropOld
  BY <1>12 DEF DropOld
<1>13. CASE StashTarget
  BY <1>13 DEF StashTarget
<1>14. CASE PlaceCandidate
  <2>1. installs \in Version BY <1>14 DEF PlaceCandidate, Version
  <2> QED BY <1>14, <2>1 DEF PlaceCandidate
<1>15. CASE UndoPlace
  BY <1>15 DEF UndoPlace
<1>16. CASE RestoreOld
  BY <1>16 DEF RestoreOld
<1>17. CASE ReplaceFails
  BY <1>17 DEF ReplaceFails
<1>18. CASE RestoreFails
  BY <1>18 DEF RestoreFails
<1>19. CASE KeepNew
  BY <1>19 DEF KeepNew
<1>20. CASE DiscardDownload
  BY <1>20 DEF DiscardDownload
<1>21. CASE TidyWork
  BY <1>21 DEF TidyWork
<1>22. CASE EndInstall
  BY <1>22 DEF EndInstall
<1>23. ASSUME NEW t \in Thread, BeginRebuild(t) PROVE Disk'
  BY <1>23 DEF BeginRebuild, Failed
<1>24. ASSUME NEW t \in Thread, MergePacks(t) PROVE Disk'
  BY <1>24 DEF MergePacks
<1>25. ASSUME NEW t \in Thread, OpenTemporary(t) PROVE Disk'
  BY <1>25 DEF OpenTemporary, Shared
<1>26. ASSUME NEW t \in Thread, WriteTemporary(t) PROVE Disk'
  BY <1>26 DEF WriteTemporary, Shared
<1>27. ASSUME NEW t \in Thread, SwapRuntime(t) PROVE Disk'
  BY <1>27 DEF SwapRuntime
<1>28. ASSUME NEW t \in Thread, DropMerged(t) PROVE Disk'
  BY <1>28 DEF DropMerged, Failed
<1>29. ASSUME NEW t \in Remover, UnlinkPack(t) PROVE Disk'
  BY <1>29 DEF UnlinkPack
<1>30. ASSUME NEW t \in Remover, RemoveTree(t) PROVE Disk'
  BY <1>30 DEF RemoveTree
<1>31. ASSUME NEW t \in Remover, EndRemove(t) PROVE Disk'
  BY <1>31 DEF EndRemove
<1>32. ASSUME NEW t \in Remover, NEW packs \in SUBSET Pack, BeginRemove(t, packs)
        PROVE  Disk'
  BY <1>32 DEF BeginRemove
<1> QED BY <1>1, <1>2, <1>3, <1>4, <1>5, <1>6, <1>7, <1>8, <1>9, <1>10, <1>11,
   <1>12, <1>13, <1>14, <1>15, <1>16, <1>17, <1>18, <1>19, <1>20, <1>21, <1>22,
   <1>23, <1>24, <1>25, <1>26, <1>27, <1>28, <1>29, <1>30, <1>31, <1>32
  DEF Next, InstallStep, RebuildStep, RemoveStep

\* Only what lies on the disk grows old.
LEMMA LitterStep ==
  ASSUME Control, Disk, expired \subseteq Lying, [Next]_vars
  PROVE  expired' \subseteq Lying'
<1> USE ThreadFacts DEF diskVars, fetchVars, litterVars, boundVars, threadVars,
       removeVars, historyVars, Step, Goto,
       Lying, Disk, Control
<1>1. CASE UNCHANGED vars
  BY <1>1 DEF vars
<1>2. CASE CleanupAtStart
  BY <1>2 DEF CleanupAtStart, ClearStale, Stale
<1>3. CASE Expire
  BY <1>3 DEF Expire
<1>4. CASE Crash
  BY <1>4 DEF Crash, LeftBehind
<1>5. ASSUME NEW p \in Pack, BeginInstall(p) PROVE expired' \subseteq Lying'
  BY <1>5 DEF BeginInstall, ClearStale, Stale
<1>6. CASE MakeWork
  BY <1>6 DEF MakeWork
<1>7. CASE CheckCache
  BY <1>7 DEF CheckCache
<1>8. CASE Fetch
  BY <1>8 DEF Fetch
<1>9. CASE RenamePart
  BY <1>9 DEF RenamePart
<1>10. CASE VerifyDownload
  BY <1>10 DEF VerifyDownload
<1>11. CASE Prepare
  BY <1>11 DEF Prepare
<1>12. CASE DropOld
  BY <1>12 DEF DropOld
<1>13. CASE StashTarget
  BY <1>13 DEF StashTarget
<1>14. CASE PlaceCandidate
  BY <1>14 DEF PlaceCandidate
<1>15. CASE UndoPlace
  BY <1>15 DEF UndoPlace
<1>16. CASE RestoreOld
  BY <1>16 DEF RestoreOld
<1>17. CASE ReplaceFails
  BY <1>17 DEF ReplaceFails
<1>18. CASE RestoreFails
  BY <1>18 DEF RestoreFails
<1>19. CASE KeepNew
  BY <1>19 DEF KeepNew
<1>20. CASE DiscardDownload
  BY <1>20 DEF DiscardDownload
<1>21. CASE TidyWork
  BY <1>21 DEF TidyWork
<1>22. CASE EndInstall
  BY <1>22 DEF EndInstall
<1>23. ASSUME NEW t \in Thread, BeginRebuild(t) PROVE expired' \subseteq Lying'
  BY <1>23 DEF BeginRebuild, Failed
<1>24. ASSUME NEW t \in Thread, MergePacks(t) PROVE expired' \subseteq Lying'
  BY <1>24 DEF MergePacks
<1>25. ASSUME NEW t \in Thread, OpenTemporary(t) PROVE expired' \subseteq Lying'
  BY <1>25 DEF OpenTemporary
<1>26. ASSUME NEW t \in Thread, WriteTemporary(t) PROVE expired' \subseteq Lying'
  BY <1>26 DEF WriteTemporary
<1>27. ASSUME NEW t \in Thread, SwapRuntime(t) PROVE expired' \subseteq Lying'
  BY <1>27 DEF SwapRuntime
<1>28. ASSUME NEW t \in Thread, DropMerged(t) PROVE expired' \subseteq Lying'
  BY <1>28 DEF DropMerged, Failed
<1>29. ASSUME NEW t \in Remover, UnlinkPack(t) PROVE expired' \subseteq Lying'
  BY <1>29 DEF UnlinkPack
<1>30. ASSUME NEW t \in Remover, RemoveTree(t) PROVE expired' \subseteq Lying'
  BY <1>30 DEF RemoveTree
<1>31. ASSUME NEW t \in Remover, EndRemove(t) PROVE expired' \subseteq Lying'
  BY <1>31 DEF EndRemove
<1>32. ASSUME NEW t \in Remover, NEW packs \in SUBSET Pack, BeginRemove(t, packs)
        PROVE  expired' \subseteq Lying'
  BY <1>32 DEF BeginRemove
<1> QED BY <1>1, <1>2, <1>3, <1>4, <1>5, <1>6, <1>7, <1>8, <1>9, <1>10, <1>11,
   <1>12, <1>13, <1>14, <1>15, <1>16, <1>17, <1>18, <1>19, <1>20, <1>21, <1>22,
   <1>23, <1>24, <1>25, <1>26, <1>27, <1>28, <1>29, <1>30, <1>31, <1>32
  DEF Next, InstallStep, RebuildStep, RemoveStep

\* An installation holds the lock from its verification to its end, and the
\* clearing of stale files leaves it alone.
LEMMA VerifiedStep ==
  ASSUME Control, Disk, expired \subseteq Lying, UsesVerified, [Next]_vars
  PROVE  UsesVerified'
<1> USE ThreadFacts DEF diskVars, fetchVars, litterVars, boundVars, threadVars,
       removeVars, historyVars, Step, Goto,
       UsesVerified, Disk, Control, RebuildPc
<1>1. CASE UNCHANGED vars
  BY <1>1 DEF vars
<1>2. CASE CleanupAtStart
  BY <1>2 DEF CleanupAtStart, ClearStale, Stale
<1>3. CASE Expire
  BY <1>3 DEF Expire
<1>4. CASE Crash
  BY <1>4 DEF Crash
<1>5. ASSUME NEW p \in Pack, BeginInstall(p) PROVE UsesVerified'
  BY <1>5 DEF BeginInstall, ClearStale, Stale
<1>6. CASE MakeWork
  BY <1>6 DEF MakeWork
<1>7. CASE CheckCache
  BY <1>7 DEF CheckCache
<1>8. CASE Fetch
  BY <1>8 DEF Fetch
<1>9. CASE RenamePart
  BY <1>9 DEF RenamePart
<1>10. CASE VerifyDownload
  BY <1>10 DEF VerifyDownload
<1>11. CASE Prepare
  BY <1>11 DEF Prepare
<1>12. CASE DropOld
  BY <1>12 DEF DropOld
<1>13. CASE StashTarget
  BY <1>13 DEF StashTarget
<1>14. CASE PlaceCandidate
  BY <1>14 DEF PlaceCandidate
<1>15. CASE UndoPlace
  BY <1>15 DEF UndoPlace
<1>16. CASE RestoreOld
  BY <1>16 DEF RestoreOld
<1>17. CASE ReplaceFails
  BY <1>17 DEF ReplaceFails
<1>18. CASE RestoreFails
  BY <1>18 DEF RestoreFails
<1>19. CASE KeepNew
  BY <1>19 DEF KeepNew
<1>20. CASE DiscardDownload
  BY <1>20 DEF DiscardDownload
<1>21. CASE TidyWork
  BY <1>21 DEF TidyWork
<1>22. CASE EndInstall
  BY <1>22 DEF EndInstall
<1>23. ASSUME NEW t \in Thread, BeginRebuild(t) PROVE UsesVerified'
  BY <1>23 DEF BeginRebuild, Failed
<1>24. ASSUME NEW t \in Thread, MergePacks(t) PROVE UsesVerified'
  BY <1>24 DEF MergePacks
<1>25. ASSUME NEW t \in Thread, OpenTemporary(t) PROVE UsesVerified'
  BY <1>25 DEF OpenTemporary
<1>26. ASSUME NEW t \in Thread, WriteTemporary(t) PROVE UsesVerified'
  BY <1>26 DEF WriteTemporary
<1>27. ASSUME NEW t \in Thread, SwapRuntime(t) PROVE UsesVerified'
  BY <1>27 DEF SwapRuntime
<1>28. ASSUME NEW t \in Thread, DropMerged(t) PROVE UsesVerified'
  BY <1>28 DEF DropMerged, Failed
<1>29. ASSUME NEW t \in Remover, UnlinkPack(t) PROVE UsesVerified'
  BY <1>29 DEF UnlinkPack
<1>30. ASSUME NEW t \in Remover, RemoveTree(t) PROVE UsesVerified'
  BY <1>30 DEF RemoveTree
<1>31. ASSUME NEW t \in Remover, EndRemove(t) PROVE UsesVerified'
  BY <1>31 DEF EndRemove
<1>32. ASSUME NEW t \in Remover, NEW packs \in SUBSET Pack, BeginRemove(t, packs)
        PROVE  UsesVerified'
  BY <1>32 DEF BeginRemove
<1> QED BY <1>1, <1>2, <1>3, <1>4, <1>5, <1>6, <1>7, <1>8, <1>9, <1>10, <1>11,
   <1>12, <1>13, <1>14, <1>15, <1>16, <1>17, <1>18, <1>19, <1>20, <1>21, <1>22,
   <1>23, <1>24, <1>25, <1>26, <1>27, <1>28, <1>29, <1>30, <1>31, <1>32
  DEF Next, InstallStep, RebuildStep, RemoveStep

------------------------------------------------------------------------------
(* What an installation and a removal may do to the packs. *)

\* The contents of a pack's directory are told apart.
LEMMA Apart ==
  /\ Gutted # Debris /\ Gutted # Absent /\ Debris # Absent
  /\ \A v \in Version : v \notin {Gutted, Debris, Absent}
BY StoreAssumption DEF Gutted, Debris, Absent, Version

At == pc["installer"]

\* A removal has only what the user has asked to remove, and not the pack that
\* is being installed, unless it had it when the installation began.
Claims ==
  /\ \A t \in Remover : (victims[t] \cup victim[t]) \cap owned = {}
  /\ At # "idle" /\ ~doomed => \A t \in Remover : target \notin victims[t] \cup victim[t]
  /\ At # "idle" /\ doomed => target \notin owned
  /\ target \in owned /\ At \notin {"idle", "discard", "tidy", "unlock"}
       => before \in Version

\* No removal comes to the pack of an installation that began without it.
LEMMA ClaimsStep ==
  ASSUME Control, Disk, Claims, [Next]_vars
  PROVE  Claims'
<1> USE ThreadFacts DEF diskVars, fetchVars, litterVars, boundVars, threadVars,
       removeVars, historyVars, Step, Goto,
       Claims, At, Control, Disk, InstallPc, RebuildPc, RemovePc
<1>1. CASE UNCHANGED vars
  BY <1>1 DEF vars
<1>2. CASE CleanupAtStart
  BY <1>2 DEF CleanupAtStart, ClearStale
<1>3. CASE Expire
  BY <1>3 DEF Expire
<1>4. CASE Crash
  BY <1>4 DEF Crash
<1>5. ASSUME NEW p \in Pack, BeginInstall(p) PROVE Claims'
  BY <1>5 DEF BeginInstall, ClearStale
<1>6. CASE MakeWork
  BY <1>6 DEF MakeWork
<1>7. CASE CheckCache
  BY <1>7 DEF CheckCache
<1>8. CASE Fetch
  BY <1>8 DEF Fetch
<1>9. CASE RenamePart
  BY <1>9 DEF RenamePart
<1>10. CASE VerifyDownload
  BY <1>10 DEF VerifyDownload
<1>11. CASE Prepare
  BY <1>11 DEF Prepare
<1>12. CASE DropOld
  BY <1>12 DEF DropOld
<1>13. CASE StashTarget
  BY <1>13 DEF StashTarget
<1>14. CASE PlaceCandidate
  BY <1>14 DEF PlaceCandidate
<1>15. CASE UndoPlace
  BY <1>15 DEF UndoPlace
<1>16. CASE RestoreOld
  BY <1>16 DEF RestoreOld
<1>17. CASE ReplaceFails
  BY <1>17 DEF ReplaceFails
<1>18. CASE RestoreFails
  BY <1>18 DEF RestoreFails
<1>19. CASE KeepNew
  BY <1>19 DEF KeepNew
<1>20. CASE DiscardDownload
  BY <1>20 DEF DiscardDownload
<1>21. CASE TidyWork
  BY <1>21 DEF TidyWork
<1>22. CASE EndInstall
  BY <1>22 DEF EndInstall
<1>23. ASSUME NEW t \in Thread, BeginRebuild(t) PROVE Claims'
  BY <1>23 DEF BeginRebuild, Failed
<1>24. ASSUME NEW t \in Thread, MergePacks(t) PROVE Claims'
  BY <1>24 DEF MergePacks
<1>25. ASSUME NEW t \in Thread, OpenTemporary(t) PROVE Claims'
  BY <1>25 DEF OpenTemporary
<1>26. ASSUME NEW t \in Thread, WriteTemporary(t) PROVE Claims'
  BY <1>26 DEF WriteTemporary
<1>27. ASSUME NEW t \in Thread, SwapRuntime(t) PROVE Claims'
  BY <1>27 DEF SwapRuntime
<1>28. ASSUME NEW t \in Thread, DropMerged(t) PROVE Claims'
  BY <1>28 DEF DropMerged, Failed
<1>29. ASSUME NEW t \in Remover, UnlinkPack(t) PROVE Claims'
  BY <1>29 DEF UnlinkPack
<1>30. ASSUME NEW t \in Remover, RemoveTree(t) PROVE Claims'
  BY <1>30 DEF RemoveTree
<1>31. ASSUME NEW t \in Remover, EndRemove(t) PROVE Claims'
  BY <1>31 DEF EndRemove
<1>32. ASSUME NEW t \in Remover, NEW packs \in SUBSET Pack, BeginRemove(t, packs)
        PROVE  Claims'
  BY <1>32 DEF BeginRemove
<1> QED BY <1>1, <1>2, <1>3, <1>4, <1>5, <1>6, <1>7, <1>8, <1>9, <1>10, <1>11,
   <1>12, <1>13, <1>14, <1>15, <1>16, <1>17, <1>18, <1>19, <1>20, <1>21, <1>22,
   <1>23, <1>24, <1>25, <1>26, <1>27, <1>28, <1>29, <1>30, <1>31, <1>32
  DEF Next, InstallStep, RebuildStep, RemoveStep

\* What an installation has put aside or put in place.
Keeping == At \in RebuildPc /\ return["installer"] = "keep"
Saved ==
  /\ ~doomed =>
       /\ At \in {"work", "cache", "fetch", "rename", "verify", "prepare", "dropOld",
                 "stash"} => live[target] = before
       /\ (At \in RebuildPc /\ return["installer"] = "tidy") /\ before # Absent
            => live[target] = before
       /\ (At \in {"place", "undo", "restore"} \/ Keeping) /\ before # Absent
            => old[target] = before
       /\ At \in {"keep", "discard"} \/ Keeping => live[target] = installs
  /\ At \in {"fetch", "rename"} => zip[target] = "none"

\* Every way out of an installation knows which of the two packs is in place.
LEMMA SavedStep ==
  ASSUME Control, Disk, Claims, Saved, [Next]_vars
  PROVE  Saved'
<1> USE ThreadFacts DEF diskVars, fetchVars, litterVars, boundVars, threadVars,
       removeVars, historyVars, Step, Goto,
       Claims, Saved, At, Keeping, Control, Disk, RebuildPc, RemovePc
<1>1. CASE UNCHANGED vars
  BY <1>1 DEF vars
<1>2. CASE CleanupAtStart
  BY <1>2 DEF CleanupAtStart, ClearStale
<1>3. CASE Expire
  BY <1>3 DEF Expire
<1>4. CASE Crash
  BY <1>4 DEF Crash
<1>5. ASSUME NEW p \in Pack, BeginInstall(p) PROVE Saved'
  BY <1>5 DEF BeginInstall, ClearStale
<1>6. CASE MakeWork
  BY <1>6 DEF MakeWork
<1>7. CASE CheckCache
  BY <1>7 DEF CheckCache
<1>8. CASE Fetch
  BY <1>8 DEF Fetch
<1>9. CASE RenamePart
  BY <1>9 DEF RenamePart
<1>10. CASE VerifyDownload
  BY <1>10 DEF VerifyDownload
<1>11. CASE Prepare
  BY <1>11 DEF Prepare
<1>12. CASE DropOld
  BY <1>12 DEF DropOld
<1>13. CASE StashTarget
  BY <1>13 DEF StashTarget
<1>14. CASE PlaceCandidate
  BY <1>14 DEF PlaceCandidate
<1>15. CASE UndoPlace
  BY <1>15 DEF UndoPlace
<1>16. CASE RestoreOld
  BY <1>16 DEF RestoreOld
<1>17. CASE ReplaceFails
  BY <1>17 DEF ReplaceFails
<1>18. CASE RestoreFails
  BY <1>18 DEF RestoreFails
<1>19. CASE KeepNew
  BY <1>19 DEF KeepNew
<1>20. CASE DiscardDownload
  BY <1>20 DEF DiscardDownload
<1>21. CASE TidyWork
  BY <1>21 DEF TidyWork
<1>22. CASE EndInstall
  BY <1>22 DEF EndInstall
<1>23. ASSUME NEW t \in Thread, BeginRebuild(t) PROVE Saved'
  BY <1>23 DEF BeginRebuild, Failed
<1>24. ASSUME NEW t \in Thread, MergePacks(t) PROVE Saved'
  BY <1>24 DEF MergePacks
<1>25. ASSUME NEW t \in Thread, OpenTemporary(t) PROVE Saved'
  BY <1>25 DEF OpenTemporary
<1>26. ASSUME NEW t \in Thread, WriteTemporary(t) PROVE Saved'
  BY <1>26 DEF WriteTemporary
<1>27. ASSUME NEW t \in Thread, SwapRuntime(t) PROVE Saved'
  BY <1>27 DEF SwapRuntime
<1>28. ASSUME NEW t \in Thread, DropMerged(t) PROVE Saved'
  BY <1>28 DEF DropMerged, Failed
<1>29. ASSUME NEW t \in Remover, UnlinkPack(t) PROVE Saved'
  BY <1>29 DEF UnlinkPack
<1>30. ASSUME NEW t \in Remover, RemoveTree(t) PROVE Saved'
  BY <1>30 DEF RemoveTree
<1>31. ASSUME NEW t \in Remover, EndRemove(t) PROVE Saved'
  BY <1>31 DEF EndRemove
<1>32. ASSUME NEW t \in Remover, NEW packs \in SUBSET Pack, BeginRemove(t, packs)
        PROVE  Saved'
  BY <1>32 DEF BeginRemove
<1> QED BY <1>1, <1>2, <1>3, <1>4, <1>5, <1>6, <1>7, <1>8, <1>9, <1>10, <1>11,
   <1>12, <1>13, <1>14, <1>15, <1>16, <1>17, <1>18, <1>19, <1>20, <1>21, <1>22,
   <1>23, <1>24, <1>25, <1>26, <1>27, <1>28, <1>29, <1>30, <1>31, <1>32
  DEF Next, InstallStep, RebuildStep, RemoveStep

\* A pack in the user's hands has one directory or the other, or a candidate.
LEMMA SurvivesStep ==
  ASSUME Control, Disk, Claims, Saved, PackSurvives, [Next]_vars
  PROVE  PackSurvives'
<1> USE ThreadFacts, Apart DEF diskVars, fetchVars, litterVars, boundVars, threadVars,
       removeVars, historyVars, Step, Goto,
       PackSurvives, Candidate, Claims, Saved, At, Keeping, Control, Disk,
       InstallPc, RebuildPc, RemovePc
<1>1. CASE UNCHANGED vars
  BY <1>1 DEF vars
<1>2. CASE CleanupAtStart
  BY <1>2 DEF CleanupAtStart, ClearStale
<1>3. CASE Expire
  BY <1>3 DEF Expire
<1>4. CASE Crash
  BY <1>4 DEF Crash
<1>5. ASSUME NEW p \in Pack, BeginInstall(p) PROVE PackSurvives'
  BY <1>5 DEF BeginInstall, ClearStale, Installed, InstalledPacks
<1>6. CASE MakeWork
  BY <1>6 DEF MakeWork
<1>7. CASE CheckCache
  BY <1>7 DEF CheckCache
<1>8. CASE Fetch
  BY <1>8 DEF Fetch
<1>9. CASE RenamePart
  BY <1>9 DEF RenamePart
<1>10. CASE VerifyDownload
  BY <1>10 DEF VerifyDownload
<1>11. CASE Prepare
  BY <1>11 DEF Prepare
<1>12. CASE DropOld
  BY <1>12 DEF DropOld
<1>13. CASE StashTarget
  BY <1>13 DEF StashTarget
<1>14. CASE PlaceCandidate
  BY <1>14 DEF PlaceCandidate, Version
<1>15. CASE UndoPlace
  BY <1>15 DEF UndoPlace
<1>16. CASE RestoreOld
  BY <1>16 DEF RestoreOld
<1>17. CASE ReplaceFails
  BY <1>17 DEF ReplaceFails
<1>18. CASE RestoreFails
  BY <1>18 DEF RestoreFails
<1>19. CASE KeepNew
  <2>1. CASE doomed
    <3>1. target \notin owned BY <1>19, <2>1 DEF KeepNew
    <3>2. \A p \in Pack : p # target => old'[p] = old[p] BY <1>19 DEF KeepNew
    <3>3. UNCHANGED <<live, owned, target>> BY <1>19, <2>1 DEF KeepNew
    <3>4. \A p \in owned : live[p] \in Version \/ old[p] \in Version BY <1>19 DEF KeepNew
    <3>5. owned \subseteq Pack OBVIOUS
    <3> QED BY <3>1, <3>2, <3>3, <3>4, <3>5
  <2>2. CASE ~doomed
    <3>1. live[target] = installs BY <1>19, <2>2 DEF KeepNew
    <3>2. live[target] \in Version BY <1>19, <3>1 DEF KeepNew, Version
    <3>3. \A p \in Pack : p # target => old'[p] = old[p] BY <1>19 DEF KeepNew
    <3>4. UNCHANGED live /\ owned' = owned \cup {target} BY <1>19, <2>2 DEF KeepNew
    <3>5. \A p \in owned : p # target => live[p] \in Version \/ old[p] \in Version
      BY <1>19 DEF KeepNew
    <3>6. owned \subseteq Pack OBVIOUS
    <3> QED BY <3>2, <3>3, <3>4, <3>5, <3>6
  <2> QED BY <2>1, <2>2
<1>20. CASE DiscardDownload
  BY <1>20 DEF DiscardDownload
<1>21. CASE TidyWork
  BY <1>21 DEF TidyWork
<1>22. CASE EndInstall
  BY <1>22 DEF EndInstall
<1>23. ASSUME NEW t \in Thread, BeginRebuild(t) PROVE PackSurvives'
  BY <1>23 DEF BeginRebuild, Failed
<1>24. ASSUME NEW t \in Thread, MergePacks(t) PROVE PackSurvives'
  BY <1>24 DEF MergePacks
<1>25. ASSUME NEW t \in Thread, OpenTemporary(t) PROVE PackSurvives'
  BY <1>25 DEF OpenTemporary
<1>26. ASSUME NEW t \in Thread, WriteTemporary(t) PROVE PackSurvives'
  BY <1>26 DEF WriteTemporary
<1>27. ASSUME NEW t \in Thread, SwapRuntime(t) PROVE PackSurvives'
  BY <1>27 DEF SwapRuntime
<1>28. ASSUME NEW t \in Thread, DropMerged(t) PROVE PackSurvives'
  BY <1>28 DEF DropMerged, Failed
<1>29. ASSUME NEW t \in Remover, UnlinkPack(t) PROVE PackSurvives'
  BY <1>29 DEF UnlinkPack
<1>30. ASSUME NEW t \in Remover, RemoveTree(t) PROVE PackSurvives'
  BY <1>30 DEF RemoveTree
<1>31. ASSUME NEW t \in Remover, EndRemove(t) PROVE PackSurvives'
  BY <1>31 DEF EndRemove
<1>32. ASSUME NEW t \in Remover, NEW packs \in SUBSET Pack, BeginRemove(t, packs)
        PROVE  PackSurvives'
  BY <1>32 DEF BeginRemove
<1> QED BY <1>1, <1>2, <1>3, <1>4, <1>5, <1>6, <1>7, <1>8, <1>9, <1>10, <1>11,
   <1>12, <1>13, <1>14, <1>15, <1>16, <1>17, <1>18, <1>19, <1>20, <1>21, <1>22,
   <1>23, <1>24, <1>25, <1>26, <1>27, <1>28, <1>29, <1>30, <1>31, <1>32
  DEF Next, InstallStep, RebuildStep, RemoveStep

------------------------------------------------------------------------------
(* Until two threads race for the image. *)

\* No image is torn, as there are packs.
LEMMA NeverTorn == Pack # {} => Torn \notin Image /\ NoFile # Torn
BY StoreAssumption DEF Torn, Image, NoFile, Version, Debris, Gutted, Absent

\* One thread builds the image at a time.
Single == \A s, t \in Thread : pc[s] \in Building /\ pc[t] \in Building => s = t

\* The image is whole, and so is what is about to replace it.
Whole ==
  /\ runtime # Torn
  /\ \A t \in Thread : pc[t] = "write" => ~mixed
  /\ \A t \in Thread : pc[t] = "swap" => temporary # Torn

\* Beginning to build beside a builder is a race.
LEMMA SingleStep ==
  ASSUME Control, ~raced => Single, ~raced', [Next]_vars
  PROVE  Single'
<1> USE ThreadFacts DEF diskVars, fetchVars, litterVars, boundVars, threadVars,
       removeVars, historyVars, Step, Goto,
       Interferes, Single, Building, Control, InstallPc, RebuildPc, RemovePc
<1>1. CASE UNCHANGED vars
  BY <1>1 DEF vars
<1>2. CASE CleanupAtStart
  BY <1>2 DEF CleanupAtStart, ClearStale
<1>3. CASE Expire
  BY <1>3 DEF Expire
<1>4. CASE Crash
  BY <1>4 DEF Crash
<1>5. ASSUME NEW p \in Pack, BeginInstall(p) PROVE Single'
  BY <1>5 DEF BeginInstall, ClearStale
<1>6. CASE MakeWork
  BY <1>6 DEF MakeWork
<1>7. CASE CheckCache
  BY <1>7 DEF CheckCache
<1>8. CASE Fetch
  BY <1>8 DEF Fetch
<1>9. CASE RenamePart
  BY <1>9 DEF RenamePart
<1>10. CASE VerifyDownload
  BY <1>10 DEF VerifyDownload
<1>11. CASE Prepare
  BY <1>11 DEF Prepare
<1>12. CASE DropOld
  BY <1>12 DEF DropOld
<1>13. CASE StashTarget
  BY <1>13 DEF StashTarget
<1>14. CASE PlaceCandidate
  BY <1>14 DEF PlaceCandidate
<1>15. CASE UndoPlace
  BY <1>15 DEF UndoPlace
<1>16. CASE RestoreOld
  BY <1>16 DEF RestoreOld
<1>17. CASE ReplaceFails
  BY <1>17 DEF ReplaceFails
<1>18. CASE RestoreFails
  BY <1>18 DEF RestoreFails
<1>19. CASE KeepNew
  BY <1>19 DEF KeepNew
<1>20. CASE DiscardDownload
  BY <1>20 DEF DiscardDownload
<1>21. CASE TidyWork
  BY <1>21 DEF TidyWork
<1>22. CASE EndInstall
  BY <1>22 DEF EndInstall
<1>23. ASSUME NEW t \in Thread, BeginRebuild(t) PROVE Single'
  <2>1. ~raced /\ \A s \in Thread \ {t} : pc[s] \notin Building
    BY ONLY <1>23, ~raced' DEF BeginRebuild, Interferes
  <2>2. PICK at : pc' = [pc EXCEPT ![t] = at]
    BY ONLY <1>23 DEF BeginRebuild, Goto
  <2> QED BY ONLY <2>1, <2>2, pc \in [Thread -> RebuildPc \cup InstallPc \cup RemovePc] DEF Control, Single
<1>24. ASSUME NEW t \in Thread, MergePacks(t) PROVE Single'
  BY <1>24 DEF MergePacks
<1>25. ASSUME NEW t \in Thread, OpenTemporary(t) PROVE Single'
  BY <1>25 DEF OpenTemporary
<1>26. ASSUME NEW t \in Thread, WriteTemporary(t) PROVE Single'
  BY <1>26 DEF WriteTemporary
<1>27. ASSUME NEW t \in Thread, SwapRuntime(t) PROVE Single'
  BY <1>27 DEF SwapRuntime
<1>28. ASSUME NEW t \in Thread, DropMerged(t) PROVE Single'
  BY <1>28 DEF DropMerged, Failed
<1>29. ASSUME NEW t \in Remover, UnlinkPack(t) PROVE Single'
  BY <1>29 DEF UnlinkPack
<1>30. ASSUME NEW t \in Remover, RemoveTree(t) PROVE Single'
  BY <1>30 DEF RemoveTree
<1>31. ASSUME NEW t \in Remover, EndRemove(t) PROVE Single'
  BY <1>31 DEF EndRemove
<1>32. ASSUME NEW t \in Remover, NEW packs \in SUBSET Pack, BeginRemove(t, packs)
        PROVE  Single'
  BY <1>32 DEF BeginRemove
<1> QED BY <1>1, <1>2, <1>3, <1>4, <1>5, <1>6, <1>7, <1>8, <1>9, <1>10, <1>11,
   <1>12, <1>13, <1>14, <1>15, <1>16, <1>17, <1>18, <1>19, <1>20, <1>21, <1>22,
   <1>23, <1>24, <1>25, <1>26, <1>27, <1>28, <1>29, <1>30, <1>31, <1>32
  DEF Next, InstallStep, RebuildStep, RemoveStep

\* A thread that builds alone writes its image complete before it replaces the
\* runtime.
LEMMA WholeStep ==
  ASSUME Control, Disk, ~raced => Single /\ Whole, ~raced', [Next]_vars
  PROVE  Whole'
<1> USE ThreadFacts, NeverTorn DEF diskVars, fetchVars, litterVars, boundVars, threadVars,
       removeVars, historyVars, Step, Goto,
       Interferes, Single, Building, Whole, Control, Disk, InstallPc, RebuildPc,
       RemovePc
<1>1. CASE UNCHANGED vars
  BY <1>1 DEF vars
<1>2. CASE CleanupAtStart
  BY <1>2 DEF CleanupAtStart, ClearStale
<1>3. CASE Expire
  BY <1>3 DEF Expire
<1>4. CASE Crash
  BY <1>4 DEF Crash
<1>5. ASSUME NEW p \in Pack, BeginInstall(p) PROVE Whole'
  BY <1>5 DEF BeginInstall, ClearStale
<1>6. CASE MakeWork
  BY <1>6 DEF MakeWork
<1>7. CASE CheckCache
  BY <1>7 DEF CheckCache
<1>8. CASE Fetch
  BY <1>8 DEF Fetch
<1>9. CASE RenamePart
  BY <1>9 DEF RenamePart
<1>10. CASE VerifyDownload
  BY <1>10 DEF VerifyDownload
<1>11. CASE Prepare
  BY <1>11 DEF Prepare
<1>12. CASE DropOld
  BY <1>12 DEF DropOld
<1>13. CASE StashTarget
  BY <1>13 DEF StashTarget
<1>14. CASE PlaceCandidate
  BY <1>14 DEF PlaceCandidate
<1>15. CASE UndoPlace
  BY <1>15 DEF UndoPlace
<1>16. CASE RestoreOld
  BY <1>16 DEF RestoreOld
<1>17. CASE ReplaceFails
  BY <1>17 DEF ReplaceFails
<1>18. CASE RestoreFails
  BY <1>18 DEF RestoreFails
<1>19. CASE KeepNew
  BY <1>19 DEF KeepNew
<1>20. CASE DiscardDownload
  BY <1>20 DEF DiscardDownload
<1>21. CASE TidyWork
  BY <1>21 DEF TidyWork
<1>22. CASE EndInstall
  BY <1>22 DEF EndInstall
<1>23. ASSUME NEW t \in Thread, BeginRebuild(t) PROVE Whole'
  BY <1>23 DEF BeginRebuild, Failed
<1>24. ASSUME NEW t \in Thread, MergePacks(t) PROVE Whole'
  BY <1>24 DEF MergePacks
<1>25. ASSUME NEW t \in Thread, OpenTemporary(t) PROVE Whole'
  BY <1>25 DEF OpenTemporary, Shared
<1>26. ASSUME NEW t \in Thread, WriteTemporary(t) PROVE Whole'
  BY <1>26 DEF WriteTemporary, Shared
<1>27. ASSUME NEW t \in Thread, SwapRuntime(t) PROVE Whole'
  BY <1>27 DEF SwapRuntime, Shared
<1>28. ASSUME NEW t \in Thread, DropMerged(t) PROVE Whole'
  BY <1>28 DEF DropMerged, Failed
<1>29. ASSUME NEW t \in Remover, UnlinkPack(t) PROVE Whole'
  BY <1>29 DEF UnlinkPack
<1>30. ASSUME NEW t \in Remover, RemoveTree(t) PROVE Whole'
  BY <1>30 DEF RemoveTree
<1>31. ASSUME NEW t \in Remover, EndRemove(t) PROVE Whole'
  BY <1>31 DEF EndRemove
<1>32. ASSUME NEW t \in Remover, NEW packs \in SUBSET Pack, BeginRemove(t, packs)
        PROVE  Whole'
  BY <1>32 DEF BeginRemove
<1> QED BY <1>1, <1>2, <1>3, <1>4, <1>5, <1>6, <1>7, <1>8, <1>9, <1>10, <1>11,
   <1>12, <1>13, <1>14, <1>15, <1>16, <1>17, <1>18, <1>19, <1>20, <1>21, <1>22,
   <1>23, <1>24, <1>25, <1>26, <1>27, <1>28, <1>29, <1>30, <1>31, <1>32
  DEF Next, InstallStep, RebuildStep, RemoveStep

\* While no pack is being changed and the image is not being built, the image
\* is that of the packs; while it is, the thread that builds it has copied them.
Settled ==
  {"idle", "work", "cache", "fetch", "rename", "verify", "prepare", "dropOld", "stash",
   "unmerge", "keep", "tidy", "discard", "unlock"}
Matching ==
  /\ (\A t \in Thread : pc[t] \in Settled) /\ ~failed => runtime = ImageOfPacks
  /\ \A t \in Thread :
       /\ pc[t] \in {"open", "write", "swap"} => image[t] = ImageOfPacks
       /\ pc[t] = "swap" => temporary \in {image[t], Torn}

\* The image is built from the packs as they stay until it is in place.
LEMMA MatchingStep ==
  ASSUME Control, Disk, ~raced => Single /\ Whole /\ Matching, ~raced', [Next]_vars
  PROVE  Matching'
<1> USE ThreadFacts DEF diskVars, fetchVars, litterVars, boundVars, threadVars,
       removeVars, historyVars, Step, Goto,
       Interferes, Single, Building, Matching, Settled, Whole, Control, Disk,
       ImageOfPacks, Installed, InstallPc, RebuildPc, RemovePc
<1>1. CASE UNCHANGED vars
  BY <1>1 DEF vars
<1>2. CASE CleanupAtStart
  BY <1>2 DEF CleanupAtStart, ClearStale
<1>3. CASE Expire
  BY <1>3 DEF Expire
<1>4. CASE Crash
  BY <1>4 DEF Crash
<1>5. ASSUME NEW p \in Pack, BeginInstall(p) PROVE Matching'
  BY <1>5 DEF BeginInstall, ClearStale
<1>6. CASE MakeWork
  BY <1>6 DEF MakeWork
<1>7. CASE CheckCache
  BY <1>7 DEF CheckCache
<1>8. CASE Fetch
  BY <1>8 DEF Fetch
<1>9. CASE RenamePart
  BY <1>9 DEF RenamePart
<1>10. CASE VerifyDownload
  BY <1>10 DEF VerifyDownload
<1>11. CASE Prepare
  BY <1>11 DEF Prepare
<1>12. CASE DropOld
  BY <1>12 DEF DropOld
<1>13. CASE StashTarget
  <2>1. CASE live[target] = Absent
    BY <1>13, <2>1 DEF StashTarget
  <2>2. CASE live[target] # Absent
    <3>1. \A s \in Thread \ {"installer"} : pc[s] \notin Building
      BY ONLY <1>13, <2>2, ~raced' DEF StashTarget, Interferes
    <3>2. pc'["installer"] \notin Settled \cup Building
          /\ \A s \in Thread \ {"installer"} : pc'[s] = pc[s]
      BY <1>13 DEF StashTarget
    <3> QED BY <3>1, <3>2
  <2> QED BY <2>1, <2>2
<1>14. CASE PlaceCandidate
  BY <1>14 DEF PlaceCandidate
<1>15. CASE UndoPlace
  BY <1>15 DEF UndoPlace
<1>16. CASE RestoreOld
  <2>1. CASE old[target] = Absent
    BY <1>16, <2>1 DEF RestoreOld
  <2>2. CASE old[target] # Absent
    <3>1. \A s \in Thread \ {"installer"} : pc[s] \notin Building
      BY ONLY <1>16, <2>2, ~raced' DEF RestoreOld, Interferes
    <3>2. pc'["installer"] \notin Settled \cup Building
          /\ \A s \in Thread \ {"installer"} : pc'[s] = pc[s]
      BY <1>16 DEF RestoreOld
    <3> QED BY <3>1, <3>2
  <2> QED BY <2>1, <2>2
<1>17. CASE ReplaceFails
  BY <1>17 DEF ReplaceFails
<1>18. CASE RestoreFails
  BY <1>18 DEF RestoreFails
<1>19. CASE KeepNew
  BY <1>19 DEF KeepNew
<1>20. CASE DiscardDownload
  BY <1>20 DEF DiscardDownload
<1>21. CASE TidyWork
  BY <1>21 DEF TidyWork
<1>22. CASE EndInstall
  BY <1>22 DEF EndInstall
<1>23. ASSUME NEW t \in Thread, BeginRebuild(t) PROVE Matching'
  BY <1>23 DEF BeginRebuild, Failed, InstalledPacks, NoFile
<1>24. ASSUME NEW t \in Thread, MergePacks(t) PROVE Matching'
  BY <1>24 DEF MergePacks
<1>25. ASSUME NEW t \in Thread, OpenTemporary(t) PROVE Matching'
  BY <1>25 DEF OpenTemporary, Shared
<1>26. ASSUME NEW t \in Thread, WriteTemporary(t) PROVE Matching'
  BY <1>26 DEF WriteTemporary, Shared
<1>27. ASSUME NEW t \in Thread, SwapRuntime(t) PROVE Matching'
  BY <1>27 DEF SwapRuntime, Shared
<1>28. ASSUME NEW t \in Thread, DropMerged(t) PROVE Matching'
  BY <1>28 DEF DropMerged, Failed
<1>29. ASSUME NEW t \in Remover, UnlinkPack(t) PROVE Matching'
  BY <1>29 DEF UnlinkPack
<1>30. ASSUME NEW t \in Remover, RemoveTree(t) PROVE Matching'
  BY <1>30 DEF RemoveTree
<1>31. ASSUME NEW t \in Remover, EndRemove(t) PROVE Matching'
  BY <1>31 DEF EndRemove
<1>32. ASSUME NEW t \in Remover, NEW packs \in SUBSET Pack, BeginRemove(t, packs)
        PROVE  Matching'
  BY <1>32 DEF BeginRemove
<1> QED BY <1>1, <1>2, <1>3, <1>4, <1>5, <1>6, <1>7, <1>8, <1>9, <1>10, <1>11,
   <1>12, <1>13, <1>14, <1>15, <1>16, <1>17, <1>18, <1>19, <1>20, <1>21, <1>22,
   <1>23, <1>24, <1>25, <1>26, <1>27, <1>28, <1>29, <1>30, <1>31, <1>32
  DEF Next, InstallStep, RebuildStep, RemoveStep

------------------------------------------------------------------------------
(* The invariants, and what follows from them. *)

\* What holds whatever calls run at the same time.
Always ==
  /\ Control /\ Disk /\ expired \subseteq Lying /\ UsesVerified
  /\ Claims /\ Saved /\ PackSurvives

\* What holds until two threads race for the image.
Unraced == ~raced => Single /\ Whole /\ Matching

\* Both hold in the initial state and are kept by every step.
LEMMA InitAlways == Init => Always
<1> SUFFICES ASSUME Init PROVE Always OBVIOUS
<1> USE ThreadFacts, Images, Apart
<1>1. Control
  <2>1. installs \in 0..MaxInstalls BY StoreAssumption DEF Init
  <2>2. victims \in [Remover -> SUBSET Pack] /\ victim \in [Remover -> SUBSET Pack]
    BY DEF Init
  <2>3. pc \in [Thread -> {"idle"}] /\ return \in [Thread -> {"idle"}] BY DEF Init
  <2>4. pc["installer"] = "idle" /\ \A t \in Remover : pc[t] = "idle" BY <2>3
  <2>5. locked = FALSE /\ target \in Pack BY DEF Init
  <2> QED
    BY <2>1, <2>2, <2>3, <2>4, <2>5 DEF Control, InstallPc, RebuildPc, RemovePc
<1>2. live \in [Pack -> Content] /\ old \in [Pack -> Content] BY DEF Init
<1>3. image \in [Thread -> Image] BY DEF Init
<1>4. Disk BY <1>2, <1>3 DEF Init, Disk
<1>5. UsesVerified BY DEF Init, UsesVerified, RebuildPc
<1>6. Claims BY DEF Init, Claims, At
<1>7. Saved BY DEF Init, Saved, At, Keeping, RebuildPc
<1>8. PackSurvives BY DEF Init, PackSurvives
<1> QED BY <1>1, <1>4, <1>5, <1>6, <1>7, <1>8 DEF Always, Init

LEMMA InitUnraced == Init => Unraced
<1> SUFFICES ASSUME Init PROVE Unraced OBVIOUS
<1> USE ThreadFacts, Apart
<1>1. Single BY DEF Init, Single, Building
<1>2. Whole BY NeverTorn DEF Init, Whole
<1>3. Matching
  BY DEF Init, Matching, Settled, ImageOfPacks, NoFile, Installed, Version, Gutted,
         Absent
<1> QED BY <1>1, <1>2, <1>3 DEF Unraced

LEMMA AlwaysStep == Always /\ [Next]_vars => Always'
BY ControlStep, DiskStep, LitterStep, VerifiedStep, ClaimsStep, SavedStep, SurvivesStep
   DEF Always

LEMMA UnracedStep == Always /\ Unraced /\ [Next]_vars => Unraced'
BY SingleStep, WholeStep, MatchingStep DEF Always, Unraced

LEMMA AlwaysInvariant == Spec => []Always
BY InitAlways, AlwaysStep, PTL DEF Spec

LEMMA UnracedInvariant == Spec => []Unraced
BY InitUnraced, UnracedStep, AlwaysInvariant, PTL DEF Spec

\* Every variable keeps its type, the lock is held exactly while an
\* installation runs, and only what is on the disk grows old, even when calls
\* overlap a removal (firmwareStore.py:544-637).
THEOREM StoreTypes == Spec => []TypeOK
<1>1. Always => TypeOK BY TypesInParts DEF Always
<1> QED BY <1>1, AlwaysInvariant, PTL

\* From its verification on, the download an installation works from stays on
\* the disk, whatever other calls do and however long the installation takes:
\* the lock keeps every clearing away (firmwareStore.py:131-137, 544-615).
THEOREM AlwaysVerified == Spec => []UsesVerified
<1>1. Always => UsesVerified BY DEF Always
<1> QED BY <1>1, AlwaysInvariant, PTL

\* Until two threads have raced for it, the image the helper boots from is
\* never half-written: the temporary file of one thread is complete when it
\* replaces the runtime (firmwareStore.py:521-539).
THEOREM BootsWhole == Spec => []RuntimeWhole
<1>1. Unraced /\ Always => RuntimeWhole
  BY DEF Unraced, Always, Disk, Whole, RuntimeWhole
<1> QED BY <1>1, UnracedInvariant, AlwaysInvariant, PTL

\* Until a thread has changed the packs while another built the image, the
\* image at rest is that of the installed packs, whatever calls have run side by
\* side, unless the last change ended before its rebuild did
\* (firmwareStore.py:508-541, 598-612, 633-637).
THEOREM BootsInstalled == Spec => []RuntimeMatches
<1>1. Unraced => RuntimeMatches
  BY DEF Unraced, Matching, Settled, RuntimeMatches, Quiet
<1> QED BY <1>1, UnracedInvariant, PTL

\* Whatever the deletions leave and whatever removals run beside it, a failed
\* installation has the former pack back in place when it builds the image
\* again (firmwareStore.py:600-611).
THEOREM FailureRollsBack == Spec => []RollsBack
<1>1. Always => RollsBack
  BY DEF Always, Disk, Saved, At, RollsBack, RebuildPc
<1> QED BY <1>1, AlwaysInvariant, PTL

\* No installation, failure, end of NVDA or removal of other packs costs the
\* user a whole pack he has not asked to remove (firmwareStore.py:598-612,
\* 633-637).
THEOREM NoPackLost == Spec => []PackSurvives
<1>1. Always => PackSurvives BY DEF Always
<1> QED BY <1>1, AlwaysInvariant, PTL

\* What a step may do to a verified download.
Retains ==
  \A p \in Pack :
    zip[p] = "good" /\ zip'[p] # "good"
      => \/ <<"zip", p>> \in expired
         \/ p = target /\ (live[p] = installs \/ doomed)

\* No step deletes a verified download whose pack is not yet in place.
LEMMA RetainsStep ==
  ASSUME Control, Disk, UsesVerified, Saved, [Next]_vars
  PROVE  Retains
<1> USE ThreadFacts DEF diskVars, fetchVars, litterVars, boundVars, threadVars,
       removeVars, historyVars, Step, Goto,
       Retains, Saved, Keeping, At, Control, Disk, UsesVerified
<1>1. CASE UNCHANGED vars
  BY <1>1 DEF vars
<1>2. CASE CleanupAtStart
  BY <1>2 DEF CleanupAtStart, ClearStale, Stale
<1>3. CASE Expire
  BY <1>3 DEF Expire
<1>4. CASE Crash
  BY <1>4 DEF Crash
<1>5. ASSUME NEW p \in Pack, BeginInstall(p) PROVE Retains
  BY <1>5 DEF BeginInstall, ClearStale, Stale
<1>6. CASE MakeWork
  BY <1>6 DEF MakeWork
<1>7. CASE CheckCache
  BY <1>7 DEF CheckCache
<1>8. CASE Fetch
  BY <1>8 DEF Fetch
<1>9. CASE RenamePart
  BY <1>9 DEF RenamePart
<1>10. CASE VerifyDownload
  BY <1>10 DEF VerifyDownload
<1>11. CASE Prepare
  BY <1>11 DEF Prepare
<1>12. CASE DropOld
  BY <1>12 DEF DropOld
<1>13. CASE StashTarget
  BY <1>13 DEF StashTarget
<1>14. CASE PlaceCandidate
  BY <1>14 DEF PlaceCandidate
<1>15. CASE UndoPlace
  BY <1>15 DEF UndoPlace
<1>16. CASE RestoreOld
  BY <1>16 DEF RestoreOld
<1>17. CASE ReplaceFails
  BY <1>17 DEF ReplaceFails
<1>18. CASE RestoreFails
  BY <1>18 DEF RestoreFails
<1>19. CASE KeepNew
  BY <1>19 DEF KeepNew
<1>20. CASE DiscardDownload
  BY <1>20 DEF DiscardDownload
<1>21. CASE TidyWork
  BY <1>21 DEF TidyWork
<1>22. CASE EndInstall
  BY <1>22 DEF EndInstall
<1>23. ASSUME NEW t \in Thread, BeginRebuild(t) PROVE Retains
  BY <1>23 DEF BeginRebuild, Failed
<1>24. ASSUME NEW t \in Thread, MergePacks(t) PROVE Retains
  BY <1>24 DEF MergePacks
<1>25. ASSUME NEW t \in Thread, OpenTemporary(t) PROVE Retains
  BY <1>25 DEF OpenTemporary
<1>26. ASSUME NEW t \in Thread, WriteTemporary(t) PROVE Retains
  BY <1>26 DEF WriteTemporary
<1>27. ASSUME NEW t \in Thread, SwapRuntime(t) PROVE Retains
  BY <1>27 DEF SwapRuntime
<1>28. ASSUME NEW t \in Thread, DropMerged(t) PROVE Retains
  BY <1>28 DEF DropMerged, Failed
<1>29. ASSUME NEW t \in Remover, UnlinkPack(t) PROVE Retains
  BY <1>29 DEF UnlinkPack
<1>30. ASSUME NEW t \in Remover, RemoveTree(t) PROVE Retains
  BY <1>30 DEF RemoveTree
<1>31. ASSUME NEW t \in Remover, EndRemove(t) PROVE Retains
  BY <1>31 DEF EndRemove
<1>32. ASSUME NEW t \in Remover, NEW packs \in SUBSET Pack, BeginRemove(t, packs)
        PROVE  Retains
  BY <1>32 DEF BeginRemove
<1> QED BY <1>1, <1>2, <1>3, <1>4, <1>5, <1>6, <1>7, <1>8, <1>9, <1>10, <1>11,
   <1>12, <1>13, <1>14, <1>15, <1>16, <1>17, <1>18, <1>19, <1>20, <1>21, <1>22,
   <1>23, <1>24, <1>25, <1>26, <1>27, <1>28, <1>29, <1>30, <1>31, <1>32
  DEF Next, InstallStep, RebuildStep, RemoveStep

\* A verified download is deleted only once its pack is in place, or when it
\* has expired, whatever removals run meanwhile (firmwareStore.py:555-569,
\* 613-620).
THEOREM DownloadKept == Spec => RetainsDownload
<1>1. Always /\ [Next]_vars => [Retains]_vars
  BY RetainsStep DEF Always
<1>2. RetainsDownload <=> [][Retains]_vars BY DEF RetainsDownload, Retains
<1> QED BY <1>1, <1>2, AlwaysInvariant, PTL DEF Spec
==============================================================================
