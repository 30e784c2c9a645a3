---------------------------- MODULE FirmwareStore ----------------------------
(***************************************************************************)
(* The on-disk store of firmware packs (_samsungTVVoices/firmwareStore.py):*)
(* installing a pack under _installLock, removing packs without it,        *)
(* rebuilding the merged runtime image, clearing what interrupted          *)
(* installations leave behind, and NVDA ending at any point in between.    *)
(* A step is one operation on the file system.  The manager disables its   *)
(* buttons for the time of a removal (globalPlugins/samsungTVVoices.py:373)*)
(* but its timer enables them again within 250 ms (336): an installation   *)
(* or another removal may begin while a removal is running.                *)
(***************************************************************************)
EXTENDS Naturals, FiniteSets

CONSTANTS
  Pack,            \* the packs Samsung offers
  Remover,         \* the removal threads that may run at one time
  MaxInstalls,     \* bound: installations started
  MaxExpired,      \* bound: files that are 24 hours old at one time
  MaxCrashes       \* bound: times NVDA ends while a thread is at work

ASSUME StoreAssumption ==
  /\ MaxInstalls \in Nat /\ MaxExpired \in Nat /\ MaxCrashes \in Nat
  /\ "installer" \notin Remover

Thread == {"installer"} \cup Remover

\* What a pack's directory holds: nothing, the files of one installation
\* (with pack.json), files without pack.json, or pack.json with files missing.
Absent == 0
Version == 1..MaxInstalls
Debris == MaxInstalls + 1
Gutted == MaxInstalls + 2
Content == {Absent, Debris, Gutted} \cup Version

\* What an image holds: for each pack the installation it was built from.
Image == [Pack -> Version \cup {Absent, Gutted}]
\* An image of no packs is never kept: no file stands for it.
NoFile == [p \in Pack |-> Absent]
Torn == [p \in Pack |-> Debris]

VARIABLES
  live, old,           \* packs/<id> and packs/<id>.old
  runtime, temporary,  \* the image and the file it is written to first
  mixed,               \* two threads have had "temporary" open at once
  zip, part,           \* the firmware download, and its partial file
  abandoned, expired,  \* what ended threads left; what of it is 24 hours old
  locked,              \* _installLock is held
  pc,                  \* where each thread is
  return,              \* where rebuildRuntime returns to
  image,               \* the packs copied to the merged directory
  target,              \* the pack being installed
  victims, victim,     \* the packs a removal has still to come to, and the
                       \* one, if any, that it is deleting
  installs, crashes,   \* counters for the bounds
  before, doomed,      \* history: the target when the installation began, and
                       \* whether a removal then under way had yet to delete it
  owned,               \* history: packs the user has (see PackSurvives)
  failed,              \* history: the image was not rebuilt after a change, or
                       \* NVDA has ended in the middle of a call
  raced                \* history: while a thread built the image, another began
                       \* to build it too or changed the packs

diskVars   == <<live, old, runtime, temporary, mixed>>
fetchVars  == <<zip, part>>
litterVars == <<abandoned, expired>>
boundVars  == <<installs, crashes>>
removeVars == <<victims, victim>>
threadVars == <<locked, pc, return, image, target, removeVars>>
historyVars == <<before, doomed, owned, failed, raced>>
vars == <<diskVars, fetchVars, litterVars, boundVars, threadVars, historyVars>>

Installed(p) == live[p] \in Version \cup {Gutted}
InstalledPacks == {p \in Pack : Installed(p)}
ImageOfPacks == [p \in Pack |-> IF Installed(p) THEN live[p] ELSE Absent]

Init ==
  /\ live = [p \in Pack |-> Absent] /\ old = [p \in Pack |-> Absent]
  /\ runtime = NoFile /\ temporary = NoFile /\ mixed = FALSE
  /\ zip = [p \in Pack |-> "none"] /\ part = [p \in Pack |-> "none"]
  /\ abandoned = {} /\ expired = {}
  /\ locked = FALSE
  /\ pc = [t \in Thread |-> "idle"] /\ return = [t \in Thread |-> "idle"]
  /\ image = [t \in Thread |-> NoFile]
  /\ target \in Pack
  /\ victims = [t \in Remover |-> {}] /\ victim = [t \in Remover |-> {}]
  /\ installs = 0 /\ crashes = 0
  /\ before = Absent /\ doomed = FALSE /\ owned = {} /\ failed = FALSE
  /\ raced = FALSE

InstallPc == {"idle", "work", "cache", "fetch", "rename", "verify", "prepare",
              "dropOld", "stash", "place", "undo", "restore", "keep", "tidy",
              "discard", "unlock"}
RebuildPc == {"rebuild", "merge", "open", "write", "swap", "unmerge", "giveUp"}
RemovePc == {"idle", "unlink", "rmtree"}
\* The merged directory exists.
Merged == {"open", "write", "swap", "unmerge", "giveUp"}
\* The image is being built: the packs are copied, or are about to be.
Building == {"merge", "open", "write", "swap"}
\* The installation's work directory exists.
Working == (InstallPc \cup RebuildPc) \ {"idle", "work", "discard", "unlock"}

Goto(t, from, to) == pc[t] = from /\ pc' = [pc EXCEPT ![t] = to]
Step(from, to) == Goto("installer", from, to)

\* What shutil.rmtree(ignore_errors=True) leaves of a directory: nothing, or
\* what it could not delete, as a file that another program has open.
Left(content) ==
  {Absent, content}
    \cup (IF content = Absent THEN {} ELSE {Debris})
    \cup (IF content \in Version THEN {Gutted} ELSE {})

\* A thread changes the packs, or begins to build the image.
Interferes(t) ==
  raced' = (raced \/ \E s \in Thread \ {t} : pc[s] \in Building)

------------------------------------------------------------------------------
(* Clearing stale files. *)

\* The directories firmware-*, and the downloads and partial downloads, that
\* are older than the cutoff.
Stale == {f \in expired : f[1] \in {"work", "zip", "part"}}

ClearStale ==
  /\ zip' = [p \in Pack |-> IF <<"zip", p>> \in Stale THEN "none" ELSE zip[p]]
  /\ part' = [p \in Pack |-> IF <<"part", p>> \in Stale THEN "none" ELSE part[p]]
  /\ abandoned' = abandoned \ Stale
  /\ expired' = expired \ Stale

\* Mutant of CleanupAtStart: the lock is not tried.
CleanupUnlocked ==
  /\ ClearStale
  /\ UNCHANGED <<diskVars, boundVars, threadVars, historyVars>>

\* At start-up of the add-on, when no installation holds the lock.
CleanupAtStart ==
  /\ ~locked
  /\ ClearStale
  /\ UNCHANGED <<diskVars, boundVars, threadVars, historyVars>>

\* Time passes: an abandoned file, or a download nobody has touched, becomes
\* 24 hours old.  A directory in use may do so too.
Lying ==
  abandoned \cup {<<"zip", p>> : p \in {q \in Pack : zip[q] # "none"}}
            \cup {<<"part", p>> : p \in {q \in Pack : part[q] # "none"}}

Expire ==
  /\ Cardinality(expired) < MaxExpired
  /\ \E f \in Lying \ expired : expired' = expired \cup {f}
  /\ UNCHANGED <<diskVars, fetchVars, abandoned, boundVars, threadVars,
                 historyVars>>

------------------------------------------------------------------------------
(* Installing. *)

\* installPack: the lock is tried, stale files are cleared.
BeginInstall(p) ==
  /\ Step("idle", "work")
  /\ ~locked /\ locked' = TRUE
  /\ ClearStale
  /\ installs < MaxInstalls /\ installs' = installs + 1
  /\ target' = p /\ before' = live[p]
  /\ doomed' = \E t \in Remover : p \in victims[t] \cup victim[t]
  /\ owned' = IF live[p] \in Version THEN owned ELSE owned \ {p}
  /\ UNCHANGED <<diskVars, crashes, return, image, removeVars, failed, raced>>

\* mkdtemp, after the checks of the pack and of the free space.
MakeWork ==
  /\ \/ Step("work", "cache")
     \/ Step("work", "unlock")
  /\ UNCHANGED <<diskVars, fetchVars, litterVars, boundVars, locked, return,
                 image, target, removeVars, historyVars>>

\* A verified download is used again; any other is deleted.
CheckCache ==
  /\ pc["installer"] = "cache"
  /\ IF zip[target] = "good"
     THEN Step("cache", "prepare") /\ UNCHANGED <<zip, expired>>
     ELSE /\ Step("cache", "fetch")
          /\ zip' = [zip EXCEPT ![target] = "none"]
          /\ expired' = expired \ {<<"zip", target>>}
  /\ UNCHANGED <<diskVars, part, abandoned, boundVars, locked, return, image,
                 target, removeVars, historyVars>>

\* _download: what arrives is appended to the partial file, or replaces it.
\* It ends complete, damaged, or with an exception that leaves it behind.
Fetch ==
  /\ \/ /\ Step("fetch", "rename")
        /\ \E b \in {"good", "bad"} : part' = [part EXCEPT ![target] = b]
        /\ expired' = expired \ {<<"part", target>>}
     \/ /\ Step("fetch", "tidy")
        /\ \E b \in {part[target], "bad"} : part' = [part EXCEPT ![target] = b]
        /\ expired' = IF part'[target] = "none" THEN expired
                                       ELSE expired \ {<<"part", target>>}
  /\ UNCHANGED <<diskVars, zip, abandoned, boundVars, locked, return, image,
                 target, removeVars, historyVars>>

RenamePart ==
  /\ Step("rename", "verify")
  /\ zip' = [zip EXCEPT ![target] = part[target]]
  /\ part' = [part EXCEPT ![target] = "none"]
  /\ expired' = expired \ {<<"part", target>>, <<"zip", target>>}
  /\ UNCHANGED <<diskVars, abandoned, boundVars, locked, return, image, target,
                 removeVars, historyVars>>

\* A download with another digest than Samsung's is deleted.
VerifyDownload ==
  /\ pc["installer"] = "verify"
  /\ IF zip[target] = "good"
     THEN Step("verify", "prepare") /\ UNCHANGED <<zip, expired>>
     ELSE /\ Step("verify", "tidy")
          /\ zip' = [zip EXCEPT ![target] = "none"]
          /\ expired' = expired \ {<<"zip", target>>}
  /\ UNCHANGED <<diskVars, part, abandoned, boundVars, locked, return, image,
                 target, removeVars, historyVars>>

\* Decryption, extraction and normalisation build the candidate in the work
\* directory, or fail.
Prepare ==
  /\ \/ Step("prepare", "dropOld")
     \/ Step("prepare", "tidy")
  /\ UNCHANGED <<diskVars, fetchVars, litterVars, boundVars, locked, return,
                 image, target, removeVars, historyVars>>

DropOld ==
  /\ Step("dropOld", "stash")
  /\ \E rest \in Left(old[target]) : old' = [old EXCEPT ![target] = rest]
  /\ UNCHANGED <<live, runtime, temporary, mixed, fetchVars, litterVars,
                 boundVars, locked, return, image, target, removeVars, historyVars>>

\* Mutant of StashTarget: the installed pack is deleted, not renamed.
StashByDeleting ==
  /\ Step("stash", "place")
  /\ UNCHANGED old
  /\ live' = [live EXCEPT ![target] = Absent] /\ Interferes("installer")
  /\ UNCHANGED <<runtime, temporary, mixed, fetchVars, litterVars, boundVars,
                 locked, return, image, target, removeVars, before, doomed, owned,
                 failed>>

\* A directory is never renamed onto another one.
StashTarget ==
  /\ Step("stash", "place")
  /\ IF live[target] = Absent
     THEN UNCHANGED <<live, old, raced>>
     ELSE /\ old[target] = Absent
          /\ old' = [old EXCEPT ![target] = live[target]]
          /\ live' = [live EXCEPT ![target] = Absent]
          /\ Interferes("installer")
  /\ UNCHANGED <<runtime, temporary, mixed, fetchVars, litterVars, boundVars,
                 locked, return, image, target, removeVars, before, doomed, owned,
                 failed>>

\* os.replace raises: a directory is in use, or packs/<id>.old could not be
\* deleted.  No failure is undone, so that of the second call leaves the pack
\* as packs/<id>.old.
ReplaceFails ==
  /\ \/ live[target] # Absent /\ Step("stash", "tidy") /\ UNCHANGED failed
     \/ Step("place", "tidy") /\ failed' = TRUE
  /\ UNCHANGED <<diskVars, fetchVars, litterVars, boundVars, locked, return,
                 image, target, removeVars, before, doomed, owned, raced>>

PlaceCandidate ==
  /\ Step("place", "rebuild")
  /\ live' = [live EXCEPT ![target] = installs] /\ Interferes("installer")
  /\ return' = [return EXCEPT !["installer"] = "keep"]
  /\ UNCHANGED <<old, runtime, temporary, mixed, fetchVars, litterVars,
                 boundVars, locked, image, target, removeVars, before, doomed,
                 owned, failed>>

\* The rebuild has failed: the new pack is deleted, as far as it can be, the
\* old one put back, and the image built again.
UndoPlace ==
  /\ Step("undo", "restore")
  /\ \E rest \in Left(live[target]) : live' = [live EXCEPT ![target] = rest]
  /\ Interferes("installer")
  /\ UNCHANGED <<old, runtime, temporary, mixed, fetchVars, litterVars,
                 boundVars, locked, return, image, target, removeVars, before,
                 doomed, owned, failed>>

\* Mutant of RestoreOld: the former pack is not put back.
RestoreNothing ==
  /\ Step("restore", "rebuild")
  /\ UNCHANGED live
  /\ old' = [old EXCEPT ![target] = Absent]
  /\ return' = [return EXCEPT !["installer"] = "tidy"]
  /\ UNCHANGED <<runtime, temporary, mixed, fetchVars, litterVars, boundVars,
                 locked, image, target, removeVars, historyVars>>

\* Where there is no packs/<id>.old, what is left of the new pack stays.
RestoreOld ==
  /\ Step("restore", "rebuild")
  /\ IF old[target] = Absent
     THEN UNCHANGED <<live, old, raced>>
     ELSE /\ live[target] = Absent
          /\ live' = [live EXCEPT ![target] = old[target]]
          /\ old' = [old EXCEPT ![target] = Absent]
          /\ Interferes("installer")
  /\ return' = [return EXCEPT !["installer"] = "tidy"]
  /\ UNCHANGED <<runtime, temporary, mixed, fetchVars, litterVars, boundVars,
                 locked, image, target, removeVars, before, doomed, owned, failed>>

\* The exception handler raises in its turn, before the image is rebuilt: as
\* when the new pack could not be deleted.
RestoreFails ==
  /\ old[target] # Absent
  /\ Step("restore", "tidy")
  /\ failed' = TRUE
  /\ UNCHANGED <<diskVars, fetchVars, litterVars, boundVars, locked, return,
                 image, target, removeVars, before, doomed, owned, raced>>

\* The installation is complete, and the user has the pack, unless a removal
\* has taken it in hand.
KeepNew ==
  /\ Step("keep", "discard")
  /\ \E rest \in Left(old[target]) : old' = [old EXCEPT ![target] = rest]
  /\ owned' = IF doomed THEN owned ELSE owned \cup {target}
  /\ UNCHANGED <<live, runtime, temporary, mixed, fetchVars, litterVars,
                 boundVars, locked, return, image, target, removeVars, before,
                 doomed, failed, raced>>

\* finally: the work directory goes; the download goes after success only.
DiscardDownload ==
  /\ Step("discard", "unlock")
  /\ zip' = [zip EXCEPT ![target] = "none"]
  /\ expired' = expired \ {<<"zip", target>>}
  /\ UNCHANGED <<diskVars, part, abandoned, boundVars, locked, return, image,
                 target, removeVars, historyVars>>

\* Mutant of TidyWork: a failure deletes the download too.
TidyDownload ==
  /\ Step("tidy", "unlock")
  /\ zip' = [zip EXCEPT ![target] = "none"]
  /\ expired' = expired \ {<<"zip", target>>}
  /\ UNCHANGED <<diskVars, part, abandoned, boundVars, locked, return,
                 image, target, removeVars, historyVars>>

TidyWork ==
  /\ Step("tidy", "unlock")
  /\ UNCHANGED <<diskVars, fetchVars, litterVars, boundVars, locked, return,
                 image, target, removeVars, historyVars>>

EndInstall ==
  /\ Step("unlock", "idle")
  /\ locked' = FALSE
  /\ return' = [return EXCEPT !["installer"] = "idle"]
  /\ before' = Absent /\ doomed' = FALSE
  /\ UNCHANGED <<diskVars, fetchVars, litterVars, boundVars, image, target,
                 removeVars, owned, failed, raced>>

InstallStep ==
  \/ MakeWork \/ CheckCache \/ Fetch \/ RenamePart \/ VerifyDownload \/ Prepare
  \/ DropOld \/ StashTarget \/ PlaceCandidate \/ UndoPlace \/ RestoreOld
  \/ ReplaceFails \/ RestoreFails
  \/ KeepNew \/ DiscardDownload \/ TidyWork \/ EndInstall

------------------------------------------------------------------------------
(* rebuildRuntime, run by either kind of thread. *)

\* Where an exception in rebuildRuntime leads: the first rebuild of an
\* installation is undone, the others end the call.
Failed(t) == IF return[t] = "keep" THEN "undo" ELSE return[t]

\* Without packs the image is deleted, which fails when it is open.
BeginRebuild(t) ==
  /\ pc[t] = "rebuild"
  /\ \/ /\ InstalledPacks = {}
        /\ Goto(t, "rebuild", return[t])
        /\ runtime' = NoFile /\ failed' = FALSE
     \/ /\ InstalledPacks = {} /\ runtime # NoFile
        /\ Goto(t, "rebuild", Failed(t))
        /\ failed' = TRUE /\ UNCHANGED runtime
     \/ /\ InstalledPacks # {}
        /\ Goto(t, "rebuild", "merge") /\ UNCHANGED <<runtime, failed>>
  /\ Interferes(t)
  /\ UNCHANGED <<live, old, temporary, mixed, fetchVars, litterVars, boundVars,
                 locked, return, image, target, removeVars, before, doomed, owned>>

\* The packs are copied together; the copy may fail, as when a pack is being
\* deleted under it.
MergePacks(t) ==
  /\ \/ Goto(t, "merge", "open") /\ image' = [image EXCEPT ![t] = ImageOfPacks]
     \/ Goto(t, "merge", "giveUp") /\ UNCHANGED image
  /\ UNCHANGED <<diskVars, fetchVars, litterVars, boundVars, locked, return,
                 target, removeVars, historyVars>>

\* Another thread has the temporary file open.
Shared(t) == \E s \in Thread \ {t} : pc[s] = "write"

\* Mutant of OpenTemporary: the image is written in place.
OpenRuntime(t) ==
  /\ Goto(t, "open", "write")
  /\ runtime' = Torn /\ temporary' = Torn
  /\ mixed' = Shared(t)
  /\ UNCHANGED <<live, old, fetchVars, litterVars, boundVars, locked,
                 return, image, target, removeVars, historyVars>>

OpenTemporary(t) ==
  /\ Goto(t, "open", "write")
  /\ temporary' = Torn
  /\ mixed' = Shared(t)
  /\ UNCHANGED <<live, old, runtime, fetchVars, litterVars, boundVars, locked,
                 return, image, target, removeVars, historyVars>>

\* The file is complete and closed, or the writing fails.
WriteTemporary(t) ==
  /\ \/ /\ Goto(t, "write", "swap")
        /\ temporary' = IF mixed \/ Shared(t) THEN Torn ELSE image[t]
     \/ Goto(t, "write", "giveUp") /\ UNCHANGED temporary
  /\ mixed' = Shared(t)
  /\ UNCHANGED <<live, old, runtime, fetchVars, litterVars, boundVars,
                 locked, return, image, target, removeVars, historyVars>>

\* os.replace.  It fails when the file is gone or, on Windows, open.
SwapRuntime(t) ==
  /\ \/ Goto(t, "swap", "giveUp") /\ UNCHANGED <<runtime, temporary, failed>>
     \/ /\ temporary # NoFile /\ ~Shared(t)
        /\ Goto(t, "swap", "unmerge")
        /\ runtime' = temporary /\ temporary' = NoFile /\ failed' = FALSE
  /\ UNCHANGED <<live, old, mixed, fetchVars, litterVars, boundVars, locked,
                 return, image, target, removeVars, before, doomed, owned, raced>>

\* finally: the merged directory goes, with or without an exception.
DropMerged(t) ==
  /\ \/ Goto(t, "unmerge", return[t]) /\ UNCHANGED failed
     \/ Goto(t, "giveUp", Failed(t)) /\ failed' = TRUE
  /\ image' = [image EXCEPT ![t] = NoFile]
  /\ UNCHANGED <<diskVars, fetchVars, litterVars, boundVars, locked, return,
                 target, removeVars, before, doomed, owned, raced>>

RebuildStep(t) ==
  \/ BeginRebuild(t) \/ MergePacks(t) \/ OpenTemporary(t)
  \/ WriteTemporary(t) \/ SwapRuntime(t) \/ DropMerged(t)

------------------------------------------------------------------------------
(* Removing. *)

\* removePacks.  The manager offers it while no download is running.
BeginRemove(t, packs) ==
  /\ Goto(t, "idle", "unlink")
  /\ pc["installer"] = "idle"
  /\ packs \subseteq InstalledPacks /\ packs # {}
  /\ victims' = [victims EXCEPT ![t] = packs]
  /\ owned' = owned \ packs
  /\ UNCHANGED <<diskVars, fetchVars, litterVars, boundVars, locked, return,
                 image, target, victim, before, doomed, failed, raced>>

\* rmtree comes to pack.json before it comes to the directory runtime.  It
\* leaves what it cannot delete.
UnlinkPack(t) ==
  /\ Goto(t, "unlink", "rmtree")
  /\ \E p \in victims[t] :
       /\ victims' = [victims EXCEPT ![t] = @ \ {p}]
       /\ victim' = [victim EXCEPT ![t] = {p}]
       /\ \E rest \in IF live[p] = Absent THEN {Absent} ELSE {Debris, live[p]} :
            live' = [live EXCEPT ![p] = rest]
  /\ Interferes(t)
  /\ UNCHANGED <<old, runtime, temporary, mixed, fetchVars, litterVars,
                 boundVars, locked, return, image, target, before, doomed, owned,
                 failed>>

\* A pack whose pack.json is there, not deleted or put in place meanwhile, may
\* lose its files.
RemoveTree(t) ==
  /\ Goto(t, "rmtree", "unlink")
  /\ \E p \in victim[t] :
       \E rest \in {live[p], IF Installed(p) THEN Gutted ELSE Absent} :
         live' = [live EXCEPT ![p] = rest]
  /\ victim' = [victim EXCEPT ![t] = {}]
  /\ Interferes(t)
  /\ UNCHANGED <<old, runtime, temporary, mixed, fetchVars, litterVars,
                 boundVars, locked, return, image, target, victims, before,
                 doomed, owned, failed>>

\* Mutant of EndRemove: the image is not rebuilt.
EndRemoveAtOnce(t) ==
  /\ victims[t] = {}
  /\ Goto(t, "unlink", "idle")
  /\ return' = [return EXCEPT ![t] = "idle"]
  /\ UNCHANGED <<diskVars, fetchVars, litterVars, boundVars, locked, image,
                 target, removeVars, historyVars>>

EndRemove(t) ==
  /\ victims[t] = {}
  /\ Goto(t, "unlink", "rebuild")
  /\ return' = [return EXCEPT ![t] = "idle"]
  /\ UNCHANGED <<diskVars, fetchVars, litterVars, boundVars, locked, image,
                 target, removeVars, historyVars>>

RemoveStep(t) == UnlinkPack(t) \/ RemoveTree(t) \/ EndRemove(t)

------------------------------------------------------------------------------
(* NVDA ends: threads and lock vanish, what they had on disk stays. *)

LeftBehind ==
  (IF pc["installer"] \in Working THEN {<<"work", target>>} ELSE {})
    \cup {<<"merged", target>> : t \in {s \in Thread : pc[s] \in Merged}}

Crash ==
  /\ crashes < MaxCrashes /\ crashes' = crashes + 1
  /\ \E t \in Thread : pc[t] # "idle"
  /\ abandoned' = abandoned \cup LeftBehind
  /\ expired' = expired \ LeftBehind
  /\ locked' = FALSE
  /\ pc' = [t \in Thread |-> "idle"]
  /\ return' = [t \in Thread |-> "idle"]
  /\ image' = [t \in Thread |-> NoFile]
  /\ victims' = [t \in Remover |-> {}] /\ victim' = [t \in Remover |-> {}]
  /\ before' = Absent /\ doomed' = FALSE
  /\ mixed' = FALSE /\ failed' = TRUE
  /\ UNCHANGED <<live, old, runtime, temporary, fetchVars, installs, target,
                 owned, raced>>

Next ==
  \/ CleanupAtStart \/ Expire \/ Crash
  \/ \E p \in Pack : BeginInstall(p)
  \/ InstallStep
  \/ \E t \in Thread : RebuildStep(t)
  \/ \E t \in Remover :
       RemoveStep(t) \/ \E packs \in SUBSET Pack : BeginRemove(t, packs)

Spec == Init /\ [][Next]_vars

------------------------------------------------------------------------------
(* Properties. *)

TypeOK ==
  /\ live \in [Pack -> Content] /\ old \in [Pack -> Content]
  /\ runtime \in {Torn} \cup Image
  /\ temporary \in {Torn} \cup Image
  /\ mixed \in BOOLEAN /\ locked \in BOOLEAN /\ failed \in BOOLEAN
  /\ doomed \in BOOLEAN /\ raced \in BOOLEAN /\ before \in Content
  /\ zip \in [Pack -> {"none", "good", "bad"}]
  /\ part \in [Pack -> {"none", "good", "bad"}]
  /\ expired \subseteq Lying
  /\ pc \in [Thread -> InstallPc \cup RebuildPc \cup RemovePc]
  /\ locked <=> pc["installer"] # "idle"
  /\ image \in [Thread -> Image] /\ target \in Pack
  /\ victims \in [Remover -> SUBSET Pack] /\ victim \in [Remover -> SUBSET Pack]
  /\ owned \subseteq Pack

\* The image the helper boots from is never a half-written one, at whatever
\* point NVDA ends (firmwareStore.py:521-539), until two threads have built it
\* at once.
RuntimeWhole == raced \/ runtime # Torn

\* When no thread is at work, the image holds exactly the installed packs,
\* unless the last call ended, by a failure or with NVDA, after changing the
\* packs and before the rebuild was through (firmwareStore.py:508-541, 598-612,
\* 633-637), and until one thread has changed the packs while another built
\* the image.
Quiet == \A t \in Thread : pc[t] = "idle"
RuntimeMatches ==
  Quiet /\ ~failed /\ ~raced => runtime = ImageOfPacks

\* No single call costs the user a pack he has not asked to remove: one that
\* is whole when an installation of it begins stays on the disk, as itself, as
\* its former version or as the candidate about to replace it, whatever fails,
\* whenever NVDA ends and whatever removals of other packs run beside it
\* (firmwareStore.py:598-612, 633-637).  A call that finds only packs/<id>.old
\* deletes it first.
Candidate ==
  IF pc["installer"] \in {"dropOld", "stash", "place"} THEN {target} ELSE {}
PackSurvives ==
  \A p \in owned : live[p] \in Version \/ old[p] \in Version \/ p \in Candidate

\* An installation whose image cannot be built has the former pack back in
\* place before it builds the image again, although neither of the deletions
\* on the way is sure to be complete (firmwareStore.py:600-611).  Only a pack
\* that a removal is deleting may be found otherwise.
RollsBack ==
  /\ pc["installer"] = "rebuild" /\ return["installer"] = "tidy"
  /\ before # Absent /\ ~doomed
  => live[target] = before

\* From its verification on, the download an installation works from is not
\* deleted under it, not even by the clearing of stale files
\* (firmwareStore.py:131-137, 563-615).
UsesVerified ==
  pc["installer"] \in {"prepare", "dropOld", "stash", "place", "undo", "restore",
                      "keep", "discard"} \cup RebuildPc
    => zip[target] = "good"

\* A verified download is deleted only once its pack is in place or when it
\* has expired: a failed or interrupted installation never costs it
\* (firmwareStore.py:555-569, 613-620).  The pack is still there unless a
\* removal that was under way has deleted it.
RetainsDownload ==
  [][ \A p \in Pack :
        zip[p] = "good" /\ zip'[p] # "good"
          => \/ <<"zip", p>> \in expired
             \/ p = target /\ (live[p] = installs \/ doomed) ]_vars

\* The manual says that what interrupted installations leave is removed
\* automatically after 24 hours (addon/doc/en/readme.html:18).  This fails:
\* the directory in which the packs are merged has another prefix than the
\* clearing looks for (firmwareStore.py:108, 517).
CleanupIsComplete == [][CleanupAtStart => expired' = {}]_vars
==============================================================================
