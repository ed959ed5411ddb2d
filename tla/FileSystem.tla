------------------------------ MODULE FileSystem ------------------------------
(***************************************************************************)
(* The facade of base/fs.cpp over one directory and one archive in it.  A  *)
(* path below the archive's prefix may name a plain file, a file in the    *)
(* archive, or both: preferArchives() says which is looked for first.      *)
(* Storing needs no existing file, so the first place that could hold one  *)
(* takes it; loading, removing and asking need a plain file to exist, and  *)
(* of an archive only that it is open.                                     *)
(*                                                                         *)
(* Archive is the archive itself.  A path and the id inside the archive    *)
(* are the same name here.                                                 *)
(***************************************************************************)
EXTENDS Archive

VARIABLES
  plain,     \* per path: the plain file there, or Nothing
  preferVFS  \* archives are looked for first

fsVars == <<vars, plain, preferVFS>>

FsInit ==
  /\ Init
  /\ plain = [path \in Ids |-> Nothing]
  /\ preferVFS = FALSE

-----------------------------------------------------------------------------
(* _resolveLocation: an archive serves the path if it is open, whatever is *)
(* in it.                                                                  *)
resolveLocation(path, mustExist) ==
  LET normal   == mustExist => plain[path] # Nothing
      archived == state = "open"
  IN  IF archived /\ (preferVFS \/ ~normal) THEN "archive"
      ELSE IF normal THEN "plain" ELSE "nowhere"

exists(path) ==
  LET place == resolveLocation(path, TRUE)
  IN  \/ place = "plain"
      \/ place = "archive" /\ vfs_exists(vfs, path)

(* What load() returns, of a path that exists. *)
load(path) ==
  IF resolveLocation(path, TRUE) = "archive" THEN vfs_read(vfs, path)
  ELSE Plain(plain[path].version, plain[path].size)

-----------------------------------------------------------------------------
\* Mutant: new files are plain files, whatever is preferred.
StorePlainFirst(path, k, compress) ==
  /\ stores < MaxStores
  /\ stores' = stores + 1
  /\ plain' = [plain EXCEPT ![path] = [version |-> stores + 1, size |-> k]]
  /\ UNCHANGED <<state, vfs, inBuffer, stored, spoilt, preferVFS>>

(* store().  The directory of a plain file is made if it is not there.     *)
StoreFile(path, k, compress) ==
  \/ /\ resolveLocation(path, FALSE) = "archive"
     /\ store(path, k, compress)
     /\ UNCHANGED <<plain, preferVFS>>
  \/ /\ resolveLocation(path, FALSE) = "plain"
     /\ ~compress   \* ignored
     /\ stores < MaxStores
     /\ stores' = stores + 1
     /\ plain' = [plain EXCEPT ![path] = [version |-> stores + 1, size |-> k]]
     /\ UNCHANGED <<state, vfs, inBuffer, stored, spoilt, preferVFS>>

RemoveFile(path) ==
  \/ /\ resolveLocation(path, TRUE) = "archive"
     /\ remove(path)
     /\ UNCHANGED <<plain, preferVFS>>
  \/ /\ resolveLocation(path, TRUE) = "plain"
     /\ plain' = [plain EXCEPT ![path] = Nothing]
     /\ UNCHANGED <<vars, preferVFS>>

(* remove() of the archive's own file, which is a plain file: its index    *)
(* goes too.                                                               *)
RemoveArchive ==
  /\ state # "absent"
  /\ state' = "absent"
  /\ vfs' = [files |-> <<>>, indexOffset |-> 1, dirty |-> FALSE,
             removeQueue |-> <<>>, units |-> <<>>, header |-> 0]
  /\ inBuffer' = FALSE
  /\ stored' = [id \in Ids |-> Nothing]
  /\ UNCHANGED <<stores, spoilt, plain, preferVFS>>

preferArchives ==
  /\ preferVFS' = ~preferVFS
  /\ UNCHANGED <<vars, plain>>

ArchiveStep ==
  /\ createArchive \/ flush \/ close \/ trap \/ initArchive
  /\ UNCHANGED <<plain, preferVFS>>

FsNext ==
  \/ ArchiveStep \/ RemoveArchive \/ preferArchives
  \/ \E path \in Ids :
       \/ RemoveFile(path)
       \/ \E k \in Sizes, compress \in BOOLEAN : StoreFile(path, k, compress)

FsSpec == FsInit /\ [][FsNext]_fsVars

-----------------------------------------------------------------------------
(***************************************************************************)
(* Properties.                                                             *)
(***************************************************************************)

(* What a program sees of a path. *)
Seen(path) ==
  LET found == exists(path)
  IN  <<found, IF found THEN load(path) ELSE <<>> >>

(* The place where path was last stored, of those where it still is, and    *)
(* what was stored there.                                                  *)
LatestPlace(path) ==
  IF plain[path].version > stored[path].version THEN "plain" ELSE "archive"
Latest(path) ==
  IF LatestPlace(path) = "plain" THEN plain[path] ELSE stored[path]

(* A load sees the latest store of a path that nobody has removed, however *)
(* the preference and the archives that are open were changed in between,  *)
(* once a store would go to the same place again.                          *)
LatestIsSeen ==
  \A path \in Ids :
    /\ Latest(path) # Nothing
    /\ resolveLocation(path, FALSE) = LatestPlace(path)
    => Seen(path) = <<TRUE, Plain(Latest(path).version, Latest(path).size)>>

(* What store() leaves behind: a load of the path that was stored gives    *)
(* what was stored, only what an archive cannot take (nothing,             *)
(* uncompressed) is lost, with the file it was to replace; and no other    *)
(* path reads differently, although the archive may have moved it.  The    *)
(* other calls keep the latest stores visible.                             *)
StoreIsSeen ==
  [][~spoilt' =>
       IF stores' = stores THEN LatestIsSeen'
       ELSE \A path \in Ids, k \in Sizes, compress \in BOOLEAN :
              StoreFile(path, k, compress) =>
                /\ IF /\ resolveLocation(path, FALSE) = "archive"
                      /\ k = 0 /\ ~compress
                   THEN ~exists(path)'
                   ELSE Seen(path)' = <<TRUE, Plain(stores', k)>>
                /\ \A other \in Ids \ {path} :
                     Seen(other)' = Seen(other)]_fsVars

(* A program may end between two calls without flush() or close().  As     *)
(* long as the archive is not marked dirty the next program finds every    *)
(* file that was stored: the index is in the file, or nothing has been     *)
(* stored yet and the file is empty (it does not open then).  Storing      *)
(* overwrites the index, so a dirty archive does not open again either.    *)
CleanIsDurable ==
  /\ state = "open" /\ ~vfs.dirty
  /\ ~spoilt /\ vfs.indexOffset < HeaderBase
  => IF inBuffer THEN \A id \in Ids : stored[id] = Nothing
     ELSE /\ vfs.header \in DOMAIN vfs.units
          /\ IndexOnDisk[1] = "index"
          /\ Loads([vfs EXCEPT !.files = IndexOnDisk[3]])
=============================================================================
