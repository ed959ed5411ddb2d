------------------------------- MODULE Archive -------------------------------
(***************************************************************************)
(* A .gfs archive of base/fs.cpp: a file that holds a header, the data of  *)
(* the files stored in it, and an index.  While the archive is open its    *)
(* index is in memory, removed files leave holes that a removeQueue        *)
(* remembers, and new data is written where the index on disk was.         *)
(* flush() and close() collapse the holes and write the index back.        *)
(*                                                                         *)
(* Data is counted in units.  Offset 0 is the header and units[p] is the   *)
(* unit at offset p; an index takes one unit.  The n-th store writes units *)
(* that name it.  Compression is what it does to the layout: a unit for    *)
(* the real size and one for the compressed data, whatever their length.   *)
(*                                                                         *)
(* Every call but one leaves in the file what it wrote: it goes through    *)
(* fseek or fclose, which empty the buffer of stdio.  The one is           *)
(* createArchive, and inBuffer says that its bytes are still there.  The   *)
(* units are what a read through the open archive gives, buffer included.  *)
(***************************************************************************)
EXTENDS Integers, Sequences, SequencesExt, FiniteSetsExt

CONSTANTS
  Ids,          \* file names inside the archive
  Sizes,        \* the lengths of what is stored
  DefragLimit,  \* 100 MB in the source
  HeaderBase,   \* 2^32 in the source: what fits in the part of the header rewritten
  MaxStores     \* bound: calls of store()

ASSUME SizesAssumption == Sizes \subseteq Nat
ASSUME LimitAssumption == DefragLimit \in Nat /\ MaxStores \in Nat
ASSUME BaseAssumption  == HeaderBase \in Nat \ {0}

VARIABLES
  state,    \* "absent", "open", "closed", or "trapped" in close() or flush()
  vfs,      \* the archive: its file, and its struct vfs while it is open
  inBuffer, \* header and index wait in the stdio buffer, the file is empty
  stores,   \* how many times store() was called
  stored,   \* history, per id: what was last stored under it, not removed since
  spoilt    \* history: a defragmentation has met holes that are not adjacent

vars == <<state, vfs, inBuffer, stores, stored, spoilt>>

Nothing == [version |-> 0, size |-> 0]

Init ==
  /\ state = "absent"
  /\ vfs = [files |-> <<>>, indexOffset |-> 1, dirty |-> FALSE,
            removeQueue |-> <<>>, units |-> <<>>, header |-> 0]
  /\ inBuffer = FALSE
  /\ stores = 0
  /\ stored = [id \in Ids |-> Nothing]
  /\ spoilt = FALSE

-----------------------------------------------------------------------------
(* What fwrite puts into the file, and what load() makes of it.            *)

Plain(n, k)  == [i \in 1 .. k |-> <<"plain", n, i>>]
Packed(n, k) == << <<"size", n, k>>, <<"lz4", n, k>> >>
IndexUnit(files) == <<"index", 0, files>>

find_file(v, id) == SelectInSeq(v.files, LAMBDA f : f.id = id)

vfs_exists(v, id) == find_file(v, id) # 0

(* vfs_read(): a short read, and data that do not decompress to the size   *)
(* in front of them, give an empty stream.                                 *)
vfs_read(v, id) ==
  LET f   == v.files[find_file(v, id)]
      raw == SubSeq(v.units, f.position, f.position + f.size - 1)
  IN  IF \E p \in f.position .. f.position + f.size - 1 : p \notin DOMAIN v.units
      THEN <<>>
      ELSE IF f.flags = 0 THEN raw
      ELSE IF raw[1][1] = "size" /\ raw[2][1] = "lz4" /\ raw[1][3] = raw[2][3]
           THEN Plain(raw[2][2], raw[2][3]) ELSE <<>>

-----------------------------------------------------------------------------
(* _vfs_defragment: sort the holes, join the adjacent ones, and for each   *)
(* move what lies between it and the next one (or the end of the file)     *)
(* back by the size of the hole.                                           *)

Inserted(seq, h) ==
  LET behind == {i \in DOMAIN seq : seq[i].position > h.position}
  IN  InsertAt(seq, IF behind = {} THEN Len(seq) + 1 ELSE Min(behind), h)

Sorted(queue) == FoldLeft(Inserted, <<>>, queue)

Joined(seq, h) ==
  IF seq # <<>> /\ Last(seq).position + Last(seq).size = h.position
  THEN [seq EXCEPT ![Len(seq)].size = @ + h.size]
  ELSE Append(seq, h)

Merge(queue) == IF Len(queue) <= 1 THEN queue
                ELSE FoldLeft(Joined, <<>>, Sorted(queue))

MovePart(units, gaps, i) ==
  LET h     == gaps[i]
      until == IF i = Len(gaps) THEN Len(units) + 1 ELSE gaps[i + 1].position
  IN  [p \in DOMAIN units |->
         IF h.position <= p /\ p + h.size < until THEN units[p + h.size]
         ELSE units[p]]

\* Mutant: the file right behind the hole keeps its position.
ShiftFilesTooFew(files, h) ==
  [i \in DOMAIN files |->
     IF files[i].position > h.position + h.size
     THEN [files[i] EXCEPT !.position = @ - h.size] ELSE files[i]]

ShiftFiles(files, h) ==
  [i \in DOMAIN files |->
     IF files[i].position > h.position
     THEN [files[i] EXCEPT !.position = @ - h.size] ELSE files[i]]

fragmented_size(queue) == FoldLeft(LAMBDA sum, h : sum + h.size, 0, queue)

defragment(v) ==
  LET gaps  == Merge(v.removeQueue)
      total == fragmented_size(gaps)
      moved == FoldLeft(LAMBDA units, i : MovePart(units, gaps, i), v.units,
                        [i \in DOMAIN gaps |-> i])
  IN  [v EXCEPT !.files = FoldLeft(ShiftFiles, v.files, gaps),
                !.removeQueue = <<>>,
                !.indexOffset = @ - total,
                !.units = SubSeq(moved, 1, Len(moved) - total)]

(* _vfs_write_index: the number of files, then their entries in one piece. *)
(* fwrite of a piece of no bytes writes 0 pieces, so the index of an       *)
(* archive with no file fails the assertion writeCount == 2.               *)
writeCount(files) == IF files = <<>> THEN 1 ELSE 2

(* Where the assertion holds, or is only logged.  The file is cut behind   *)
(* the index.                                                              *)
write_index(v) ==
  [v EXCEPT !.units = Append(SubSeq(@, 1, v.indexOffset - 1),
                             IndexUnit(v.files))]

\* Mutant: the index is written back, and the header is not.
vfs_closeKeepsHeader(v) ==
  LET d == defragment(v)
  IN  IF d.dirty THEN [write_index(d) EXCEPT !.dirty = FALSE] ELSE d

(* _vfs_close: the low half of the header is rewritten. *)
vfs_close(v) ==
  LET d == defragment(v)
  IN  IF d.dirty
      THEN [write_index(d) EXCEPT
              !.header = (@ - (@ % HeaderBase)) + (d.indexOffset % HeaderBase),
              !.dirty = FALSE]
      ELSE d

-----------------------------------------------------------------------------
\* Mutant: the hole is recorded, the entry stays in the index.
vfs_removeKeepsEntry(v, id) ==
  LET f == v.files[find_file(v, id)]
  IN  [v EXCEPT !.removeQueue = Append(@, [position |-> f.position,
                                           size |-> f.size]),
                !.dirty = TRUE]

\* Mutant: the entry goes, and the hole is not recorded.
vfs_removeUnrecorded(v, id) ==
  [v EXCEPT !.files = RemoveAt(@, find_file(v, id)), !.dirty = TRUE]

(* _vfs_remove, of a file that is in the index.                            *)
vfs_remove(v, id) ==
  LET f    == v.files[find_file(v, id)]
      gone == [v EXCEPT
                 !.removeQueue = Append(@, [position |-> f.position,
                                            size |-> f.size]),
                 !.files = RemoveAt(@, find_file(v, id)),
                 !.dirty = TRUE]
  IN  IF fragmented_size(gone.removeQueue) > DefragLimit
      THEN defragment(gone) ELSE gone

Overwrite(units, pos, new) ==
  [p \in 1 .. (IF Len(units) > pos + Len(new) - 1
               THEN Len(units) ELSE pos + Len(new) - 1) |->
     IF p >= pos /\ p < pos + Len(new) THEN new[p - pos + 1] ELSE units[p]]

(* _vfs_add: an existing file is removed first; writing nothing at all     *)
(* counts as a write error.                                                *)
vfs_add(v, id, k, compress) ==
  LET n       == stores + 1
      base    == IF vfs_exists(v, id) THEN vfs_remove(v, id) ELSE v
      written == IF compress THEN Packed(n, k) ELSE Plain(n, k)
  IN  IF written = <<>> THEN base
      ELSE [base EXCEPT
              !.units = Overwrite(@, base.indexOffset, written),
              !.files = Append(@, [id |-> id, position |-> base.indexOffset,
                                   size |-> Len(written),
                                   flags |-> IF compress THEN 1 ELSE 0]),
              !.indexOffset = @ + Len(written),
              !.dirty = TRUE]

-----------------------------------------------------------------------------
(* The operations of the file system that reach the archive.               *)

(* Removing id from v leads to a defragmentation of two holes or more that *)
(* are not adjacent.                                                       *)
SpoiltByRemove(v, id) ==
  LET f     == v.files[find_file(v, id)]
      queue == Append(v.removeQueue, [position |-> f.position, size |-> f.size])
  IN  fragmented_size(queue) > DefragLimit /\ Len(Merge(queue)) > 1

(* What is written is not flushed, and the archive is not dirty. *)
createArchive ==
  /\ state = "absent"
  /\ state' = "open"
  /\ vfs' = [vfs EXCEPT !.header = 1, !.units = <<IndexUnit(<<>>)>>]
  /\ inBuffer' = TRUE
  /\ UNCHANGED <<stores, stored, spoilt>>

store(id, k, compress) ==
  /\ state = "open"
  /\ stores < MaxStores
  /\ stores' = stores + 1
  /\ stored' = [stored EXCEPT ![id] =
                  IF k = 0 /\ ~compress THEN Nothing
                  ELSE [version |-> stores + 1, size |-> k]]
  /\ vfs' = vfs_add(vfs, id, k, compress)
  /\ inBuffer' = FALSE
  /\ spoilt' = (spoilt \/ (vfs_exists(vfs, id) /\ SpoiltByRemove(vfs, id)))
  /\ UNCHANGED state

remove(id) ==
  /\ state = "open"
  /\ vfs_exists(vfs, id)
  /\ vfs' = vfs_remove(vfs, id)
  /\ spoilt' = (spoilt \/ SpoiltByRemove(vfs, id))
  /\ stored' = [stored EXCEPT ![id] = Nothing]
  /\ UNCHANGED <<state, inBuffer, stores>>

(* Close the file and open it again; the index in memory stays. *)
flush ==
  /\ state = "open"
  /\ vfs' = vfs_close(vfs)
  /\ inBuffer' = FALSE
  /\ spoilt' = (spoilt \/ Len(Merge(vfs.removeQueue)) > 1)
  /\ UNCHANGED <<state, stores, stored>>

(* The index in memory is gone. *)
close ==
  /\ state = "open"
  /\ state' = "closed"
  /\ vfs' = [vfs_close(vfs) EXCEPT !.files = <<>>, !.indexOffset = 0]
  /\ inBuffer' = FALSE
  /\ spoilt' = (spoilt \/ Len(Merge(vfs.removeQueue)) > 1)
  /\ UNCHANGED <<stores, stored>>

(* A debug build (GE_DEBUG) stops in the failing assertion of flush() or   *)
(* close(): the holes are collapsed, the index is lost with the buffer,    *)
(* and the header, not rewritten, points behind the end of the file.       *)
trap ==
  /\ state = "open"
  /\ vfs.dirty
  /\ writeCount(vfs.files) # 2
  /\ state' = "trapped"
  /\ vfs' = [defragment(vfs) EXCEPT !.indexOffset = 0, !.dirty = FALSE]
  /\ inBuffer' = FALSE
  /\ spoilt' = (spoilt \/ Len(Merge(vfs.removeQueue)) > 1)
  /\ UNCHANGED <<stores, stored>>

IndexOnDisk == vfs.units[vfs.header]

(* The header and the index are read back; an index that is not where the  *)
(* header says is an archive that does not open.                           *)
initArchive ==
  /\ state = "closed"
  /\ vfs.header \in DOMAIN vfs.units
  /\ IndexOnDisk[1] = "index"
  /\ state' = "open"
  /\ vfs' = [vfs EXCEPT !.files = IndexOnDisk[3], !.indexOffset = vfs.header]
  /\ inBuffer' = FALSE
  /\ UNCHANGED <<stores, stored, spoilt>>

Next ==
  \/ createArchive \/ flush \/ close \/ trap \/ initArchive
  \/ \E id \in Ids :
       \/ remove(id)
       \/ \E k \in Sizes, compress \in BOOLEAN : store(id, k, compress)

Spec == Init /\ [][Next]_vars

-----------------------------------------------------------------------------
(***************************************************************************)
(* Properties.                                                             *)
(***************************************************************************)

Entries == [id : Ids, position : Nat, size : Nat, flags : {0, 1}]

(* Type correctness; no file is in the index twice. *)
TypeOK ==
  /\ state \in {"absent", "open", "closed", "trapped"}
  /\ vfs.files \in Seq(Entries)
  /\ \A i, j \in DOMAIN vfs.files : vfs.files[i].id = vfs.files[j].id => i = j
  /\ vfs.indexOffset \in Nat
  /\ vfs.dirty \in BOOLEAN
  /\ vfs.removeQueue \in Seq([position : Nat, size : Nat])
  /\ vfs.header \in Nat
  /\ inBuffer \in BOOLEAN
  /\ stores \in 0 .. MaxStores
  /\ stored \in [Ids -> [version : 0 .. MaxStores, size : Sizes \cup {0}]]
  /\ spoilt \in BOOLEAN

(* What load() gives for every file of v is what was last stored, and v    *)
(* has no other file.                                                      *)
Loads(v) ==
  \A id \in Ids :
    IF stored[id] = Nothing THEN ~vfs_exists(v, id)
    ELSE /\ vfs_exists(v, id)
         /\ vfs_read(v, id) = Plain(stored[id].version, stored[id].size)

(* load() returns what store() stored, through replacing, removing,        *)
(* flushing and defragmenting, as long as no defragmentation has met two   *)
(* holes that are not adjacent.                                            *)
LoadsStored == state = "open" /\ ~spoilt => Loads(vfs)

(* The same after close() has returned: what the next program reads from   *)
(* the file, through the header, is what was stored.  In a debug build     *)
(* close() does not return for an archive whose last file was removed: see *)
(* trap.  And an archive must stay below HeaderBase: only the low half of  *)
(* the header is rewritten, so one that has grown past it is lost.         *)
SurvivesClose ==
  state = "closed" /\ ~spoilt /\ Len(vfs.units) < HeaderBase =>
    /\ vfs.header \in DOMAIN vfs.units
    /\ IndexOnDisk[1] = "index"
    /\ Loads([vfs EXCEPT !.files = IndexOnDisk[3]])

Extent(f) == f.position .. f.position + f.size - 1
Extents ==
  [i \in DOMAIN vfs.files |-> Extent(vfs.files[i])]
    \o [i \in DOMAIN vfs.removeQueue |-> Extent(vfs.removeQueue[i])]

(* The data region is tiled by the files and the holes that are recorded:  *)
(* no unit belongs to two of them, and no unit is lost to neither.         *)
RegionTiled ==
  state = "open" /\ ~spoilt =>
    /\ UNION {Extents[i] : i \in DOMAIN Extents} = 1 .. vfs.indexOffset - 1
    /\ \A i, j \in DOMAIN Extents : i # j => Extents[i] \cap Extents[j] = {}

(* What the comment on _vfs_defragment says: "collapse holes left by files *)
(* removal".  Collapsing two holes or more keeps the data of the files.    *)
DefragmentKeepsData == state = "open" => Loads(vfs)
=============================================================================
