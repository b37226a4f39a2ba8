-------------------------------- MODULE Fat32 --------------------------------
(***************************************************************************)
(* The FAT32 driver (kernel/src/storage/fat32.rs) as functions on a disk:  *)
(* each takes a disk and returns the disk it leaves, having written the    *)
(* blocks the code writes in the order in which it writes them.            *)
(*                                                                         *)
(* A disk is a record:                                                     *)
(*   fat   the first copy of the FAT, the only one that is ever read;      *)
(*   blk   what each cluster holds, one block each;                        *)
(*   left  the block writes still to come before the one that goes wrong,  *)
(*         or Never;                                                       *)
(*   how   what happens then: "power" freezes the disk from that write on, *)
(*         "error" makes that one write fail and return false;             *)
(*   ok    what the last write_block returned.                             *)
(* FAT32 is locked throughout an operation, so nothing comes in between.   *)
(* Block reads do not fail in the model.                                   *)
(*                                                                         *)
(* A block is data, or Slots directory entries.  File contents are         *)
(* sequences of data, one element for each cluster, and so are sizes; a    *)
(* name is short (it has an 8.3 form) or not.  Data is text: read as       *)
(* directory entries it has names nobody looks for and clusters outside    *)
(* the volume, and only the padding after it looks like free slots.        *)
(* Long-name entries and the volume label, which only other systems write, *)
(* are left out.                                                           *)
(***************************************************************************)
EXTENDS Integers, Sequences, SequencesExt, FiniteSets

CONSTANTS total_clusters,  \* data clusters on the volume
          Slots,           \* directory entries in a cluster, at least 2
          ShortNames       \* the names encode_83_name accepts

ASSUME VolumeAssumption ==
  /\ total_clusters \in Nat \ {0}
  /\ Slots \in Nat \ {0, 1}

Clusters == 2 .. total_clusters + 1
root_cluster == 2
FAT_FREE == 0
FAT_EOC == total_clusters + 2
Never == -1

\* A first cluster of 0 means no clusters; FAT entry 0 exists all the same.
FatEntries == Clusters \cup {0}

-----------------------------------------------------------------------------
(* Blocks                                                                  *)

Entry(name, is_dir, cluster, size) ==
  [name |-> name, is_dir |-> is_dir, cluster |-> cluster, size |-> size]

\* First bytes 0x00 and 0xE5, and what file data looks like as an entry.
EndOfDir == Entry("0x00", FALSE, 0, 0)
Deleted  == Entry("0xE5", FALSE, 0, 0)
Garbled  == Entry("?", FALSE, 0, 0)

\* A block of data; the last one of a file ends in zeros.
Data(x, last) ==
  [data |-> x, slots |-> [i \in 1..Slots |-> IF i = 1 \/ ~last THEN Garbled ELSE EndOfDir]]
Directory(entries) ==
  [data |-> "entries",
   slots |-> [i \in 1..Slots |-> IF i <= Len(entries) THEN entries[i] ELSE EndOfDir]]
Zero == Directory(<< >>)

\* block::write_block of a block that turns the disk d into the disk new.
write_block(d, new) ==
  CASE d.left = 0 /\ d.how = "power" -> [d EXCEPT !.ok = TRUE]
    [] d.left = 0 /\ d.how = "error" -> [d EXCEPT !.ok = FALSE, !.left = Never]
    [] d.left = Never -> [new EXCEPT !.ok = TRUE]
    [] OTHER -> [new EXCEPT !.ok = TRUE, !.left = d.left - 1]

write_cluster(d, c, b) == write_block(d, [d EXCEPT !.blk[c] = b])

-----------------------------------------------------------------------------
(* The FAT                                                                 *)

\* Both copies are written, the first one first, until a write fails.
SecondCopy(first) == IF first.ok THEN write_block(first, first) ELSE first
fat_write(d, c, value) == SecondCopy(write_block(d, [d EXCEPT !.fat[c] = value]))

\* fat_alloc returns the lowest free cluster, or 0 for None.  A cluster whose
\* entry cannot be written is passed over.
Claimed(written, c) == [disk |-> written, cluster |-> IF written.ok THEN c ELSE 0]
fat_alloc(d) ==
  LET Try(a, c) == IF a.cluster # 0 \/ a.disk.fat[c] # FAT_FREE THEN a
                   ELSE Claimed(fat_write(a.disk, c, FAT_EOC), c)
      upTo[c \in 1 .. total_clusters + 1] ==
        IF c = 1 THEN [disk |-> d, cluster |-> 0] ELSE Try(upTo[c - 1], c)
  IN  upTo[total_clusters + 1]

\* The clusters of the chain that starts at start, at most one more than the
\* volume has.
cluster_chain(d, start) ==
  LET chain[n \in 0 .. total_clusters + 1, cluster \in 0 .. FAT_EOC] ==
        IF n = 0 \/ cluster \notin Clusters THEN << >>
        ELSE <<cluster>> \o chain[n - 1, d.fat[cluster]]
  IN  chain[total_clusters + 1, start]

fat_write_all(d, clusters, value) ==
  FoldLeft(LAMBDA e, c : fat_write(e, c, value), d, clusters)

\* Mutant: the next cluster is read after the entry has been cleared.
fat_free_chain_clears_first(d, start) == fat_write(d, start, FAT_FREE)

\* Each entry is read before it is cleared; failed writes are ignored.
fat_free_chain(d, start) ==
  LET Clear(a) == IF a.cluster \notin Clusters THEN a
                  ELSE [disk |-> fat_write(a.disk, a.cluster, FAT_FREE),
                        cluster |-> a.disk.fat[a.cluster]]
      after[n \in 0 .. total_clusters + 1] ==
        IF n = 0 THEN [disk |-> d, cluster |-> start] ELSE Clear(after[n - 1])
  IN  after[total_clusters + 1].disk

-----------------------------------------------------------------------------
(* Directories                                                             *)

\* The places of the entries of a directory, in the order they are read.
SlotsOf(chain) ==
  [k \in 1 .. Slots * Len(chain) |->
     <<chain[((k - 1) \div Slots) + 1], ((k - 1) % Slots) + 1>>]
Places(d, dir) == SlotsOf(cluster_chain(d, dir))

At(d, place) == d.blk[place[1]].slots[place[2]]

\* The entries up to the end mark, without deleted ones, "." and "..".
UpToEnd(d, places) ==
  LET end == SelectInSeq(places, LAMBDA p : At(d, p) = EndOfDir)
  IN  IF end = 0 THEN places ELSE SubSeq(places, 1, end - 1)
read_dir(d, dir) ==
  SelectSeq(UpToEnd(d, Places(d, dir)),
            LAMBDA p : At(d, p).name \notin {Deleted.name, ".", ".."})

NoPlace == <<0, 0>>
FirstOf(places) == IF places = << >> THEN NoPlace ELSE places[1]

\* Where the first entry with that name is.
find_entry(d, dir, name) ==
  FirstOf(SelectSeq(read_dir(d, dir), LAMBDA p : At(d, p).name = name))

write_entry(d, place, entry) ==
  write_block(d, [d EXCEPT !.blk[place[1]].slots[place[2]] = entry])

\* Mutant: an entry without clusters counts as free.
FreeSlot_no_cluster(d, place) == At(d, place).cluster = 0

FreeSlot(d, place) == At(d, place) \in {EndOfDir, Deleted}

Done(d) == [disk |-> d, result |-> d.ok]
Refused(d) == [disk |-> d, result |-> FALSE]

\* A cluster new is added to the chain of a directory that is full.
GrowDir(new, last, entry) ==
  IF new.cluster = 0 THEN Refused(new.disk)
  ELSE Done(write_cluster(
              write_cluster(fat_write(new.disk, last, new.cluster), new.cluster, Zero),
              new.cluster, Directory(<<entry>>)))

LastCluster(dir, chain) == IF chain = << >> THEN dir ELSE Last(chain)

PutEntry(d, dir, place, entry) ==
  IF place # NoPlace THEN Done(write_entry(d, place, entry))
  ELSE GrowDir(fat_alloc(d), LastCluster(dir, cluster_chain(d, dir)), entry)

\* The entry goes to the first free slot, or to a cluster added to the chain.
create_dir_entry(d, dir, entry) ==
  IF entry.name \notin ShortNames THEN Refused(d)
  ELSE PutEntry(d, dir, FirstOf(SelectSeq(Places(d, dir), LAMBDA p : FreeSlot(d, p))), entry)

-----------------------------------------------------------------------------
(* Files                                                                   *)

\* As many clusters as the size asks for and the chain has.
ReadChain(d, chain, size) ==
  [i \in 1 .. (IF Len(chain) < size THEN Len(chain) ELSE size) |-> d.blk[chain[i]].data]
read_file(d, entry) == ReadChain(d, cluster_chain(d, entry.cluster), entry.size)

\* The clusters for n blocks of data; all are given back when one is missing.
AddCluster(a, new) ==
  IF new.cluster = 0
    THEN [disk |-> fat_write_all(new.disk, a.clusters, FAT_FREE),
          clusters |-> << >>, full |-> TRUE]
    ELSE [disk |-> new.disk, clusters |-> Append(a.clusters, new.cluster), full |-> FALSE]
AllocClusters(d, n) ==
  FoldLeft(LAMBDA a, i : IF a.full THEN a ELSE AddCluster(a, fat_alloc(a.disk)),
           [disk |-> d, clusters |-> << >>, full |-> FALSE],
           [i \in 1..n |-> i])

\* Mutant: the clusters are not linked.
Link_none(d, clusters) == d

\* The last cluster is already marked as the end by fat_alloc.
Link(d, clusters) ==
  FoldLeft(LAMBDA e, i : fat_write(e, clusters[i], clusters[i + 1]),
           d, [i \in 1 .. Len(clusters) - 1 |-> i])

\* Mutant: the offset into the data is not advanced.
Fill_same_chunk(d, clusters, data) ==
  FoldLeft(LAMBDA a, i :
             [disk |-> write_cluster(a.disk, clusters[i], Data(data[1], i = Len(clusters))),
              failed |-> FALSE],
           [disk |-> d, failed |-> FALSE], [i \in DOMAIN clusters |-> i])

\* A failed write ends the loop.
Fill(d, clusters, data) ==
  FoldLeft(LAMBDA a, i :
             IF a.failed THEN a
             ELSE LET w == write_cluster(a.disk, clusters[i], Data(data[i], i = Len(clusters)))
                  IN  [disk |-> w, failed |-> ~w.ok],
           [disk |-> d, failed |-> FALSE], [i \in DOMAIN clusters |-> i])

\* cluster is the first cluster, or 0 for no data and for failure alike: both
\* callers take unwrap_or(0).
Stored(filled, clusters) ==
  [disk |-> filled.disk, cluster |-> IF filled.failed THEN 0 ELSE clusters[1]]
Store(new, data) ==
  IF new.clusters = << >> THEN [disk |-> new.disk, cluster |-> 0]
  ELSE Stored(Fill(Link(new.disk, new.clusters), new.clusters, data), new.clusters)
write_data_clusters(d, data) == Store(AllocClusters(d, Len(data)), data)

\* The chain of an entry that has one.
FreeData(d, entry) == IF entry.cluster >= 2 THEN fat_free_chain(d, entry.cluster) ELSE d

Overwrite(d, place, data) ==
  LET Replace(new) ==
        write_entry(new.disk, place,
                    [At(d, place) EXCEPT !.cluster = new.cluster, !.size = Len(data)])
  IN  [disk |-> Replace(write_data_clusters(FreeData(d, At(d, place)), data)),
       result |-> TRUE]

CreateFile(new, dir, name, size) ==
  create_dir_entry(new.disk, dir, Entry(name, FALSE, new.cluster, size))

\* Mutant: the entry of a new file is written before its data.
write_file_entry_first(d, dir, name, data) ==
  LET Named(new) ==
        CreateFile([disk |-> new.disk,
                    cluster |-> IF new.clusters = << >> THEN 0 ELSE new.clusters[1]],
                   dir, name, Len(data))
      Filled(made, clusters) ==
        [made EXCEPT !.disk = Fill(Link(made.disk, clusters), clusters, data).disk]
      Create(new) == Filled(Named(new), new.clusters)
      WriteTo(place) == IF place # NoPlace THEN Overwrite(d, place, data)
                    ELSE Create(AllocClusters(d, Len(data)))
  IN  WriteTo(find_entry(d, dir, name))

write_file(d, dir, name, data) ==
  LET WriteTo(place) ==
        IF place # NoPlace THEN Overwrite(d, place, data)
        ELSE CreateFile(write_data_clusters(d, data), dir, name, Len(data))
  IN  WriteTo(find_entry(d, dir, name))

\* The new directory is cleared and given "." and ".." before it is named.
DotEntries(new, parent) ==
  write_cluster(write_cluster(new.disk, new.cluster, Zero), new.cluster,
                Directory(<<Entry(".", TRUE, new.cluster, 0), Entry("..", TRUE, parent, 0)>>))

mkdir(d, parent, name) ==
  LET Named(dots, cluster) ==
        IF dots.ok THEN create_dir_entry(dots, parent, Entry(name, TRUE, cluster, 0))
        ELSE Refused(dots)
      Make(new) == IF new.cluster = 0 THEN Refused(new.disk)
                   ELSE Named(DotEntries(new, parent), new.cluster)
  IN  IF find_entry(d, parent, name) # NoPlace THEN Refused(d) ELSE Make(fat_alloc(d))

delete(d, dir, name) ==
  LET DeleteAt(place) ==
        IF place = NoPlace THEN Refused(d)
        ELSE IF At(d, place).is_dir /\ read_dir(d, At(d, place).cluster) # << >> THEN Refused(d)
        ELSE Done(write_entry(FreeData(d, At(d, place)), place, Deleted))
  IN  DeleteAt(find_entry(d, dir, name))

\* A freshly formatted volume.
Formatted ==
  [fat |-> [c \in FatEntries |-> IF c \in {0, root_cluster} THEN FAT_EOC ELSE FAT_FREE],
   blk |-> [c \in Clusters |-> Zero],
   left |-> Never, how |-> "power", ok |-> TRUE]
=============================================================================
