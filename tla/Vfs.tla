--------------------------------- MODULE Vfs ---------------------------------
(***************************************************************************)
(* The virtual file system (kernel/src/storage/vfs.rs) over the FAT32      *)
(* driver: paths, the current directory, and the operations of the shell   *)
(* and the desktop, which run in one task.                                 *)
(*                                                                         *)
(* In any operation one block write may go wrong: the power is lost, or    *)
(* the device refuses the block.  No code repairs a volume, so a behaviour *)
(* ends there; the properties say what the volume then holds.              *)
(*                                                                         *)
(* A path is absolute or relative and has a sequence of components.        *)
(*                                                                         *)
(* Neither the file system nor its callers (write, append, cp, rename and  *)
(* edit of the shell, redirection, the desktop's programs) test that a     *)
(* file is not written over a directory, or that the current directory     *)
(* still exists.  Both make the driver read file data as directory         *)
(* entries: such a call goes astray.  When the cluster of a current        *)
(* directory that is gone has been handed out again, the call may change   *)
(* what belongs to others, and the behaviour ends there as well.           *)
(***************************************************************************)
EXTENDS Fat32

CONSTANTS FilePaths, \* the paths files are written at
          Copies,    \* the sources and destinations of copies
          DirPaths,  \* the paths directories are made at
          CdPaths,   \* the paths directories are entered by
          Contents,  \* file contents, sequences of data
          MaxWrites, \* bound on the block writes of an operation
          MaxAstray, \* bound on the calls from the first that goes astray on
          MaxDepth   \* bound on the components of cwd_path and the depth of directories

VARIABLES disk,
          cwd_cluster, cwd_path,  \* VfsState
          cwd_gone,               \* ghost: the directory cd entered is not there any more
          astray,                 \* ghost: the calls from the first that went astray on
          status,                 \* "up", or what went wrong
          call                    \* ghost: the last call, its target and its result

vars == <<disk, cwd_cluster, cwd_path, cwd_gone, astray, status, call>>

-----------------------------------------------------------------------------
(* Path resolution                                                         *)

Start(path) == IF path.abs THEN root_cluster ELSE cwd_cluster

None == -1
NoEntry == Entry("none", FALSE, 0, 0)
EntryAt(place) == IF place = NoPlace THEN NoEntry ELSE At(disk, place)
DirCluster(entry) == IF entry.is_dir THEN entry.cluster ELSE None

\* One component on the way: None when it is not there or not a directory.
Descend(cluster, name) ==
  IF cluster = None THEN None
  ELSE IF name = "." THEN cluster
  ELSE IF name = ".." THEN root_cluster
  ELSE DirCluster(EntryAt(find_entry(disk, cluster, name)))

Walk(path) == FoldLeft(Descend, Start(path), Front(path.parts))

\* The entry a path names; NoEntry when there is none, or when the path ends
\* in "." or "..".
Lookup(dir, name) ==
  IF dir = None \/ name \in {".", ".."} THEN NoEntry ELSE EntryAt(find_entry(disk, dir, name))
resolve_path(path) ==
  IF path.parts = << >> THEN Entry("/", TRUE, Start(path), 0)
  ELSE Lookup(Walk(path), Last(path.parts))

\* The cluster of the parent directory.
resolve_parent(path) == IF path.parts = << >> THEN None ELSE Walk(path)

-----------------------------------------------------------------------------
(* Calls                                                                   *)

Init ==
  /\ disk = Formatted
  /\ cwd_cluster = root_cluster /\ cwd_path = << >>
  /\ cwd_gone = FALSE /\ astray = 0
  /\ status = "up"
  /\ call = [op |-> "init", dir |-> 0, name |-> "", data |-> << >>, result |-> TRUE]

\* The clusters of the directories cwd_path goes through.
OnTheWay ==
  {resolve_path([abs |-> TRUE, parts |-> SubSeq(cwd_path, 1, n)]).cluster : n \in 1 .. Len(cwd_path)}

\* The block writes operation makes when nothing goes wrong.
Writes(operation(_)) ==
  MaxWrites - operation([disk EXCEPT !.left = MaxWrites]).disk.left

\* A call goes astray through a current directory that is gone, or when it writes
\* over a directory.
Strays(path, over) == over \/ (~path.abs /\ cwd_gone)

\* What an operation leaves: it went through a current directory whose cluster is
\* no longer free, or was cut off, or refused a block.
Outcome(path, d) ==
  CASE ~path.abs /\ cwd_gone /\ disk.fat[cwd_cluster] # FAT_FREE -> "astray"
    [] d.left # Never -> d.how
    [] OTHER -> "up"

\* The ways one of its writes may go wrong; none does after a call went astray.
Faults(operation(_)) ==
  {[disk EXCEPT !.left = n, !.how = h] :
     n \in IF astray > 0 THEN {} ELSE 0 .. Writes(operation) - 1, h \in {"power", "error"}}

\* An operation of the driver on a directory and a name.
Perform(op, path, over, dir, data, operation(_)) ==
  \E d \in {disk} \cup Faults(operation) :
  \E done \in {operation(d)} :
    /\ disk' = [done.disk EXCEPT !.left = Never, !.how = "power", !.ok = TRUE]
    /\ status' = Outcome(path, d)
    /\ astray' = IF astray > 0 \/ Strays(path, over) THEN astray + 1 ELSE astray
    /\ astray' <= MaxAstray
    /\ call' = [op |-> op, dir |-> dir, name |-> Last(path.parts), data |-> data,
                result |-> done.result]

\* A call that returns false before it reaches the driver.
Refuse(op) ==
  /\ call' = [op |-> op, dir |-> None, name |-> "", data |-> << >>, result |-> FALSE]
  /\ UNCHANGED <<disk, cwd_cluster, cwd_path, cwd_gone, astray, status>>

WriteFile(path, data) ==
  /\ status = "up"
  /\ \E dir \in {resolve_parent(path)} :
       IF dir = None THEN Refuse("write")
       ELSE \E entry \in {Lookup(dir, Last(path.parts))} :
              /\ Perform("write", path, entry.is_dir, dir, data,
                         LAMBDA d : write_file(d, dir, Last(path.parts), data))
              /\ cwd_gone' = (cwd_gone \/ (entry.is_dir /\ entry.cluster \in OnTheWay))
              /\ UNCHANGED <<cwd_cluster, cwd_path>>

Mkdir(path) ==
  /\ status = "up"
  /\ \E dir \in {resolve_parent(path)} :
       IF dir = None THEN Refuse("mkdir")
       ELSE /\ Perform("mkdir", path, FALSE, dir, << >>, LAMBDA d : mkdir(d, dir, Last(path.parts)))
            /\ UNCHANGED <<cwd_cluster, cwd_path, cwd_gone>>

Delete(path) ==
  /\ status = "up"
  /\ \E dir \in {resolve_parent(path)} :
       IF dir = None THEN Refuse("delete")
       ELSE \E entry \in {Lookup(dir, Last(path.parts))} :
              /\ Perform("delete", path, FALSE, dir, << >>,
                         LAMBDA d : delete(d, dir, Last(path.parts)))
              /\ cwd_gone' = (\/ cwd_gone
                              \/ call'.result /\ entry.is_dir /\ entry.cluster \in OnTheWay)
              /\ UNCHANGED <<cwd_cluster, cwd_path>>

\* copy_file reads the whole source before it writes the destination.
CopyFile(src, dst) ==
  /\ status = "up"
  /\ \E entry \in {resolve_path(src)} :
       IF entry = NoEntry \/ entry.is_dir THEN Refuse("copy")
       ELSE \E data \in {read_file(disk, entry)} : WriteFile(dst, data)

\* The directory cd("..") goes to: the current path without its last
\* component, looked up from the root.
ParentOfCwd ==
  FoldLeft(LAMBDA c, name : IF name \in {".", ".."} THEN None ELSE Descend(c, name),
           root_cluster, Front(cwd_path))

ChangeTo(cluster, path, gone) ==
  /\ cwd_cluster' = cluster /\ cwd_path' = path
  /\ cwd_gone' = gone
  /\ call' = [op |-> "cd", dir |-> None, name |-> "", data |-> << >>, result |-> TRUE]
  /\ UNCHANGED <<disk, astray, status>>

\* Mutant: cd("..") leaves the path as it was.
cd_up_keeps_path ==
  /\ status = "up"
  /\ IF cwd_path = << >> THEN ChangeTo(cwd_cluster, cwd_path, cwd_gone)
     ELSE \E parent \in {ParentOfCwd} :
            IF parent = None THEN Refuse("cd") ELSE ChangeTo(parent, cwd_path, FALSE)

cd_up ==
  /\ status = "up"
  /\ IF cwd_path = << >> THEN ChangeTo(cwd_cluster, cwd_path, cwd_gone)
     ELSE \E parent \in {ParentOfCwd} :
            IF parent = None THEN Refuse("cd") ELSE ChangeTo(parent, Front(cwd_path), FALSE)

cd(path) ==
  /\ status = "up"
  /\ path.abs \/ Len(cwd_path \o path.parts) <= MaxDepth
  /\ \E entry \in {resolve_path(path)} :
       IF entry.is_dir
         THEN ChangeTo(entry.cluster, IF path.abs THEN path.parts ELSE cwd_path \o path.parts,
                       ~path.abs /\ cwd_gone)
         ELSE Refuse("cd")

Next ==
  \/ \E path \in FilePaths :
       \/ \E data \in Contents : WriteFile(path, data)
       \/ Delete(path)
  \/ \E pair \in Copies : CopyFile(pair[1], pair[2])
  \/ \E path \in DirPaths : Mkdir(path) \/ Delete(path)
  \/ \E path \in CdPaths : cd(path)
  \/ cd_up

Spec == Init /\ [][Next]_vars

-----------------------------------------------------------------------------
(* What is on the volume                                                   *)

\* The clusters at which top and the directories below it start.
DirectoriesFrom(d, top) ==
  LET Below(dirs) == {At(d, p).cluster : p \in {q \in UNION {Range(read_dir(d, c)) : c \in dirs} :
                                                  At(d, q).is_dir}}
      level[k \in 0..MaxDepth] == IF k = 0 THEN {top} ELSE Below(level[k - 1])
  IN  UNION {level[k] : k \in 0..MaxDepth}
Directories(d) == DirectoriesFrom(d, root_cluster)

EntriesIn(d) == UNION {Range(read_dir(d, c)) : c \in Directories(d)}

\* What a caller sees: each name in each directory with what it holds.
Listing(d) ==
  UNION {{LET e == At(d, p)
          IN  [dir |-> c, name |-> e.name, is_dir |-> e.is_dir,
               holds |-> IF e.is_dir THEN << >> ELSE read_file(d, e)] :
            p \in Range(read_dir(d, c))} : c \in Directories(d)}

\* The chains in use: the root directory's and one for each entry that has any.
Chains(d) ==
  {<<NoPlace, cluster_chain(d, root_cluster)>>} \cup
  {<<p, cluster_chain(d, At(d, p).cluster)>> : p \in {q \in EntriesIn(d) : At(d, q).cluster >= 2}}

Orphans(d) ==
  {c \in Clusters : d.fat[c] # FAT_FREE} \ UNION {Range(ch[2]) : ch \in Chains(d)}

\* Room for data in place of what the entry of that name holds now.
Fits(d, dir, name, data) ==
  LET place == find_entry(d, dir, name)
      own   == IF place = NoPlace THEN << >> ELSE cluster_chain(d, At(d, place).cluster)
  IN  Len(data) <= Len(own) + Cardinality({c \in Clusters : d.fat[c] = FAT_FREE})

-----------------------------------------------------------------------------
(* Properties                                                              *)

\* As long as nothing went wrong, also after files were written over directories,
\* the chains of all files and directories are disjoint, end properly and are as
\* long as the size says, and no directory lists a name twice (except the names
\* that text in place of entries seems to have): fat_alloc, fat_free_chain and
\* create_dir_entry keep the FAT and the directories in step.
VolumeSound ==
  LET Proper(ch) ==
        /\ disk.fat[Last(ch[2])] = FAT_EOC
        /\ ch[1] # NoPlace /\ ~At(disk, ch[1]).is_dir => Len(ch[2]) = At(disk, ch[1]).size
      Disjoint(chains) ==
        \A c1, c2 \in chains : c1 # c2 => Range(c1[2]) \cap Range(c2[2]) = {}
      NamesDiffer(places) ==
        \A p, q \in places : p # q /\ At(disk, p) # Garbled => At(disk, p).name # At(disk, q).name
  IN  status = "up" =>
        /\ \A ch \in Chains(disk) : Proper(ch)
        /\ Disjoint(Chains(disk))
        /\ \A dir \in Directories(disk) : NamesDiffer(Range(read_dir(disk, dir)))

\* cwd_cluster is the directory cwd_path names, until a directory of that path is
\* deleted or written over, whatever else goes astray; the next cd to "..", or by
\* an absolute path, makes it so again.
CwdNamesCluster ==
  status = "up" /\ ~cwd_gone =>
    resolve_path([abs |-> TRUE, parts |-> cwd_path]).cluster = cwd_cluster

\* The volume and the current directory, together.
StorageSound == VolumeSound /\ CwdNamesCluster

\* The directories whose names a call takes with it: those from the one it writes
\* over, if it does.
Taken(d, dir, name) ==
  IF dir = None \/ ~EntryAt(find_entry(d, dir, name)).is_dir THEN {}
  ELSE DirectoriesFrom(d, EntryAt(find_entry(d, dir, name)).cluster)

\* Wherever the power fails and whichever block is refused, and also when a call
\* goes astray, every other name on the volume still holds what it did, except
\* below a directory the call wrote over: write_file, mkdir and delete only touch
\* the entry they are asked to, free slots, and clusters nobody else uses.  Through
\* a current directory whose cluster was handed out again they touch the names of
\* its new owner too.
OthersSurvive ==
  [][status' # "astray" =>
       LET taken == Taken(disk, call'.dir, call'.name)
       IN  {f \in Listing(disk) : ~(f.dir = call'.dir /\ f.name = call'.name) /\ f.dir \notin taken}
             \subseteq Listing(disk')]_disk

\* A write that reports success, was refused no block and did not go astray can be
\* read back when there was room for it: the chain and the entry agree, also after
\* the old contents were freed.  When there was none, the name is there and holds
\* nothing: the old contents are gone and write_file still reports success.
WrittenIsRead ==
  [][call'.op = "write" /\ call'.result /\ status' = "up" /\ astray' = 0
     => [dir |-> call'.dir, name |-> call'.name, is_dir |-> FALSE,
         holds |-> IF Fits(disk, call'.dir, call'.name, call'.data) THEN call'.data ELSE << >>]
          \in Listing(disk')]_vars

\* The entry of a new file or directory is written last: as long as no call went
\* astray, after a power failure a name that was not there before, and that there
\* was room for, is absent or complete.  (A directory written over leaves entries in
\* clusters that are free, and create_dir_entry links a cluster before it clears it.)
NewNamesComplete ==
  [][status' = "power" /\ astray' = 0 /\ find_entry(disk, call'.dir, call'.name) = NoPlace
       /\ Fits(disk, call'.dir, call'.name, call'.data)
     => \A f \in Listing(disk') :
          f.dir = call'.dir /\ f.name = call'.name =>
            f.holds = call'.data /\ (f.is_dir => call'.op = "mkdir")]_disk

\* As long as nothing goes wrong or astray, clusters are only lost by calls that
\* report failure (an unencodable name, a directory that cannot grow): write_file,
\* mkdir and delete free what they replace.
LeaksReported ==
  [][status' = "up" /\ astray' = 0 /\ call'.result => Orphans(disk') \subseteq Orphans(disk)]_disk

\* "Returns true on success": a write_file that returns true, and was not cut off
\* by the power, has stored the data.  A full disk, a refused block and a directory
\* written over refute it.
TrueOnSuccess ==
  [][call'.op = "write" /\ call'.result /\ status' # "power"
     => [dir |-> call'.dir, name |-> call'.name, is_dir |-> FALSE, holds |-> call'.data]
          \in Listing(disk')]_vars
=============================================================================
