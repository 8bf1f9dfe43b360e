-------------------------------- MODULE Fat32 --------------------------------
(***************************************************************************)
(* The FAT32 file system and the file system calls on it, one sector write *)
(* per step, so that the machine may stop between any two.  Reads change   *)
(* nothing and happen within a step.  One program uses the disk.           *)
(*                                                                         *)
(* A cluster is a sequence of words: directory entries, or the data of a   *)
(* file.  The data of a file never looks like a directory entry.           *)
(***************************************************************************)
EXTENDS Integers, Sequences, FiniteSets, SequencesExt

CONSTANTS
  Clusters,      \* end of the cluster numbers: 2 .. Clusters - 1 hold data
  WordsPer,      \* directory entries in a cluster
  FilePaths,     \* paths of files: <<name>> or <<directory, name>>
  DirPaths,      \* paths of directories: <<name>>
  Values,        \* what a program writes to files
  Sizes,         \* sizes of files, in clusters
  MaxCrashes     \* how often the machine stops

ASSUME FatAssumption ==
  /\ Clusters \in Nat /\ Clusters > 3
  /\ WordsPer \in Nat /\ WordsPer > 1
  /\ Sizes \subseteq Nat
  /\ MaxCrashes \in Nat

Root == 2
EndOfChain == Clusters           \* 0x0FFFFFF8 and above
All == 0..(Clusters - 1)

\* Words of a cluster.
Zero == [tag |-> "zero"]         \* an entry whose name starts with 0x00
Deleted == [tag |-> "deleted"]   \* ... with 0xE5
Dots == [tag |-> "dots"]         \* . and ..
Junk == [tag |-> "junk"]         \* what the heap held before
Data(v, i) == [tag |-> "data", value |-> v, part |-> i]

Filled(w) == [k \in 1..WordsPer |-> w]

VARIABLES
  fat1, fat2,  \* the two copies of the table
  content,     \* the clusters
  mirror,      \* the entry still to be written to fat2, or NoMirror
  pc,          \* the next write of the operation under way
  op,          \* its arguments and locals
  files,       \* the effect of the completed calls, as a history: by path, what
               \* ReadFile should find; undefined where nothing is promised
  crashes,     \* how often the machine has stopped
  full         \* history: a call has failed for want of a cluster

disk == <<fat1, fat2, content>>
faults == <<crashes, full>>
vars == <<fat1, fat2, content, mirror, pc, op, files, crashes, full>>

NoMirror == <<>>
NoOp == [kind |-> "none"]
Missing == {}

\* A fresh volume; entries 0 and 1 are reserved.
Init ==
  /\ fat1 = [c \in All |-> IF c <= Root THEN EndOfChain ELSE 0]
  /\ fat2 = fat1
  /\ content = [c \in All |-> Filled(Zero)]
  /\ mirror = NoMirror
  /\ pc = "idle"
  /\ op = NoOp
  /\ files = [p \in FilePaths |-> Missing]
  /\ crashes = 0
  /\ full = FALSE

-----------------------------------------------------------------------------
(***************************************************************************)
(* Reading.                                                                *)
(***************************************************************************)

\* The clusters a loop over NextCluster visits from c on.
Chain(c) ==
  LET walk[n \in 0..Clusters] ==
        IF n = 0 THEN IF c < EndOfChain THEN <<c>> ELSE <<>>
        ELSE LET s == walk[n - 1] IN
             IF s # <<>> /\ fat1[Last(s)] < EndOfChain
               THEN Append(s, fat1[Last(s)]) ELSE s
  IN  walk[Clusters]

\* Such a loop ends; on a chain that runs in a circle it does not.
Ends(c) == fat1[Last(Chain(c))] = EndOfChain

\* The words of a directory, and where a word is.
Words(dir) ==
  LET ch == Chain(dir) IN
  [p \in 1..(Len(ch) * WordsPer) |->
     content[ch[((p - 1) \div WordsPer) + 1]][((p - 1) % WordsPer) + 1]]

ClusterOf(dir, p) == Chain(dir)[((p - 1) \div WordsPer) + 1]
IndexOf(p) == ((p - 1) % WordsPer) + 1

IsEntry(w) == w.tag = "entry"

\* NamesMatch.
Matches(w, name) == IsEntry(w) /\ w.name = name

\* FindEntry: the first match before the end of the directory; a set of at most
\* one position.
FindEntry(dir, name) ==
  LET ws == Words(dir) IN
  {p \in DOMAIN ws : /\ Matches(ws[p], name)
                     /\ \A q \in 1..(p - 1) : ws[q] # Zero /\ ~Matches(ws[q], name)}

Entry(dir, name) == {Words(dir)[p] : p \in FindEntry(dir, name)}

\* FindEntry returns false: it comes to the end of the directory.
NotFound(dir, name) ==
  /\ FindEntry(dir, name) = {}
  /\ Ends(dir) \/ Zero \in Range(Words(dir))

\* ResolveParentDir: the directory cluster of a path, if there is one.
ResolveParentDir(path) ==
  IF Len(path) = 1 THEN {Root}
  ELSE {e.cluster : e \in {x \in Entry(Root, path[1]) : x.dir}}

\* ResolvePath for a path that is not the root.
ResolvePath(path) == UNION {Entry(d, Last(path)) : d \in ResolveParentDir(path)}

\* ResolvePath returns false.
Absent(path) ==
  IF ResolveParentDir(path) = {}
    THEN NotFound(Root, path[1])
    ELSE \A d \in ResolveParentDir(path) : NotFound(d, Last(path))

\* ReadFile: the clusters of the file, cut to its size.
ReadFile(path) ==
  {LET ch == Chain(e.cluster) IN
   [i \in 1..e.size |-> IF i <= Len(ch) THEN content[ch[i]] ELSE Filled(Junk)] :
     e \in {x \in ResolvePath(path) : ~x.dir /\ Ends(x.cluster)}}

\* AllocCluster: the lowest free cluster above the root, a set of at most one.
AllocCluster ==
  {c \in 3..(Clusters - 1) : /\ fat1[c] = 0
                             /\ \A b \in 3..(c - 1) : fat1[b] # 0}

-----------------------------------------------------------------------------
(***************************************************************************)
(* Writing.                                                                *)
(***************************************************************************)

\* SetFATEntry writes the first copy, Mirror the second.
SetFATEntry(c, v) ==
  /\ mirror = NoMirror
  /\ fat1' = [fat1 EXCEPT ![c] = v]
  /\ mirror' = <<c, v>>
  /\ UNCHANGED fat2

Mirror ==
  /\ mirror # NoMirror
  /\ fat2' = [fat2 EXCEPT ![mirror[1]] = mirror[2]]
  /\ mirror' = NoMirror
  /\ UNCHANGED <<fat1, content, pc, op, files, faults>>

WriteWord(c, i, w) ==
  /\ mirror = NoMirror
  /\ content' = [content EXCEPT ![c][i] = w]
  /\ UNCHANGED <<fat1, fat2, mirror>>

WriteCluster(c, ws) ==
  /\ mirror = NoMirror
  /\ content' = [content EXCEPT ![c] = ws]
  /\ UNCHANGED <<fat1, fat2, mirror>>

NoWrite == mirror = NoMirror /\ UNCHANGED <<disk, mirror>>

\* The history after the call.
Promise(found) == (op.path :> found) @@ files
Forget(path) == Restrict(files, DOMAIN files \ {path})

Return(fs) == pc' = "idle" /\ op' = NoOp /\ files' = fs

\* The call returns false; a file it was overwriting may be lost.
Fail == /\ Return(IF op.kind \in {"write", "move"} /\ op.exists
                     THEN Forget(op.path) ELSE files)
        /\ full' = TRUE

-----------------------------------------------------------------------------
(***************************************************************************)
(* The calls.                                                              *)
(***************************************************************************)

First(e) == IF e = {} THEN EndOfChain ELSE (CHOOSE x \in e : TRUE).cluster

\* WriteFile up to the loop that frees the clusters of an existing file.
StartWrite(kind, path, data, src) ==
  \E dir \in ResolveParentDir(path) :
    LET old == Entry(dir, Last(path)) IN
    /\ \A e \in old : ~e.dir
    /\ old # {} \/ NotFound(dir, Last(path))
    /\ op' = [kind |-> kind, path |-> path, dir |-> dir, name |-> Last(path),
              data |-> data, src |-> src, exists |-> old # {},
              cur |-> First(old), first |-> 0, i |-> 1, grown |-> 0]
    /\ pc' = "free"

\* sys_writefile, and sys_open with the create flag (size 0).
WriteFile ==
  /\ pc = "idle"
  /\ \E path \in FilePaths, v \in Values, n \in Sizes :
       StartWrite("write", path, [i \in 1..n |-> Filled(Data(v, i))], path)
  /\ NoWrite
  /\ UNCHANGED <<files, faults>>

\* sys_cp and sys_mv read the source, then write the destination.
CopyOrMove ==
  /\ pc = "idle"
  /\ \E src \in FilePaths, dst \in FilePaths, kind \in {"write", "move"} :
       \E data \in ReadFile(src) : StartWrite(kind, dst, data, src)
  /\ NoWrite
  /\ UNCHANGED <<files, faults>>

\* DeleteFile up to the same loop.
StartDelete(path, fs) ==
  \E dir \in ResolveParentDir(path) :
    \E e \in Entry(dir, Last(path)) :
      /\ ~e.dir
      /\ op' = [kind |-> "delete", path |-> path, dir |-> dir,
                name |-> Last(path), cur |-> e.cluster]
      /\ pc' = "free"
      /\ files' = fs

\* sys_unlink.
DeleteFile ==
  /\ pc = "idle"
  /\ \E path \in FilePaths : StartDelete(path, files)
  /\ NoWrite
  /\ UNCHANGED faults

\* sys_mkdir: MakeDir up to AllocCluster.  The program makes a directory under
\* a name that is not taken.
MakeDir ==
  /\ pc = "idle"
  /\ \E path \in DirPaths :
       /\ Absent(path)
       /\ op' = [kind |-> "mkdir", path |-> path, dir |-> Root,
                 name |-> Last(path), first |-> 0, grown |-> 0]
  /\ pc' = "alloc"
  /\ NoWrite
  /\ UNCHANGED <<files, faults>>

\* A variant that frees the first cluster only.
FreeFirst ==
  /\ pc = "free"
  /\ IF op.cur \in 2..(Clusters - 1)
       THEN /\ SetFATEntry(op.cur, 0)
            /\ op' = [op EXCEPT !.cur = EndOfChain]
            /\ UNCHANGED pc
       ELSE /\ NoWrite
            /\ pc' = IF op.kind = "delete" THEN "unlink" ELSE "alloc"
            /\ UNCHANGED op
  /\ UNCHANGED <<content, files, faults>>

\* One turn of the loop that frees a chain.
Free ==
  /\ pc = "free"
  /\ IF op.cur \in 2..(Clusters - 1)
       THEN /\ SetFATEntry(op.cur, 0)
            /\ op' = [op EXCEPT !.cur = fat1[op.cur]]
            /\ UNCHANGED pc
       ELSE /\ NoWrite
            /\ pc' = IF op.kind = "delete" THEN "unlink" ELSE "alloc"
            /\ UNCHANGED op
  /\ UNCHANGED <<content, files, faults>>

\* A variant that does not reserve the cluster it has found.
AllocUnreserved ==
  /\ pc = "alloc"
  /\ \/ /\ AllocCluster = {}
        /\ NoWrite
        /\ Fail
     \/ \E c \in AllocCluster :
          /\ NoWrite
          /\ op' = IF op.kind = "mkdir" THEN [op EXCEPT !.first = c]
                   ELSE [op EXCEPT !.first = c, !.cur = c]
          /\ pc' = IF op.kind = "mkdir" THEN "dots" ELSE "data"
          /\ UNCHANGED <<files, full>>
  /\ UNCHANGED <<content, crashes>>

\* AllocCluster and SetFATEntry(first, end of chain).
Alloc ==
  /\ pc = "alloc"
  /\ \/ /\ AllocCluster = {}
        /\ NoWrite
        /\ Fail
     \/ \E c \in AllocCluster :
          /\ SetFATEntry(c, EndOfChain)
          /\ op' = IF op.kind = "mkdir" THEN [op EXCEPT !.first = c]
                   ELSE [op EXCEPT !.first = c, !.cur = c]
          /\ pc' = IF op.kind = "mkdir" THEN "dots" ELSE "data"
          /\ UNCHANGED <<files, full>>
  /\ UNCHANGED <<content, crashes>>

\* WriteClusterChain: the data of one cluster ...
WriteData ==
  /\ pc = "data"
  /\ WriteCluster(op.cur, IF op.data = <<>> THEN Filled(Zero) ELSE op.data[op.i])
  /\ pc' = IF op.i < Len(op.data) THEN "link" ELSE "last"
  /\ UNCHANGED <<op, files, faults>>

\* ... then a new cluster behind it, or the call fails ...
Link ==
  /\ pc = "link"
  /\ \/ /\ AllocCluster = {}
        /\ NoWrite
        /\ Fail
     \/ \E c \in AllocCluster :
          /\ SetFATEntry(op.cur, c)
          /\ op' = [op EXCEPT !.cur = c, !.i = @ + 1]
          /\ pc' = "seal"
          /\ UNCHANGED <<files, full>>
  /\ UNCHANGED <<content, crashes>>

Seal ==
  /\ pc = "seal"
  /\ SetFATEntry(op.cur, EndOfChain)
  /\ pc' = "data"
  /\ UNCHANGED <<content, op, files, faults>>

\* ... and the end of the chain.
LastCluster ==
  /\ pc = "last"
  /\ SetFATEntry(op.cur, EndOfChain)
  /\ pc' = IF op.exists THEN "unlink" ELSE "enter"
  /\ UNCHANGED <<content, op, files, faults>>

\* A variant of MarkEntryDeleted that ends the directory at the entry.
UnlinkZero ==
  /\ pc = "unlink"
  /\ \/ NotFound(op.dir, op.name) /\ NoWrite
     \/ \E p \in FindEntry(op.dir, op.name) :
          WriteWord(ClusterOf(op.dir, p), IndexOf(p), Zero)
  /\ IF op.kind = "delete"
       THEN Return(Promise(Missing))
       ELSE pc' = "enter" /\ UNCHANGED <<op, files>>
  /\ UNCHANGED faults

\* MarkEntryDeleted.
Unlink ==
  /\ pc = "unlink"
  /\ \/ NotFound(op.dir, op.name) /\ NoWrite
     \/ \E p \in FindEntry(op.dir, op.name) :
          WriteWord(ClusterOf(op.dir, p), IndexOf(p), Deleted)
  /\ IF op.kind = "delete"
       THEN Return(Promise(Missing))
       ELSE pc' = "enter" /\ UNCHANGED <<op, files>>
  /\ UNCHANGED faults

\* MakeDir: the cluster of the new directory.
WriteDots ==
  /\ pc = "dots"
  /\ WriteCluster(op.first, [k \in 1..WordsPer |-> IF k <= 2 THEN Dots ELSE Zero])
  /\ pc' = "enter"
  /\ UNCHANGED <<op, files, faults>>

\* BuildDirEntry.
NewEntry ==
  [tag |-> "entry", name |-> op.name, dir |-> op.kind = "mkdir", cluster |-> op.first,
   size |-> IF op.kind = "mkdir" THEN 0 ELSE Len(op.data)]

\* The operation succeeds; sys_mv goes on to delete the source.
Done ==
  IF op.kind = "mkdir" THEN Return(files)
  ELSE LET fs == Promise({op.data}) IN
       IF op.kind = "move" THEN \/ StartDelete(op.src, fs)
                                \/ /\ Absent(op.src)
                                   /\ Return(fs)
       ELSE Return(fs)

\* Places AddDirEntry may use in a directory.
Vacant(dir) == {p \in DOMAIN Words(dir) : Words(dir)[p] \in {Zero, Deleted}}

\* AddDirEntry: the first vacant place, or a new cluster for the directory.
Enter ==
  /\ pc = "enter"
  /\ LET vacant == Vacant(op.dir) IN
     \/ \E p \in vacant :
          /\ \A q \in vacant : p <= q
          /\ WriteWord(ClusterOf(op.dir, p), IndexOf(p), NewEntry)
          /\ pc' = "done"
          /\ UNCHANGED <<op, files, full>>
     \/ /\ vacant = {} /\ Ends(op.dir) /\ AllocCluster = {}
        /\ NoWrite
        /\ Fail
     \/ /\ vacant = {} /\ Ends(op.dir)
        /\ \E c \in AllocCluster :
             /\ SetFATEntry(Last(Chain(op.dir)), c)
             /\ op' = [op EXCEPT !.grown = c]
             /\ pc' = "grow"
        /\ UNCHANGED <<content, files, full>>
  /\ UNCHANGED crashes

Grow ==
  /\ pc = "grow"
  /\ SetFATEntry(op.grown, EndOfChain)
  /\ pc' = "fill"
  /\ UNCHANGED <<content, op, files, faults>>

Fill ==
  /\ pc = "fill"
  /\ WriteCluster(op.grown,
       [k \in 1..WordsPer |-> IF k = 1 THEN NewEntry ELSE Zero])
  /\ pc' = "done"
  /\ UNCHANGED <<op, files, faults>>

Finish ==
  /\ pc = "done"
  /\ NoWrite
  /\ Done
  /\ UNCHANGED faults

\* The machine stops.  Of the file the call was about nothing is promised.
Crash ==
  /\ crashes < MaxCrashes
  /\ pc \notin {"idle", "mount"}
  /\ crashes' = crashes + 1
  /\ mirror' = NoMirror
  /\ pc' = "mount"
  /\ op' = NoOp
  /\ files' = IF op.kind = "mkdir" THEN files ELSE Forget(op.path)
  /\ UNCHANGED <<disk, full>>

\* Mount only reads: nothing is repaired.
Mount ==
  /\ pc = "mount"
  /\ pc' = "idle"
  /\ UNCHANGED <<disk, mirror, op, files, faults>>

Next ==
  \/ WriteFile \/ CopyOrMove \/ DeleteFile \/ MakeDir
  \/ Free \/ Alloc \/ WriteData \/ Link \/ Seal \/ LastCluster
  \/ Unlink \/ WriteDots \/ Enter \/ Grow \/ Fill \/ Finish
  \/ Mirror \/ Crash \/ Mount

Spec == Init /\ [][Next]_vars
-----------------------------------------------------------------------------
(***************************************************************************)
(* Properties.                                                             *)
(***************************************************************************)

Idle == pc = "idle" /\ mirror = NoMirror

\* The entries of the root and of the directories in it.
Entries ==
  LET In(dir) == {e \in Range(Words(dir)) : IsEntry(e)}
  IN  In(Root) \cup UNION {In(e.cluster) : e \in {x \in In(Root) : x.dir}}

\* Every completed call keeps its effect, on a full disk too: a file reads back
\* as it was last written, copied or moved, and a deleted file is gone.  And
\* "Write a file, reboot, and verify persistence": wherever the machine stops, the
\* next mount finds the effect of all completed calls, but for the file the
\* interrupted call was about (docs 6.1, fat32.cpp:406-457, syscall.cpp:247-263).
\* A later write to that one file may still free clusters which have been given
\* to another.
ReadBack ==
  (crashes = 0 /\ Idle) \/ pc = "mount" =>
    \A p \in DOMAIN files : ReadFile(p) = files[p]

\* Between calls every cluster on the chain of an entry or of the root is in use
\* and on no other chain, and as long as no call has failed no other cluster is
\* in use: nothing is shared and nothing leaks.  The second copy of the table says
\* the same as the first, and entry 0 is still reserved (fat32.cpp:188-228, 406-457).
ClustersAccounted ==
  crashes = 0 /\ Idle =>
    LET heads == {Root} \cup {e.cluster : e \in Entries}
        On(h) == Range(Chain(h))
        chained == UNION {On(h) : h \in heads}
        taken == {c \in 2..(Clusters - 1) : fat1[c] # 0}
    IN  /\ fat2 = fat1 /\ fat1[0] = EndOfChain
        /\ chained \subseteq taken
        /\ ~full => taken \subseteq chained
        /\ \A g, h \in heads : g # h => On(g) \cap On(h) = {}

\* Wherever the machine stops, every loop over NextCluster ends, unless the chain
\* runs through a free cluster to entry 0 and AddDirEntry has linked a new cluster
\* to that entry, which is reserved: no other chain runs in a circle
\* (fat32.cpp:130, 165, 287, 317, 420, 451).
ChainsEnd ==
  \A c \in 2..(Clusters - 1) :
    Ends(c) \/ (0 \in Range(Chain(c)) /\ fat1[0] # EndOfChain)
=============================================================================
