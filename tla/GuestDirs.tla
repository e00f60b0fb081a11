------------------------------ MODULE GuestDirs ------------------------------
(***************************************************************************)
(* Directory streams over the guest's files (runtime/gcc/directories.c and *)
(* cs_gcc_fs_directory_next).  A stream keeps a path and a cursor into the *)
(* table of objects; files come and go while it is read.                   *)
(***************************************************************************)
EXTENDS GuestFiles

CONSTANT Readers  \* the streams a program may have open

VARIABLES streams,  \* the open streams: [path, cursor], or NoStream
          scan      \* of each stream since it was opened or rewound: what it
                    \* returned, whether it came to its end, whether any name
                    \* changed, and the files that were there all the time

dirVars == <<objects, handles, directories, openDirectories, reply, streams, scan>>

NoStream == [path |-> NoName, cursor |-> 0]

(* The component that makes the object in slot i an entry of base.         *)
IsChild(base, i) == objects[i].linked /\ IsStrictPrefix(base, objects[i].name)
Part(base, i) == objects[i].name[Len(base) + 1]

(* Mutant: only neighbouring slots are compared.                           *)
ListedOfNeighbours(base, i) ==
  /\ IsChild(base, i)
  /\ i - 1 \in Slots /\ IsChild(base, i - 1) => Part(base, i - 1) # Part(base, i)

(* The slots that cs_gcc_fs_directory_next does not skip.                  *)
Listed(base, i) ==
  /\ IsChild(base, i)
  /\ \A j \in 0 .. (i - 1) : IsChild(base, j) => Part(base, j) # Part(base, i)

(* A file that nothing lies below.                                         *)
Plain(i) == objects[i].linked /\ Below(objects[i].name) = {}

NewScan == [seen |-> <<>>, ended |-> FALSE, calm |-> TRUE,
            kept |-> {i \in Slots : Plain(i)}]
NoScan == [seen |-> <<>>, ended |-> FALSE, calm |-> FALSE, kept |-> {}]

(* The scans go on while the files change.                                 *)
Observed ==
  scan' = [r \in Readers |->
    [scan[r] EXCEPT
       !.calm = @ /\ \A i \in Slots : /\ objects'[i].name = objects[i].name
                                      /\ objects'[i].linked = objects[i].linked,
       !.kept = {i \in @ : /\ objects'[i].name = objects[i].name
                           /\ Plain(i)'}]]

DirInit == /\ Init
           /\ streams = [r \in Readers |-> NoStream]
           /\ scan = [r \in Readers |-> NoScan]

Files == FileCall /\ Observed /\ UNCHANGED streams

(* opendir: the stream is there only if the directory is.                  *)
Opendir(r, raw) ==
  /\ streams[r] = NoStream
  /\ \/ Refused("ENOMEM") /\ UNCHANGED <<streams, scan>>
     \/ /\ DirectoryOpen(raw)
        /\ IF reply'.failed
           THEN UNCHANGED <<streams, scan>>
           ELSE /\ streams' = [streams EXCEPT ![r] = [path |-> raw, cursor |-> 0]]
                /\ scan' = [scan EXCEPT ![r] = NewScan]

(* Mutant: the cursor counts the entries.                                  *)
CursorCounts(r, i) == streams[r].cursor + 1

(* Where the cursor goes after an entry of slot i.                         *)
CursorAfter(r, i) == i + 1

(* readdir: the first entry at or after the cursor that no slot before it  *)
(* has too; a directory that cannot be numbered is an error, and the       *)
(* cursor stays.                                                           *)
Readdir(r) ==
  LET base == Normalized(streams[r].path)
      listed == {i \in Slots : i >= streams[r].cursor /\ Listed(base, i)}
      i == First(listed)
      entry == [name |-> Part(base, i),
                directory |-> Len(objects[i].name) > Len(base) + 1]
      numbers == IF entry.directory THEN InodeOutcomes(Append(base, entry.name))
                 ELSE {[errno |-> "none", inode |-> i + 1, table |-> directories]}
  IN  /\ streams[r] # NoStream
      /\ UNCHANGED <<objects, handles, openDirectories>>
      /\ \/ /\ listed = {}
            /\ streams' = [streams EXCEPT ![r].cursor = FilesMax]
            /\ scan' = [scan EXCEPT ![r].ended = TRUE]
            /\ UNCHANGED directories
            /\ Returns(<<>>)
         \/ /\ listed # {}
            /\ \E o \in numbers :
                 /\ directories' = o.table
                 /\ \/ o.errno # "none" /\ Fails(o.errno) /\ UNCHANGED <<streams, scan>>
                    \/ /\ o.errno = "none"
                       /\ streams' = [streams EXCEPT ![r].cursor = CursorAfter(r, i)]
                       /\ scan' = [scan EXCEPT ![r].seen = Append(@, entry)]
                       /\ Returns(<<>>)

Closedir(r) == /\ streams[r] # NoStream
               /\ DirectoryClose
               /\ streams' = [streams EXCEPT ![r] = NoStream]
               /\ scan' = [scan EXCEPT ![r] = NoScan]

Rewinddir(r) == /\ streams[r] # NoStream
                /\ streams' = [streams EXCEPT ![r].cursor = 0]
                /\ scan' = [scan EXCEPT ![r] = NewScan]
                /\ UNCHANGED fileVars

(* seekdir: what is read from another cursor is no whole scan.             *)
Seekdir(r, position) ==
  /\ streams[r] # NoStream
  /\ UNCHANGED fileVars
  /\ IF position < 0 \/ position > FilesMax
     THEN UNCHANGED <<streams, scan>>
     ELSE /\ streams' = [streams EXCEPT ![r].cursor = position]
          /\ scan' = [scan EXCEPT ![r] = NoScan]

DirNext == \/ Files
           \/ \E r \in Readers :
                \/ Readdir(r) \/ Closedir(r) \/ Rewinddir(r)
                \/ \E position \in -1 .. (FilesMax + 1) : Seekdir(r, position)
                \/ \E raw \in RawPaths : Opendir(r, raw)

DirSpec == DirInit /\ [][DirNext]_dirVars
-----------------------------------------------------------------------------
ReturnedTimes(r, name) ==
  Cardinality({k \in DOMAIN scan[r].seen : scan[r].seen[k].name = name})

(* A scan that nobody disturbs returns every entry once and nothing else.  *)
ScanIsExact ==
  \A r \in Readers :
    LET base == Normalized(streams[r].path)
        entries == {Part(base, i) : i \in {j \in Slots : IsChild(base, j)}}
    IN  streams[r] # NoStream /\ scan[r].calm =>
          /\ \A k \in DOMAIN scan[r].seen : scan[r].seen[k].name \in entries
          /\ \A name \in entries : /\ ReturnedTimes(r, name) <= 1
                                   /\ scan[r].ended => ReturnedTimes(r, name) = 1

(* Whatever else is created and unlinked during a scan, a file that was    *)
(* there from its start to its end is returned once.                       *)
FilesSeenOnce ==
  \A r \in Readers :
    LET base == Normalized(streams[r].path)
    IN  streams[r] # NoStream /\ scan[r].ended =>
          \A i \in scan[r].kept :
            IsChild(base, i) /\ Len(objects[i].name) = Len(base) + 1 =>
              ReturnedTimes(r, Part(base, i)) = 1

(* doc/gcc_space.md: an implicit subdirectory is returned once.            *)
SubdirectoriesOnce ==
  \A r \in Readers : \A j, k \in DOMAIN scan[r].seen :
    scan[r].seen[j].directory /\ scan[r].seen[j] = scan[r].seen[k] => j = k

(* tests/fixtures/gcc/files.c: a directory of the input files cannot be    *)
(* opened, so that no file ever takes its name.                            *)
DirectoriesStay ==
  \A i \in Slots : objects[i].readonly =>
    \A j \in Slots : ~objects[j].readonly =>
      ~(objects[j].linked /\ IsStrictPrefix(objects[j].name, objects[i].name))
=============================================================================
