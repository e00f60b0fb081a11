----------------------------- MODULE GuestFiles -----------------------------
(***************************************************************************)
(* The files a guest program sees (runtime/gcc/files.c): a table of        *)
(* objects, a table of descriptors and a table that numbers directories.   *)
(* An action is one call of cs_gcc_fs_*.  Paths are sequences of           *)
(* components; the empty path string, which every call refuses like a path *)
(* above the root, is not one of them.                                     *)
(***************************************************************************)
EXTENDS Integers, Sequences, FiniteSets, SequencesExt

CONSTANTS FilesMax,  \* CC_FILES_MAX
          FdCount,   \* FD_COUNT
          PathMax,   \* the components a normalized path has room for
          SizeMax,   \* INT_MAX
          OpenMax,   \* UINT_MAX, of open_directories
          RawPaths,  \* the paths callers pass
          FlagSets,  \* the flags they open with
          Counts,    \* how many bytes they read
          Texts,     \* what they write
          Offsets,   \* how far they seek
          AccessModes, \* what they ask access for: [write, execute]
          Packets,   \* what they mount: [valid, files]
          Bytes, Zero, Junk  \* bytes; the byte 0; what fresh memory holds

Flags == {"read", "write", "create", "trunc", "append", "excl", "other"}

ASSUME FilesAssumption ==
  /\ FilesMax \in Nat \ {0} /\ FdCount \in Nat /\ FdCount >= 3
  /\ PathMax \in Nat /\ SizeMax \in Nat /\ OpenMax \in Nat
  /\ FlagSets \subseteq SUBSET Flags
  /\ Counts \subseteq Nat /\ Offsets \subseteq Int
  /\ Zero \in Bytes /\ Junk \notin Bytes
  /\ Texts \subseteq Seq(Bytes)

(* Components are what stands between separators; the names of a packet    *)
(* that cc_files_decode accepts are normalized, and no two are equal.      *)
ASSUME PathsAssumption ==
  /\ \A raw \in RawPaths : /\ raw \in Seq(STRING)
                            /\ \A k \in DOMAIN raw : raw[k] \notin {"", "/"}
  /\ \A packet \in Packets : packet.valid =>
       /\ packet.files \in Seq([name : Seq(STRING), bytes : Seq(Bytes)])
       /\ Len(packet.files) <= FilesMax
       /\ \A j, k \in 1 .. Len(packet.files) :
            /\ packet.files[j].name # <<>>
            /\ \A c \in DOMAIN packet.files[j].name :
                 packet.files[j].name[c] \notin {"", "/", ".", ".."}
            /\ packet.files[j].name = packet.files[k].name => j = k

VARIABLES objects,          \* files by slot
          handles,          \* open files by descriptor
          directories,      \* the directory each number stands for
          openDirectories,  \* open_directories
          reply             \* what the last call returned

fileVars == <<objects, handles, directories, openDirectories, reply>>

Slots == 0 .. (FilesMax - 1)
Fds == 3 .. (FdCount - 1)

(* The first slot of a set, as the loops over the tables find it.          *)
First(S) == CHOOSE i \in S : \A j \in S : i <= j
-----------------------------------------------------------------------------
NoName == <<"/">>
Above == <<"..">>      \* a path that leaves the root
TooLong == <<"">>      \* a path that has no room

(* normalize: one component after the other.                               *)
Step(path, part) ==
  IF path \in {Above, TooLong} \/ part = "." THEN path
  ELSE IF part = ".." THEN IF path = <<>> THEN Above ELSE Front(path)
  ELSE IF Len(path) < PathMax THEN Append(path, part) ELSE TooLong

Normalized(raw) ==
  LET path[k \in 0 .. Len(raw)] ==
        IF k = 0 THEN <<>> ELSE Step(path[k - 1], raw[k])
  IN  path[Len(raw)]

PathError(name) == IF name = Above THEN "ENOENT"
                   ELSE IF name = TooLong THEN "ENAMETOOLONG" ELSE "none"

NoObject == [name |-> NoName, linked |-> FALSE, readonly |-> FALSE,
             size |-> 0, cells |-> <<>>, references |-> 0]

NoHandle == [object |-> -1, position |-> 0, flags |-> {}]

Init == /\ objects = [i \in Slots |-> NoObject]
        /\ handles = [d \in Fds |-> NoHandle]
        /\ directories = [i \in Slots |-> NoName]
        /\ openDirectories = 0
        /\ reply = [failed |-> FALSE, bytes |-> <<>>]

Returns(bytes) == reply' = [failed |-> FALSE, bytes |-> bytes]

(* A call that is refused leaves everything as it was; that it failed is   *)
(* remembered, but not which errno e it set.                               *)
Fails(e) == /\ reply' = [failed |-> e # "none", bytes |-> <<>>]
            /\ UNCHANGED <<objects, handles, openDirectories>>

Refused(e) == Fails(e) /\ UNCHANGED directories

(* lookup and the search for what lies below a name.                       *)
Lookup(name) == {i \in Slots : objects[i].name = name /\ objects[i].linked}

Below(name) == {i \in Slots : /\ objects[i].linked
                              /\ IsStrictPrefix(name, objects[i].name)}

(* directory_inode: a directory keeps its number until the next mount.  The *)
(* outcomes, with the table they leave.                                    *)
InodeOutcomes(name) ==
  LET known == {i \in Slots : directories[i] = name}
      free == {i \in Slots : directories[i] = NoName}
      given(i, table) == [errno |-> "none", inode |-> FilesMax + 1 + i, table |-> table]
      refused(e) == [errno |-> e, inode |-> 0, table |-> directories]
  IN  IF known # {} THEN {given(First(known), directories)}
      ELSE IF free = {} THEN {refused("ENFILE")}
      ELSE {given(First(free), [directories EXCEPT ![First(free)] = name]),
            refused("ENOMEM")}

(* cs_gcc_fs_stat: a file, else a directory that something lies below.     *)
StatOutcomes(name) ==
  IF Lookup(name) # {}
  THEN {[errno |-> "none", directory |-> FALSE,
         inode |-> First(Lookup(name)) + 1, table |-> directories]}
  ELSE IF name = <<>> \/ Below(name) # {}
  THEN {[errno |-> o.errno, directory |-> TRUE,
         inode |-> o.inode, table |-> o.table] : o \in InodeOutcomes(name)}
  ELSE {[errno |-> "ENOENT", directory |-> FALSE, inode |-> 0, table |-> directories]}

Stat(raw) ==
  LET name == Normalized(raw)
  IN  \/ PathError(name) # "none" /\ Refused(PathError(name))
      \/ /\ PathError(name) = "none"
         /\ \E st \in StatOutcomes(name) :
              /\ Fails(st.errno)
              /\ directories' = st.table
-----------------------------------------------------------------------------
(* cs_gcc_fs_mount: refused while anything is open; a packet that cannot   *)
(* be decoded or held changes nothing; otherwise all files are replaced.   *)
Mounted(files) ==
  [i \in Slots |->
     IF i < Len(files)
     THEN [name |-> files[i + 1].name, linked |-> TRUE, readonly |-> TRUE,
           size |-> Len(files[i + 1].bytes), cells |-> files[i + 1].bytes,
           references |-> 0]
     ELSE NoObject]

Busy == openDirectories # 0 \/ \E d \in Fds : handles[d] # NoHandle

Mount(packet) ==
  \/ Busy /\ Refused("EBUSY")
  \/ ~Busy /\ ~packet.valid /\ Refused("EINVAL")
  \/ /\ ~Busy /\ packet.valid
     /\ \E i \in 1 .. Len(packet.files) : Len(packet.files[i].bytes) > SizeMax
     /\ Refused("EFBIG")
  \/ /\ ~Busy /\ packet.valid
     /\ \A i \in 1 .. Len(packet.files) : Len(packet.files[i].bytes) <= SizeMax
     /\ \/ Refused("ENOMEM")
        \/ /\ objects' = Mounted(packet.files)
           /\ directories' = [i \in Slots |-> NoName]
           /\ Returns(<<>>)
           /\ UNCHANGED <<handles, openDirectories>>

(* cs_gcc_fs_open.                                                         *)
BadFlags(flags) == \/ "other" \in flags
                   \/ flags \cap {"read", "write"} = {}
                   \/ flags \cap {"trunc", "append"} # {} /\ "write" \notin flags

(* Mutant: an input file is opened whatever it is opened for.              *)
OpenErrorNotReadonly(name, flags, st) ==
  LET found == Lookup(name)
  IN  IF st.errno = "none" /\ st.directory THEN "EISDIR"
      ELSE IF found = {} THEN "ENOENT"
      ELSE IF \A d \in Fds : handles[d] # NoHandle THEN "EMFILE"
      ELSE "none"

(* The first of the checks that a call does not pass.                      *)
OpenError(name, flags, st) ==
  LET found == Lookup(name)
  IN  IF st.errno = "none" /\ st.directory THEN "EISDIR"
      ELSE IF found # {} /\ {"create", "excl"} \subseteq flags THEN "EEXIST"
      ELSE IF found # {} /\ objects[First(found)].readonly /\ "write" \in flags
      THEN "EACCES"
      ELSE IF found = {} /\ "create" \notin flags THEN "ENOENT"
      ELSE IF \A d \in Fds : handles[d] # NoHandle THEN "EMFILE"
      ELSE IF found = {} /\ \A i \in Slots : objects[i].name # NoName THEN "ENFILE"
      ELSE "none"

(* Slot i, whose object is obj by now, is opened.                          *)
Opens(i, obj, flags) ==
  LET fd == First({d \in Fds : handles[d] = NoHandle})
  IN  /\ objects' = [objects EXCEPT ![i] =
                       [obj EXCEPT !.size = IF "trunc" \in flags THEN 0 ELSE @,
                                   !.references = @ + 1]]
      /\ handles' = [handles EXCEPT ![fd] =
                       [object |-> i, position |-> 0, flags |-> flags]]
      /\ UNCHANGED openDirectories
      /\ Returns(<<>>)

Open(raw, flags) ==
  LET name == Normalized(raw)
      free == {i \in Slots : objects[i].name = NoName}
  IN  \/ BadFlags(flags) /\ Refused("EINVAL")
      \/ ~BadFlags(flags) /\ PathError(name) # "none" /\ Refused(PathError(name))
      \/ /\ ~BadFlags(flags) /\ PathError(name) = "none"
         /\ \E st \in StatOutcomes(name) :
              /\ directories' = st.table
              /\ LET error == OpenError(name, flags, st)
                     found == Lookup(name)
                 IN  \/ error # "none" /\ Fails(error)
                     \/ /\ error = "none" /\ found # {}
                        /\ Opens(First(found), objects[First(found)], flags)
                     \/ error = "none" /\ found = {} /\ Fails("ENOMEM")
                     \/ /\ error = "none" /\ found = {}
                        /\ LET obj == objects[First(free)]
                           IN  Opens(First(free),
                                     [obj EXCEPT !.name = name, !.linked = TRUE],
                                     flags)

(* release, when neither a name nor a descriptor is left.                  *)
Released(obj) == IF ~obj.linked /\ obj.references = 0 THEN NoObject ELSE obj

Close(d) ==
  LET i == handles[d].object
      obj == objects[i]
  IN  \/ handles[d] = NoHandle /\ Refused("EBADF")
      \/ /\ handles[d] # NoHandle
         /\ handles' = [handles EXCEPT ![d] = NoHandle]
         /\ objects' = [objects EXCEPT ![i] =
                          Released([obj EXCEPT !.references = @ - 1])]
         /\ Returns(<<>>)
         /\ UNCHANGED <<directories, openDirectories>>

Read(d, count) ==
  LET h == handles[d]
      obj == objects[h.object]
      left == IF h.position < obj.size THEN obj.size - h.position ELSE 0
      got == IF count < left THEN count ELSE left
  IN  \/ (h = NoHandle \/ "read" \notin h.flags) /\ Refused("EBADF")
      \/ h # NoHandle /\ "read" \in h.flags /\ count > SizeMax /\ Refused("EINVAL")
      \/ /\ h # NoHandle /\ "read" \in h.flags /\ count <= SizeMax
         /\ Returns(SubSeq(obj.cells, h.position + 1, h.position + got))
         /\ handles' = [handles EXCEPT ![d].position = @ + got]
         /\ UNCHANGED <<objects, directories, openDirectories>>

(* realloc to at least `end' cells, the fresh ones holding anything; then   *)
(* the gap is cleared and the text put in.                                 *)
Grown(cells, end) ==
  [j \in 1 .. (IF end > Len(cells) THEN end ELSE Len(cells)) |->
     IF j <= Len(cells) THEN cells[j] ELSE Junk]

(* Mutant: a gap keeps what the memory held.                               *)
FilledWithGap(obj, position, text) ==
  LET end == position + Len(text)
      grown == Grown(obj.cells, end)
  IN  [obj EXCEPT
        !.cells = [j \in 1 .. Len(grown) |->
                     IF position < j /\ j <= end THEN text[j - position]
                     ELSE grown[j]],
        !.size = IF end > @ THEN end ELSE @]

Filled(obj, position, text) ==
  LET end == position + Len(text)
      grown == Grown(obj.cells, end)
  IN  [obj EXCEPT
        !.cells = [j \in 1 .. Len(grown) |->
                     IF position < j /\ j <= end THEN text[j - position]
                     ELSE IF obj.size < j /\ j <= position THEN Zero
                     ELSE grown[j]],
        !.size = IF end > @ THEN end ELSE @]

Write(d, text) ==
  LET h == handles[d]
      obj == objects[h.object]
      position == IF "append" \in h.flags THEN obj.size ELSE h.position
  IN  \/ (h = NoHandle \/ "write" \notin h.flags) /\ Refused("EBADF")
      \/ /\ h # NoHandle /\ "write" \in h.flags
         /\ \/ Len(text) > SizeMax /\ Refused("EINVAL")
            \/ text = <<>> /\ Refused("none")
            \/ /\ text # <<>> /\ Len(text) <= SizeMax
               /\ Len(text) > SizeMax - position
               /\ Refused("EFBIG")
            \/ /\ Len(text) <= SizeMax - position
               /\ position + Len(text) > Len(obj.cells)
               /\ Refused("ENOMEM")
            \/ /\ text # <<>> /\ Len(text) <= SizeMax - position
               /\ objects' = [objects EXCEPT ![h.object] = Filled(@, position, text)]
               /\ handles' = [handles EXCEPT ![d].position = position + Len(text)]
               /\ Returns(<<>>)
               /\ UNCHANGED <<directories, openDirectories>>

Seek(d, offset, origin) ==
  LET h == handles[d]
      base == CASE origin = 0 -> 0
                [] origin = 1 -> h.position
                [] origin = 2 -> objects[h.object].size
  IN  \/ h = NoHandle /\ Refused("EBADF")
      \/ h # NoHandle /\ origin \notin 0 .. 2 /\ Refused("EINVAL")
      \/ /\ h # NoHandle /\ origin \in 0 .. 2
         /\ offset < -base \/ offset > SizeMax - base
         /\ Refused("EINVAL")
      \/ /\ h # NoHandle /\ origin \in 0 .. 2
         /\ offset >= -base /\ offset <= SizeMax - base
         /\ handles' = [handles EXCEPT ![d].position = base + offset]
         /\ Returns(<<>>)
         /\ UNCHANGED <<objects, directories, openDirectories>>

(* Mutant: the object goes with its name, whoever has it open.             *)
UnlinkAtOnce(raw) ==
  /\ Lookup(Normalized(raw)) # {}
  /\ LET i == First(Lookup(Normalized(raw)))
     IN  ~objects[i].readonly /\ objects' = [objects EXCEPT ![i] = NoObject]
  /\ UNCHANGED <<handles, openDirectories, directories>>
  /\ Returns(<<>>)

Unlink(raw) ==
  LET name == Normalized(raw)
      found == Lookup(name)
      i == First(found)
  IN  \/ PathError(name) # "none" /\ Refused(PathError(name))
      \/ /\ PathError(name) = "none"
         /\ \/ found = {} /\ Refused("ENOENT")
            \/ found # {} /\ objects[i].readonly /\ Refused("EACCES")
            \/ /\ found # {} /\ ~objects[i].readonly
               /\ objects' = [objects EXCEPT ![i] = Released([@ EXCEPT !.linked = FALSE])]
               /\ Returns(<<>>)
               /\ UNCHANGED <<handles, directories, openDirectories>>

(* cs_gcc_fs_replace_owned, with a buffer that is the object's own or not.  *)
ReplaceOwned(raw, text, own) ==
  LET name == Normalized(raw)
      found == Lookup(name)
      i == First(found)
  IN  \/ Len(text) > SizeMax /\ Refused("EFBIG")
      \/ Len(text) <= SizeMax /\ PathError(name) # "none" /\ Refused(PathError(name))
      \/ /\ Len(text) <= SizeMax /\ PathError(name) = "none"
         /\ \/ found = {} /\ Refused("ENOENT")
            \/ found # {} /\ objects[i].readonly /\ Refused("EACCES")
            \/ /\ found # {} /\ ~objects[i].readonly
               /\ objects[i].references # 0
               /\ Refused("EBUSY")
            \/ /\ found # {} /\ ~objects[i].readonly /\ objects[i].references = 0
               /\ \/ own /\ Refused("EINVAL")
                  \/ /\ ~own
                     /\ objects' = [objects EXCEPT ![i].cells = text,
                                                   ![i].size = Len(text)]
                     /\ Returns(<<>>)
                     /\ UNCHANGED <<handles, directories, openDirectories>>

(* cs_gcc_fs_directory_open, for a caller that keeps the path.             *)
DirectoryOpen(raw) ==
  LET name == Normalized(raw)
  IN  \/ PathError(name) # "none" /\ Refused(PathError(name))
      \/ /\ PathError(name) = "none"
         /\ \E st \in StatOutcomes(name) :
              /\ directories' = st.table
              /\ \/ st.errno # "none" /\ Fails(st.errno)
                 \/ st.errno = "none" /\ ~st.directory /\ Fails("ENOTDIR")
                 \/ /\ st.errno = "none" /\ st.directory
                    /\ openDirectories = OpenMax /\ Fails("EMFILE")
                 \/ /\ st.errno = "none" /\ st.directory
                    /\ openDirectories # OpenMax
                    /\ openDirectories' = openDirectories + 1
                    /\ Returns(<<>>)
                    /\ UNCHANGED <<objects, handles>>

DirectoryClose == /\ openDirectories' = IF openDirectories # 0
                                        THEN openDirectories - 1 ELSE 0
                  /\ Returns(<<>>)
                  /\ UNCHANGED <<objects, handles, directories>>

(* The calls that only ask: cs_gcc_fs_fstat, _access and _output.          *)
Fstat(d) == Refused(IF handles[d] = NoHandle THEN "EBADF" ELSE "none")

Access(raw, write, execute) ==
  LET name == Normalized(raw)
  IN  \/ PathError(name) # "none" /\ Refused(PathError(name))
      \/ /\ PathError(name) = "none"
         /\ \E st \in StatOutcomes(name) :
              /\ directories' = st.table
              /\ Fails(IF st.errno = "none" /\ ~st.directory
                          /\ (execute \/ (write /\ objects[First(Lookup(name))].readonly))
                       THEN "EACCES" ELSE st.errno)

Output(raw) ==
  LET name == Normalized(raw)
      found == Lookup(name)
  IN  \/ PathError(name) # "none" /\ Refused(PathError(name))
      \/ PathError(name) = "none" /\ found = {} /\ Refused("ENOENT")
      \/ /\ PathError(name) = "none" /\ found # {}
         /\ Returns(SubSeq(objects[First(found)].cells, 1, objects[First(found)].size))
         /\ UNCHANGED <<objects, handles, directories, openDirectories>>

FileCall ==
  \/ \E packet \in Packets : Mount(packet)
  \/ \E raw \in RawPaths :
       \/ Stat(raw) \/ Unlink(raw) \/ Output(raw)
       \/ \E flags \in FlagSets : Open(raw, flags)
       \/ \E text \in Texts, own \in BOOLEAN : ReplaceOwned(raw, text, own)
       \/ \E m \in AccessModes : Access(raw, m.write, m.execute)
  \/ \E d \in Fds :
       \/ Close(d) \/ Fstat(d)
       \/ \E count \in Counts : Read(d, count)
       \/ \E text \in Texts : Write(d, text)
       \/ \E offset \in Offsets, origin \in 0 .. 3 : Seek(d, offset, origin)

Next == FileCall \/ DirectoryClose \/ \E raw \in RawPaths : DirectoryOpen(raw)

Spec == Init /\ [][Next]_fileVars
-----------------------------------------------------------------------------
Names == {Normalized(raw) : raw \in RawPaths} \ {Above, TooLong}

(* The references of an object are its descriptors, an object is in use    *)
(* exactly while a name or a descriptor leads to it, and no two names are  *)
(* equal: nothing is released early, twice or never.                       *)
NoDangling ==
  \A i \in Slots :
    LET users == {d \in Fds : handles[d].object = i}
        obj == objects[i]
    IN  /\ obj.references = Cardinality(users)
        /\ obj = NoObject <=> (users = {} /\ ~obj.linked)
        /\ obj.linked => \A j \in Slots : objects[j].linked /\ objects[j].name = obj.name
                                            => j = i

(* While a program has anything open, the input files of its job stay what *)
(* they are: no open, write, unlink, replacement or mount changes them.    *)
InputsStay ==
  [][Busy => \A i \in Slots :
       objects[i].readonly =>
         objects'[i] = [objects[i] EXCEPT !.references = objects'[i].references]]_fileVars

(* The slots, counts and buffers are invisible: a program sees a tree of   *)
(* names and files with contents of their own.                             *)
NamedFiles == [name \in {objects[i].name : i \in {j \in Slots : objects[j].linked}} |->
                 First(Lookup(name))]
InputFiles == {i \in Slots : objects[i].readonly}
Held(obj) == SubSeq(obj.cells, 1, obj.size)
Contents == [i \in Slots |-> Held(objects[i])]
OpenFiles == [d \in {e \in Fds : handles[e] # NoHandle} |->
                [file |-> handles[d].object, position |-> handles[d].position,
                 flags |-> handles[d].flags]]

Tree == INSTANCE FileTree WITH
          FileIds <- Slots, tree <- NamedFiles, inputs <- InputFiles,
          content <- Contents, fds <- OpenFiles, reply <- reply.bytes

ImplementsTree == Tree!Spec
=============================================================================
