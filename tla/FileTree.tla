------------------------------ MODULE FileTree ------------------------------
(***************************************************************************)
(* What the guest's files promise a program (doc/gcc_space.md): a tree of  *)
(* names, contents that outlive their name while they are open, open files *)
(* with a position of their own, and gaps that read as zeros.  There are   *)
(* no slots, no reference counts and no buffers.                           *)
(***************************************************************************)
EXTENDS Integers, Sequences, SequencesExt

CONSTANTS FileIds,  \* the files there can be at a time
          Fds,      \* the descriptors there can be at a time
          Names,    \* the names files can have
          FlagSets, \* the flags a file may be opened with
          SizeMax,  \* the largest size of a file
          Counts,   \* how many bytes may be asked for
          Texts,    \* what may be written
          Offsets,  \* how far a position may be moved
          Zero      \* the byte 0

VARIABLES tree,     \* the file of each name there is
          inputs,   \* the files that may only be read
          content,  \* the bytes of each file
          fds,      \* the open files: [file, position, flags]
          reply     \* the bytes the last call delivered

treeVars == <<tree, inputs, content, fds, reply>>

Opened == {fds[d].file : d \in DOMAIN fds}
Named == {tree[p] : p \in DOMAIN tree}

(* The content after text was written at position.                         *)
Written(data, position, text) ==
  LET end == position + Len(text)
  IN  [j \in 1 .. Max({Len(data), end}) |->
         IF position < j /\ j <= end THEN text[j - position]
         ELSE IF j <= Len(data) THEN data[j] ELSE Zero]

Init == /\ tree = <<>> /\ inputs = {}
        /\ content = [f \in FileIds |-> <<>>]
        /\ fds = <<>>
        /\ reply = <<>>

(* A new job: only when nothing is open.  Its files replace all others.    *)
Mount == /\ fds = <<>>
         /\ inputs' = {tree'[p] : p \in DOMAIN tree'}
         /\ \A p, q \in DOMAIN tree' : p # q => tree'[p] # tree'[q]
         /\ \A f \in FileIds \ inputs' : content'[f] = <<>>
         /\ UNCHANGED fds
         /\ reply' = <<>>

(* The lowest free descriptor is given out; a new file is empty, and is    *)
(* none that has a name or is still open.                                  *)
Open(p, flags) ==
  \E d \in Fds \ DOMAIN fds, f \in FileIds :
    /\ \A e \in Fds \ DOMAIN fds : d <= e
    /\ fds' = [e \in DOMAIN fds \cup {d} |->
                 IF e = d THEN [file |-> f, position |-> 0, flags |-> flags]
                          ELSE fds[e]]
    /\ \/ /\ p \in DOMAIN tree /\ f = tree[p]
          /\ ~({"create", "excl"} \subseteq flags)
          /\ f \in inputs => "write" \notin flags
          /\ content' = IF "trunc" \in flags THEN [content EXCEPT ![f] = <<>>]
                                             ELSE content
          /\ UNCHANGED tree
       \/ /\ p \notin DOMAIN tree
          /\ f \notin Named \cup Opened
          /\ "create" \in flags
          /\ content[f] = <<>>
          /\ tree' = [q \in DOMAIN tree \cup {p} |-> IF q = p THEN f ELSE tree[q]]
          /\ UNCHANGED content
    /\ UNCHANGED inputs
    /\ reply' = <<>>

(* A file that has neither a name nor a descriptor is gone.                *)
Kept(f) == f \in {tree'[p] : p \in DOMAIN tree'} \cup {fds'[d].file : d \in DOMAIN fds'}

Close(d) == /\ d \in DOMAIN fds
            /\ fds' = [e \in DOMAIN fds \ {d} |-> fds[e]]
            /\ UNCHANGED <<tree, inputs>>
            /\ content' = [f \in FileIds |-> IF Kept(f) THEN content[f] ELSE <<>>]
            /\ reply' = <<>>

Unlink(p) == /\ p \in DOMAIN tree
             /\ tree[p] \notin inputs
             /\ tree' = [q \in DOMAIN tree \ {p} |-> tree[q]]
             /\ UNCHANGED <<inputs, fds>>
             /\ content' = [f \in FileIds |-> IF Kept(f) THEN content[f] ELSE <<>>]
             /\ reply' = <<>>

Read(d, count) ==
  /\ d \in DOMAIN fds /\ "read" \in fds[d].flags
  /\ LET h == fds[d]
         end == Min({h.position + count, Len(content[h.file])})
     IN  /\ reply' = SubSeq(content[h.file], h.position + 1, end)
         /\ fds' = [fds EXCEPT ![d].position = Max({@, end})]
  /\ UNCHANGED <<tree, inputs, content>>

Write(d, text) ==
  /\ d \in DOMAIN fds /\ "write" \in fds[d].flags
  /\ LET h == fds[d]
         position == IF "append" \in h.flags THEN Len(content[h.file])
                                             ELSE h.position
         end == position + Len(text)
     IN  /\ end <= SizeMax
         /\ content' = [content EXCEPT ![h.file] = Written(@, position, text)]
         /\ fds' = [fds EXCEPT ![d].position = end]
  /\ UNCHANGED <<tree, inputs>>
  /\ reply' = <<>>

Seek(d) == /\ d \in DOMAIN fds
           /\ LET h == fds[d]
              IN  \E base \in {0, h.position, Len(content[h.file])}, o \in Offsets :
                    /\ base + o \in 0 .. SizeMax
                    /\ fds' = [fds EXCEPT ![d].position = base + o]
           /\ UNCHANGED <<tree, inputs, content>>
           /\ reply' = <<>>

(* The content of a file that nobody has open is replaced.                 *)
Replace(p, text) == /\ p \in DOMAIN tree
                    /\ tree[p] \notin inputs \cup Opened
                    /\ Len(text) <= SizeMax
                    /\ content' = [content EXCEPT ![tree[p]] = text]
                    /\ UNCHANGED <<tree, inputs, fds>>
                    /\ reply' = <<>>

Output(p) == /\ p \in DOMAIN tree
             /\ UNCHANGED <<tree, inputs, content, fds>>
             /\ reply' = content[tree[p]]

(* A refused call, or one that only asks, changes nothing.                 *)
Other == UNCHANGED <<tree, inputs, content, fds>> /\ reply' = <<>>

Next == \/ Mount \/ Other
        \/ \E p \in Names : \/ Unlink(p) \/ Output(p)
                            \/ \E flags \in FlagSets : Open(p, flags)
                            \/ \E text \in Texts : Replace(p, text)
        \/ \E d \in Fds : \/ Close(d) \/ Seek(d)
                          \/ \E count \in Counts : Read(d, count)
                          \/ \E text \in Texts : Write(d, text)

Spec == Init /\ [][Next]_treeVars
=============================================================================
