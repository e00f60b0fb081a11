---------------------------- MODULE MCGuestFiles ----------------------------
(* Two files and two descriptors; a path may leave the root or be too long. *)
(* A program works with its files or with its heap, streams and clock:     *)
(* neither sees the other, so their product shows nothing more.            *)
EXTENDS GuestCalls

VARIABLE program  \* "files" or "process"

MCRawPaths == {<<"a">>, <<"..", "a">>, <<"a", "a">>}
MCFlagSets == {{"read"}, {"read", "write", "create", "trunc"},
               {"write", "create", "excl", "append"}, {"append"}}
MCTexts == {<<"t">>, <<"t", "t", "t">>}
MCAccessModes == [write : BOOLEAN, execute : {FALSE}] \cup
                 {[write |-> FALSE, execute |-> TRUE]}
MCOffsets == {-1, 2}
MCPackets == {[valid |-> FALSE, files |-> <<>>],
              [valid |-> TRUE, files |-> <<[name |-> <<"a">>, bytes |-> <<"t", "t", "t">>]>>],
              [valid |-> TRUE, files |-> <<[name |-> <<"a">>, bytes |-> <<"t", "t">>]>>],
              [valid |-> TRUE, files |-> <<[name |-> <<"i">>, bytes |-> <<"t">>],
                                           [name |-> <<"a">>, bytes |-> <<>>]>>]}

MCDescriptors == -1 .. 2
MCOpenModes == {{"rdwr", "create", "trunc"}, {"wronly", "rdwr"}, {"other"}}

MCInit == Init /\ CallInit /\ program \in {"files", "process"}
MCNext == /\ UNCHANGED program
          /\ \/ program = "files" /\ (Next \/ PathCall) /\ UNCHANGED callVars
             \/ program = "process" /\ ProcessCall /\ UNCHANGED fileVars
MCSpec == MCInit /\ [][MCNext]_<<fileVars, callVars, program>>
=============================================================================
