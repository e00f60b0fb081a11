---------------------------- MODULE MCGuestDirs ----------------------------
(* A root, and a name that is a directory while something lies below it    *)
(* and may be a file while nothing does.                                   *)
EXTENDS GuestDirs

MCRawPaths == {<<>>, <<"d">>, <<"d", "x">>, <<"d", ".", "y">>}
MCFlagSets == {{"write", "create"}}
MCPackets == {[valid |-> TRUE, files |-> <<[name |-> <<"d", "x">>, bytes |-> <<>>]>>]}

(* Three directories for a table of two.                                   *)
MCManyPaths == {<<>>, <<"d">>, <<"e">>, <<"e", "x">>}
=============================================================================
