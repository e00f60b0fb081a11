---------------------------- MODULE MCLinkUnits ----------------------------
(* Separate linking, and the data of what is linked.  A behaviour links    *)
(* units as they stand, or with the members of an archive, or lays out the *)
(* data of a text.                                                         *)
EXTENDS ObjectBind, SectionLayout

VARIABLE part   \* "units", "archive" or "layout"

S(k, n) == [k |-> k, n |-> n, to |-> "", size |-> 0, align |-> 0]
Set(n, t) == [k |-> "set", n |-> n, to |-> t, size |-> 0, align |-> 0]
Comm(n, z, a) == [k |-> "comm", n |-> n, to |-> "", size |-> z, align |-> a]

(* Units of a few statements about an entry and a name: definitions of     *)
(* every strength, private ones, aliases, commons of several sizes, and    *)
(* the mistakes that a scan, a rewrite or the image must refuse.           *)
Units == {
  <<S("global", "e"), S("label", "e"), S("ref", "a")>>,
  <<S("global", "e"), S("label", "e"), S("weak", "a"), S("ref", "a")>>,
  <<S("label", "e"), S("ref", "a")>>,
  <<S("global", "a"), S("label", "a"), S("ref", "e")>>,
  <<S("weak", "a"), S("label", "a"), S("ref", "a")>>,
  <<S("weak", "a"), S("label", "a"), S("global", "e"), Set("e", "a")>>,
  <<S("weak", "e"), S("label", "e"), S("global", "a"), Set("a", "e")>>,
  <<S("weak", "a"), Set("a", "e"), S("label", "e"), S("ref", "e")>>,
  <<S("label", "a"), S("ref", "a")>>,
  <<S("local", "a"), Comm("a", 4, 4), S("ref", "a")>>,
  <<Comm("a", 0, 2), Comm("a", 4, 8), S("ref", "a")>>,
  <<Comm("a", 8, 4), S("ref", "e")>>,
  <<S("local", "a"), S("global", "a"), S("label", "a")>>,
  <<S("global", "a"), S("ref", "a")>>,
  <<S("weak", "a"), S("ref", "a")>>,
  <<S("label", "e"), S("label", "e")>>,
  <<S("global", "e"), Set("e", "a"), Comm("a", 4, 4)>>,
  <<S("global", "e"), Set("e", "a"), S("weak", "a")>>}

MCInputs == UNION {[1 .. k -> Units] : k \in 1 .. 3}

(* Units that are given beside an archive.                                 *)
Given == {
  <<<<S("global", "e"), S("label", "e"), S("ref", "a")>>>>,
  <<<<S("label", "e"), S("ref", "a")>>>>,
  <<<<S("ref", "a")>>>>,
  <<<<S("global", "e"), S("label", "e"), S("weak", "a"), S("ref", "a")>>, <<S("ref", "b")>>>>,
  <<<<S("global", "e"), S("label", "e"), S("ref", "a"), Comm("b", 4, 4)>>,
    <<S("label", "a"), S("ref", "a")>>>>,
  <<<<S("local", "a"), S("global", "a")>>>>}

(* Members that need each other, that define the same name, that define a  *)
(* name only weakly or only for themselves, and one whose binding is bad.  *)
MCMembers == {
  <<S("global", "a"), S("label", "a"), S("ref", "b")>>,
  <<S("weak", "a"), S("label", "a"), S("ref", "e")>>,
  <<S("label", "a"), S("global", "e"), S("label", "e")>>,
  <<S("global", "b"), S("label", "b"), S("weak", "a"), S("ref", "a")>>,
  <<S("global", "b"), S("label", "b"), S("ref", "c")>>,
  <<Comm("c", 4, 4), S("ref", "b"), S("ref", "a")>>,
  <<S("global", "c"), S("label", "c"), S("ref", "e")>>,
  <<S("local", "b"), S("weak", "b")>>}

(* Four members that can need one another in any order.                    *)
MCChain == {
  <<S("global", "a"), S("label", "a"), S("ref", "b")>>,
  <<S("global", "b"), S("label", "b"), S("ref", "c")>>,
  <<S("global", "c"), S("label", "c"), S("ref", "e")>>,
  <<S("global", "e"), S("label", "e"), S("ref", "a")>>}

MCLinked == MCInputs \cup Given
MCArchives == UNION {[1 .. k -> MCMembers] : k \in 0 .. 3} \cup [1 .. 4 -> MCChain]

(* Three sections of data, code and one that is dropped; a memory that     *)
(* five directives can fill.                                               *)
MCNames == {".text", ".data", ".bss", ".x", ".note"}
MCKind == [n \in MCNames |->
             CASE n = ".text" -> 0 [] n = ".bss" -> 2 [] n = ".note" -> 3 [] OTHER -> 1]

(* What a behaviour does without: no archive, no link, no layout.          *)
NoArchive == /\ members = << <<>> >> /\ m = 1 /\ changed = FALSE /\ picked = <<>>
             /\ defined = {} /\ wanted = {Entry}
NoLink == /\ units = << <<>> >> /\ capacity = 0 /\ pc = "refused" /\ at = 1
          /\ pass = "measure" /\ needed = 0 /\ text = <<>>
NoLayout == /\ sections = <<>> /\ active = 1 /\ previous = 1 /\ previousValid = FALSE
            /\ stack = <<>> /\ fragments = <<>> /\ cursor = First /\ area = <<>>
            /\ labels = <<>> /\ relocations = <<>> /\ step = "refused"
            /\ used = MaxDirectives /\ content = <<>>

MCInit == \/ /\ part = "units" /\ NoLayout
             /\ units \in MCInputs /\ capacity \in Capacities \ {40}
             /\ pc = "start" /\ at = 1 /\ pass = "measure" /\ needed = 0 /\ text = <<>>
             /\ NoArchive
          \/ /\ part = "archive" /\ NoLayout
             /\ units \in Given /\ capacity = 40
             /\ ArchiveInit
          \/ part = "layout" /\ LayoutInit /\ NoLink /\ NoArchive

MCNext == /\ UNCHANGED part
          /\ \/ part = "layout" /\ LayoutNext /\ UNCHANGED allVars
             \/ part # "layout" /\ ArchiveNext /\ UNCHANGED layoutVars

MCSpec == MCInit /\ [][MCNext]_<<part, allVars, layoutVars>>
          /\ WF_<<allVars>>(part # "layout" /\ ArchiveNext /\ UNCHANGED <<part, layoutVars>>)
=============================================================================
