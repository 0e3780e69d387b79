----------------------------- MODULE MCFrameLog -----------------------------
(***************************************************************************)
(* Frames for TLC: every header the walk tells apart, in front of every    *)
(* kind of APDU and every form of tag, and each of them cut off at every   *)
(* octet.  An address whose stated length is 250 is never that long.  The  *)
(* tables have rows at, next to and away from the ids the frames hold.     *)
(***************************************************************************)
EXTENDS FrameLog, FiniteSets

Address(length) == <<0, 5, length>> \o (IF length = 2 THEN <<7, 7>> ELSE <<>>)

\* The control octet and what it announces: none or one address of each kind.
Routes ==
    { <<0>>, <<128>> }
    \cup { <<8 + n>> \o Address(l) : n \in {0, 128}, l \in {0, 2, 250} }
    \cup { <<32 + n>> \o Address(l) \o <<255>> : n \in {0, 128}, l \in {0, 2, 250} }
    \cup { <<40 + n>> \o Address(d) \o Address(s) \o <<255>> : n \in {0, 128}, d, s \in {0, 2} }

Headers ==
    { <<129, 10, 0, 0, v>> : v \in {1, 2} } \cup { <<129, 11, 0, 0, 1>> }
    \cup { <<129, 4, 0, 0, 9, 9, 9, 9, 9, 9, 1>>, <<129, 0, 0, 0, 1>>, <<130, 10, 0, 0, 1>> }

Apdus ==
    { <<0, 5, 1, 8>>, <<8, 5, 1, 1, 1, 15>>, <<64, 1, 0, 1>>, <<144>>,
      <<48, 1, 14>>, <<56, 1, 0, 1, 12>>, <<32, 1, 15>>, <<80, 1, 12>>, <<96, 1, 9>>, <<112, 1, 4>> }
    \cup { <<16, s>> : s \in {0, 1, 8} }

ObjectTags == { <<12>>, <<13, 4>>, <<13, 254, 0, 4>>, <<252, 0>>, <<14>>, <<4>>, <<11>> }
PropertyTags ==
    { <<25, 85>>, <<26, 1, 0>>, <<29, 1, 85>>, <<29, 254, 0, 1, 85>>, <<29, 255, 0, 0, 0, 1, 85>>,
      <<29, 255, 1, 0, 0, 1, 85>>, <<249, 1, 85>>, <<24>>, <<31>>, <<7>> }
IndexTags == { <<>>, <<41, 3>>, <<45, 200, 3>>, <<46>> }

Parameters == { o \o <<2, 0, 0, 1>> \o p \o i : o \in ObjectTags, p \in PropertyTags, i \in IndexTags }

Whole ==
    { h \o r \o a : h \in Headers, r \in Routes, a \in Apdus }
    \cup { <<129, 10, 0, 0, 1, 0>> \o a \o p :
                a \in { <<0, 5, 1, 12>>, <<48, 1, 12>> }, p \in Parameters }

MCFrames == { IF n < Len(f) THEN SubSeq(f, 1, n) ELSE f : f \in Whole, n \in 0..40 }

\* The ids of a set in ascending order.
Ascending(S) == [i \in 1..Cardinality(S) |-> CHOOSE x \in S : Cardinality({y \in S : y < x}) = i - 1]
MCTables == {Ascending(S) : S \in SUBSET {0, 8, 9, 85, 256}}
MCIds == {8, 85, 256}
=============================================================================
