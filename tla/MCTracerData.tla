---------------------------- MODULE MCTracerData -----------------------------
(* Instances of TracerData for TLC. *)
EXTENDS TracerData, TLC

CONSTANTS w, t1, t2, h1, h2

\* Lists of up to two entries, with a value of each kind next to strings, and
\* counts below, at and above their lengths.
MCArguments ==
  [form : {"lists"}, keys : {<<>>, <<w, w>>, <<w, Foreign>>}, values : {<<w>>, <<w, w>>, <<None, w>>},
   count : {NoCount}]
    \cup [form : {"counted"}, keys : {<<w, w>>}, values : {<<w>>, <<w, w>>}, count : {-1, 1, 3, NoCount}]
MCSingles == {<<w, w>>, <<w, Foreign>>}
MCTexts == {w, Blank, None, Foreign}
MCNumbers == {-3, -1, 1}
MCTracers == {t1, t2}
MCHandles == {h1, h2}

\* The tracers are made by the same factories, and the handles are as good as
\* each other.
Renamings == Permutations(MCTracers) \cup Permutations(MCHandles)
=============================================================================
