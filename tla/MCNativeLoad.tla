---------------------------- MODULE MCNativeLoad ----------------------------
(* An instance of NativeLoad for TLC.                                        *)
EXTENDS NativeLoad, TLC

V(x, y, z) == [major |-> x, minor |-> y, patch |-> z]

\* Both ends of the range and what is next to them, in every field.
MCVersions ==
  {V(0, 9, 9), V(1, 6, 9), V(1, 7, 0), V(1, 7, 1), V(1, 8, 0), V(2, 0, 0), V(2, 7, 1)}

\* A function at each check, and the last of each group.
MCMissing ==
  Names(Mandatory) \cup {LoadInfoFunction}
    \cup {Groups[i][Len(Groups[i])] : i \in DOMAIN Groups}

\* Complete libraries of every version and with every agent; libraries of the
\* right version that lack a function; and old ones without the load info.
MCLibraries ==
  [version : MCVersions, agent : {"active"}, missing : {{}}]
    \cup [version : {V(1, 7, 1)}, agent : {"missing", "incompatible"}, missing : {{}}]
    \cup [version : {V(1, 7, 1)}, agent : {"active"}, missing : {{f} : f \in MCMissing}]
    \cup [version : {V(1, 6, 9)}, agent : {"active"}, missing : {{LoadInfoFunction}}]

\* Up to three arguments, each of them an option, another argument, or, but one
\* of them at most, an option that cannot be converted (with a negative text).
MCArgument(i, kind) ==
  [isOption |-> kind # "other", text |-> IF kind = "bad" THEN -i ELSE i]

MCCommandLines ==
  UNION {{[i \in 1..n |-> MCArgument(i, kinds[i])] :
            kinds \in {k \in [1..n -> {"option", "other", "bad"}] :
                         \A i, j \in 1..n : k[i] = "bad" /\ k[j] = "bad" => i = j}} :
         n \in 0..3}
MCEncodable == 1..3
=============================================================================
