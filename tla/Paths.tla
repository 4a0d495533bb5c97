------------------------------- MODULE Paths -------------------------------
(***************************************************************************)
(* Path names as the kernel reads them (src/src/fs/vfs.c and the mount     *)
(* table's prefix match in mount.c).  A path is the sequence of its        *)
(* components; the limits on its length in bytes are left out.             *)
(***************************************************************************)
EXTENDS Integers, FiniteSets, SequencesExt

CONSTANTS
    Spellings,  \* the components users write, ".." apart
    Names,      \* the 8.3 names on the disk
    Upper       \* Upper[s]: the name a spelling is packed to

ASSUME SpellingsAssumption ==
    /\ Names \subseteq Spellings /\ ".." \notin Spellings
    /\ Upper \in [Spellings -> Names] /\ \A n \in Names : Upper[n] = n

\* normalize_path; at the root ".." stays there.
Normal(p) ==
    LET done[k \in 0 .. Len(p)] ==
          IF k = 0 THEN << >>
          ELSE IF p[k] # ".." THEN Append(done[k - 1], p[k])
          ELSE IF done[k - 1] = << >> THEN << >> ELSE Front(done[k - 1])
    IN  done[Len(p)]

\* vfs_abspath of a user's path u = [abs, parts].
AbsPath(cwd, u) == Normal(IF u.abs THEN u.parts ELSE cwd \o u.parts)

\* vfs_name_to_83 of every component.
Packed(p) == [i \in DOMAIN p |-> Upper[p[i]]]

\* mount_resolve: the longest of the mount points Points that p is below, and
\* what is left of p there.  Mount points are compared as they are spelled.
Above(Points, p)  == {m \in Points : IsPrefix(m, p)}
Nearest(Points, p) ==
    CHOOSE m \in Above(Points, p) : \A k \in Above(Points, p) : Len(k) <= Len(m)
Below(m, p) == SubSeq(p, Len(m) + 1, Len(p))
=============================================================================
