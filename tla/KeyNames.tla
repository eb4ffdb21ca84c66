------------------------------ MODULE KeyNames ------------------------------
(***************************************************************************)
(* Which file a reference of the key store names (keys/service.go): the    *)
(* references keyPath refuses, the names of the two tiers, how a directory *)
(* is listed, and which names the migration takes for legacy blobs.        *)
(*                                                                         *)
(* A name is the sequence of its parts between the dots: "x.t1.aead" is    *)
(* <<"x", "t1", "aead">>, ".master" is <<"", "master">>, and the empty     *)
(* string is <<"">>.                                                       *)
(***************************************************************************)
EXTENDS Integers, Sequences

CONSTANTS
  Forbidden,     \* parts with a path separator or a NUL byte in them
  TierParts      \* "t0" to "t9"

Tiers == {0, 1}
BlobSuffix(t) == IF t = 0 THEN <<"t0", "aead">> ELSE <<"t1", "aead">>
LegacySuffix == <<"aead">>
MasterFile(t) == IF t = 0 THEN <<"", "master-tier0">> ELSE <<"", "master-tier1">>
LegacyMaster == <<"", "master">>
SingleInstanceRef == <<"single-instance">>

\* The first part may be empty, the suffix starts with a dot: so name ends with
\* suffix when there is a part in front of it.
EndsWith(name, suffix) ==
  /\ Len(name) > Len(suffix)
  /\ SubSeq(name, Len(name) - Len(suffix) + 1, Len(name)) = suffix

Strip(name, suffix) == SubSeq(name, 1, Len(name) - Len(suffix))

HasTierSuffix(ref) ==
  /\ EndsWith(ref, <<"aead">>)
  /\ Len(ref) > 2 /\ ref[Len(ref) - 1] \in TierParts

ValidRef(ref) ==
  /\ ref[1] # ""                     \* empty, or it starts with a dot
  /\ \A i \in 1..Len(ref) : ref[i] \notin Forbidden
  /\ ~HasTierSuffix(ref)

\* KeyPath with a mistake: the legacy suffix, without the tier
KeyPathUntiered(ref, t) == ref \o LegacySuffix

KeyPath(ref, t) == ref \o BlobSuffix(t)

ListTier(dir, t) ==
  {Strip(name, BlobSuffix(t)) : name \in {n \in dir : EndsWith(n, BlobSuffix(t))}}

\* IsLegacyBlob with a mistake: the single-instance key is renamed like the others
AnyLegacyBlob(name) ==
  /\ EndsWith(name, LegacySuffix)
  /\ \A t \in Tiers : ~EndsWith(name, BlobSuffix(t))

\* What the migration renames (3f).  A legacy blob whose reference ended in ".t0"
\* or ".t1" looks like one of a tier.
IsLegacyBlob(name) ==
  /\ EndsWith(name, LegacySuffix)
  /\ \A t \in Tiers : ~EndsWith(name, BlobSuffix(t))
  /\ name # SingleInstanceRef \o LegacySuffix

Renamed(dir) ==
  {n \in dir : ~IsLegacyBlob(n)} \cup
  {KeyPath(Strip(n, LegacySuffix), 1) : n \in {m \in dir : IsLegacyBlob(m)}}
=============================================================================
