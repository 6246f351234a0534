---------------------------- MODULE MCCodeCache ----------------------------
(* Small instances of CodeCache for TLC. *)
EXTENDS CodeCache, TLC

CONSTANTS p1, p2, s1, s2, s3, h1, h2, v1, v2

\* s1 and s2 collide and compete for one data file.
HashColliding == s1 :> h1 @@ s2 :> h1 @@ s3 :> h2

\* Exchanging the two changes nothing.
Exchange == Permutations({s1, s2})

\* Two sources with a hash of their own each, and their exchange.
HashTwo == s1 :> h1 @@ s2 :> h2
ExchangeTwo == {s1 :> s1 @@ s2 :> s2, s1 :> s2 @@ s2 :> s1 @@ h1 :> h2 @@ h2 :> h1}

\* Two processes of the same or of different versions.
SameVersion == p1 :> v1 @@ p2 :> v1
TwoVersions == p1 :> v1 @@ p2 :> v2
=============================================================================
