----------------------------- MODULE MCRelease -----------------------------
(* Two versions, the second of them also asked for as a beta; main at first
   has no release prepared for the second, and setup.iss is behind.          *)
EXTENDS AppcastFeed

FV(v) == [short |-> v, build |-> 1]

Entry(v, status) == [number |-> v, day |-> v, status |-> status, build |-> FV(v), noted |-> TRUE]

First ==
  [code |-> "a", pubspec |-> FV(1), setup |-> 0, gen |-> FV(1), persona |-> FALSE,
   log |-> "first"]

Second ==
  [code |-> "b", pubspec |-> FV(1), setup |-> 1, gen |-> FV(1), persona |-> TRUE,
   log |-> "second"]

MCChangelog ==
  [first |-> [pending |-> FALSE, entries |-> <<Entry(1, "prepared")>>],
   second |-> [pending |-> FALSE, entries |-> <<Entry(2, "prepared"), Entry(1, "tagged")>>]]

MCTrees == {First, Second}

MCRequests ==
  {[version |-> FV(1), channel |-> "stable"], [version |-> FV(2), channel |-> "stable"],
   [version |-> FV(2), channel |-> "beta"]}

MCAcceptedRisk == {<<FV(1), "stable">>}

MCEnviron ==
  [validSignature |-> "false", codeSigning |-> "false", feedSignature |-> "true",
   certificate |-> Unset, provider |-> "manifest", keys |-> "k1", channel |-> Unset]

Nothing == [key \in DOMAIN MCEnviron |-> Unset]

MCLocalSettings ==
  {<<Nothing, [Nothing EXCEPT !.keys = "k1"], TRUE>>,
   <<[Nothing EXCEPT !.keys = "k2"], [Nothing EXCEPT !.keys = "k1", !.feedSignature = "false"], FALSE>>,
   <<[Nothing EXCEPT !.keys = "k2"], Nothing, FALSE>>}

(* Two items of version 1 from before build numbers, channels and signatures. *)
Legacy ==
  [version |-> [short |-> 1, build |-> 0], url |-> 1, asset |-> "old", channel |-> NoAttribute,
   rollout |-> NoRollout, date |-> "d0", description |-> [text |-> "brief", blank |-> FALSE],
   manifest |-> NoManifest, signature |-> NoSignature, binding |-> NoSignature]

MCFirstFeed == <<Legacy, [Legacy EXCEPT !.channel = "beta"]>>
=============================================================================
