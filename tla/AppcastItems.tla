---------------------------- MODULE AppcastItems ----------------------------
(* The feed as appcast_manager.py edits and judges it: a sequence of items,
   the first one the latest. An item carries the full version, the URL (the
   release's tag), the bytes' digest, the channel, the rollout, the date, the
   description, the manifest it is bound to, and two signatures; a signature
   is the key and exactly what was signed. A description is [text, blank]:
   blank when it ends in white space. Items from before channels and staged
   rollouts have neither attribute.                                          *)
EXTENDS Naturals, Sequences

NoKey == "no key"
NoManifest == [none |-> TRUE]
NoSignature == [key |-> NoKey]

(* Attributes read from an item, with the defaults for old ones. *)
NoAttribute == "absent"
NoRollout == 101

_plug_channel(item) == IF item.channel = NoAttribute THEN "stable" ELSE item.channel

_plug_rollout_percentage(item) == IF item.rollout = NoRollout THEN 100 ELSE item.rollout

(* An item of the time before build numbers were published. *)
WithoutBuild(version) == [version EXCEPT !.build = 0]

Matches(item, context) ==
  /\ item.version \in {context.version, WithoutBuild(context.version)}
  /\ _plug_channel(item) = context.channel

(* Long notes are cut, and what is at the cut stays; reading an item back
   strips it.                                                                *)
sanitize_release_notes(notes) == [text |-> notes, blank |-> notes = "cut at a blank"]

expected_description(context) == sanitize_release_notes(context.notes)

Stripped(description) == [description EXCEPT !.blank = FALSE]

(* What an Ed25519 signature of an enclosure is over. *)
canonical_payload(context) ==
  [version |-> context.version, channel |-> context.channel, rollout |-> context.rollout,
   asset |-> context.asset, url |-> context.url]

ManifestBindingPayload(context) == <<canonical_payload(context), context.manifest>>

sign_payload(key, payload) == IF key = NoKey THEN NoSignature ELSE [key |-> key, payload |-> payload]

BuildItem(context, date, key) ==
  [version |-> context.version, url |-> context.url, asset |-> context.asset,
   channel |-> context.channel, rollout |-> context.rollout, date |-> date,
   description |-> expected_description(context), manifest |-> context.manifest,
   signature |-> sign_payload(key, canonical_payload(context)),
   binding |-> IF context.manifest = NoManifest THEN NoSignature
               ELSE sign_payload(key, ManifestBindingPayload(context))]

ItemValid(item, context) ==
  /\ Stripped(item.description) = expected_description(context)
  /\ item.version = context.version
  /\ item.url = context.url
  /\ item.asset = context.asset
  /\ _plug_channel(item) = context.channel
  /\ _plug_rollout_percentage(item) = context.rollout
  /\ item.manifest = context.manifest

verify_payload(payload, signature, key) ==
  /\ signature # NoSignature
  /\ signature.key = key
  /\ signature.payload = payload

verify_with_any_key(payload, signature, trusted) ==
  \E key \in trusted : verify_payload(payload, signature, key)

SignaturesValid(item, context, trusted) ==
  /\ verify_with_any_key(canonical_payload(context), item.signature, trusted)
  /\ context.manifest # NoManifest =>
       /\ item.manifest = context.manifest
       /\ verify_with_any_key(ManifestBindingPayload(context), item.binding, trusted)

(* The places of the items an update replaces, and the first of those items. *)
Matching(feed, context) == {i \in DOMAIN feed : Matches(feed[i], context)}

_find_matching_item(feed, context) ==
  LET matching == Matching(feed, context)
  IN  feed[CHOOSE i \in matching : \A j \in matching : i <= j]

(* Some places of a feed of a length, from the first to the last, and the items
   at them.                                                                  *)
InOrder(order, places) ==
  /\ {order[k] : k \in DOMAIN order} = places
  /\ \A k, l \in DOMAIN order : k < l => order[k] < order[l]

Order(places, length) ==
  CHOOSE order \in UNION {[1..n -> places] : n \in 0..length} : InOrder(order, places)

ItemsAt(feed, places) ==
  LET order == Order(places, Len(feed)) IN [k \in DOMAIN order |-> feed[order[k]]]

Others(feed, context) == ItemsAt(feed, DOMAIN feed \ Matching(feed, context))

(* The date of the item that is replaced, or of the day. *)
PubDate(feed, context, date) ==
  IF Matching(feed, context) = {} THEN date ELSE _find_matching_item(feed, context).date

(* Faulty: trims the newest of the other items. *)
UpdatedFeedKeepingOldest(feed, context, date, key) ==
  LET items == <<BuildItem(context, PubDate(feed, context, date), key)>> \o Others(feed, context)
  IN  IF Len(items) <= context.maxItems THEN items
      ELSE <<items[1]>> \o SubSeq(items, Len(items) - context.maxItems + 2, Len(items))

(* The item goes in as it is where no key is at hand and nothing of it changes. *)
UpdatedItem(feed, context, date, key) ==
  IF /\ key = NoKey
     /\ Matching(feed, context) # {}
     /\ ItemValid(_find_matching_item(feed, context), context)
  THEN _find_matching_item(feed, context)
  ELSE BuildItem(context, PubDate(feed, context, date), key)

(* update_appcast_tree *)
UpdatedFeed(feed, context, date, key) ==
  LET items == <<UpdatedItem(feed, context, date, key)>> \o Others(feed, context)
  IN  IF Len(items) <= context.maxItems THEN items ELSE SubSeq(items, 1, context.maxItems)

(* --preserve-existing-rollout *)
PreservedRollout(feed, context) ==
  IF Matching(feed, context) = {} THEN context
  ELSE [context EXCEPT !.rollout = _plug_rollout_percentage(_find_matching_item(feed, context))]

(* smoke_validate_feed: one attempt *)
SmokeValid(feed, context, trusted) ==
  /\ feed # <<>>
  /\ Len(feed) <= context.maxItems
  /\ ItemValid(feed[1], context)
  /\ SignaturesValid(feed[1], context, trusted)

(* validate_appcast_tree *)
FeedValid(feed, context, trusted) ==
  /\ feed # <<>>
  /\ feed[1].version = context.version
  /\ SmokeValid(feed, context, trusted)

(* The item as its own context, the notes as they are read back. *)
context_from_latest_item(item, maxItems) ==
  [version |-> item.version, url |-> item.url, asset |-> item.asset,
   channel |-> _plug_channel(item), rollout |-> _plug_rollout_percentage(item),
   manifest |-> item.manifest, maxItems |-> maxItems]

(* inspect_feed_url *)
InspectValid(feed, maxItems, trusted) ==
  /\ feed # <<>>
  /\ Len(feed) <= maxItems
  /\ SignaturesValid(feed[1], context_from_latest_item(feed[1], maxItems), trusted)
=============================================================================
