----------------------------- MODULE SideChannel -----------------------------
(* The shared-memory side channel (lwrclpy/shared_memory.py with the parts of *)
(* publisher.py and subscription.py that use it): a large payload is put into *)
(* a shared block, its metadata goes over a topic of its own and into a file, *)
(* and the message over the ordinary topic, with or without the payload.  The *)
(* two topics are in order each, and in no order with each other.             *)
EXTENDS Naturals, Sequences, FiniteSets, SequencesExt

CONSTANTS
  Readers,    \* the subscribers of this host that use the side channel
  NoMetadata,
  Messages,   \* how many messages are published (a bound)
  Size,       \* message -> the byte length of its payload
  Keepalive,  \* LWRCLPY_SHM_KEEPALIVE
  MayCrash    \* the publisher's process may die

Ids == 1..Messages
Empty == 0   \* nothing where the payload should be
ASSUME SideChannelAssumption ==
  /\ Messages \in Nat /\ Keepalive \in Nat \ {0}
  /\ Size \in [Ids -> Nat] /\ NoMetadata \notin Ids /\ IsFiniteSet(Readers)

VARIABLES
  live,       \* the readers whose subscription there is,
  registered, \* whose registration file there is,
  joined,     \* and whom the publisher has matched: the latter comes and goes late
  plain,      \* a plain DDS subscriber is matched
  count,      \* the publisher's cached count of registrations
  next,       \* the message the publisher is at
  ppc,        \* where the publisher is: "idle", "announce", "send", "dead"
  open,       \* blocks that can be opened by name
  keep,       \* the publisher's table of kept blocks, oldest first
  file,       \* the message of the latest metadata file
  metadata,   \* the metadata topic, as each reader has yet to read it
  topic,      \* the topic, likewise: messages with or without payload
  latest,     \* each reader's _shm_latest_by_field
  found,      \* whose payload each reader finds in a message, or Empty
  gotPlain    \* what the plain subscriber gets

listeners == <<live, registered, joined, plain>>
reader == <<metadata, topic, latest, found>>
blocks == <<open, keep, file>>
channelVars == <<listeners, count, next, ppc, blocks, reader, gotPlain>>

\* Every message with its own payload.
AsSent == [m \in Ids |-> m]

ChannelInit ==
  /\ live = {} /\ registered = {} /\ joined = {} /\ plain = FALSE /\ count = 0
  /\ next = 1 /\ ppc = "idle"
  /\ open = {} /\ keep = <<>> /\ file = NoMetadata
  /\ metadata = [r \in Readers |-> <<>>] /\ topic = [r \in Readers |-> <<>>]
  /\ latest = [r \in Readers |-> NoMetadata]
  /\ found = [r \in Readers |-> AsSent] /\ gotPlain = AsSent

------------------------------------------------------------------------------
(* Who listens.                                                               *)

\* The subscription comes first, and its file after it; both are there a while
\* before the publisher matches them, if it ever does.
OpenReader(r) ==
  /\ r \notin live \cup joined /\ live' = live \cup {r}
  /\ UNCHANGED <<registered, joined, plain, count, next, ppc, blocks, reader, gotPlain>>

\* register_local_shared_memory_subscriber, which may fail.
RegisterReader(r) ==
  /\ r \in live \ registered /\ registered' = registered \cup {r}
  /\ UNCHANGED <<live, joined, plain, count, next, ppc, blocks, reader, gotPlain>>

\* The subscription is destroyed and closes its registration; one whose process
\* died counts no longer either.
CloseReader(r) ==
  /\ r \in live /\ live' = live \ {r} /\ registered' = registered \ {r}
  /\ topic' = [topic EXCEPT ![r] = <<>>] /\ metadata' = [metadata EXCEPT ![r] = <<>>]
  /\ latest' = [latest EXCEPT ![r] = NoMetadata] /\ found' = [found EXCEPT ![r] = AsSent]
  /\ UNCHANGED <<joined, plain, count, next, ppc, blocks, gotPlain>>

\* Discovery: the publisher matches a subscriber, or takes it for gone.
Match ==
  /\ \/ \E r \in live \ joined : joined' = joined \cup {r} /\ UNCHANGED plain
     \/ \E r \in joined : joined' = joined \ {r} /\ UNCHANGED plain
     \/ plain' = ~plain /\ UNCHANGED joined
  /\ UNCHANGED <<live, registered, count, next, ppc, blocks, reader, gotPlain>>

Locals == Cardinality(registered)

\* The cached count is older than its time to live: the files are counted.
Recount ==
  /\ count # Locals
  /\ count' = Locals
  /\ UNCHANGED <<listeners, next, ppc, blocks, reader, gotPlain>>

------------------------------------------------------------------------------
(* The publisher: _try_publish_auto_shared_memory.                            *)

Matched == Cardinality(joined) + (IF plain THEN 1 ELSE 0)

\* (faulty: the payload is left out as soon as one local reader is there)
SignalToAll == count > 0

\* Does the message go without its payload?  When no more are matched than are
\* counted as local readers of the side channel, whoever they are.
SignalOnly == count > 0 /\ ~(Matched = 0 \/ Matched > count)

\* Nobody local: the regular path, no block.
SkipExport ==
  /\ ppc = "idle" /\ next <= Messages /\ count = 0
  /\ ppc' = "send"
  /\ UNCHANGED <<listeners, count, next, blocks, reader, gotPlain>>

\* export_shared_memory_metadata and write_latest_metadata.
Export ==
  /\ ppc = "idle" /\ next <= Messages /\ count > 0
  /\ open' = open \cup {next}
  /\ file' = next
  /\ ppc' = "announce"
  /\ UNCHANGED <<listeners, count, next, keep, reader, gotPlain>>

\* The metadata is published, on a topic that has its own matching and whose
\* callbacks may be dropped; the block is kept, the oldest is closed.
Announce ==
  /\ ppc = "announce"
  /\ \E told \in SUBSET live :
       metadata' = [r \in Readers |-> IF r \in told THEN Append(metadata[r], next) ELSE metadata[r]]
  /\ LET kept == Append(keep, next) IN
       IF Len(kept) > Keepalive
       THEN keep' = Tail(kept) /\ open' = open \ {Head(kept)}
       ELSE keep' = kept /\ UNCHANGED open
  /\ ppc' = "send"
  /\ UNCHANGED <<listeners, count, next, file, topic, latest, found, gotPlain>>

Send ==
  /\ ppc = "send"
  /\ LET signal == next \in open /\ SignalOnly IN
       /\ topic' = [r \in Readers |-> IF r \in live \cap joined
                                     THEN Append(topic[r], [id |-> next, payload |-> ~signal])
                                     ELSE topic[r]]
       /\ gotPlain' = IF plain THEN [gotPlain EXCEPT ![next] = IF signal THEN Empty ELSE next]
                      ELSE gotPlain
  /\ next' = next + 1
  /\ ppc' = "idle"
  /\ UNCHANGED <<listeners, count, blocks, metadata, latest, found>>

\* The resource tracker of a dead process removes its blocks; its file stays.
Crash ==
  /\ MayCrash /\ ppc # "dead"
  /\ ppc' = "dead"
  /\ open' = {} /\ keep' = <<>>
  /\ UNCHANGED <<listeners, count, next, file, reader, gotPlain>>

------------------------------------------------------------------------------
(* A reader.                                                                  *)

\* _update_shared_memory_metadata: the latest for the field.
Update(r) ==
  /\ metadata[r] # <<>>
  /\ latest' = [latest EXCEPT ![r] = Head(metadata[r])]
  /\ metadata' = [metadata EXCEPT ![r] = Tail(@)]
  /\ UNCHANGED <<listeners, count, next, ppc, blocks, topic, found, gotPlain>>

\* read_latest_metadata: only when there is none yet, and of a live owner.
Known(r) ==
  IF latest[r] # NoMetadata THEN latest[r] ELSE IF ppc # "dead" THEN file ELSE NoMetadata

\* _side_channel_matches_payload: a cleared payload, or the announced length.
Matches(r, sample) ==
  Known(r) # NoMetadata /\ (sample.payload => Size[sample.id] = Size[Known(r)])

\* _attach_latest_shared_memory on a sample that was taken: a block that is
\* gone cannot be opened and nothing shadows the payload.
Receive(r) ==
  /\ topic[r] # <<>>
  /\ LET sample == Head(topic[r]) IN
       found' = [found EXCEPT ![r][sample.id] =
                 IF Matches(r, sample) /\ Known(r) \in open THEN Known(r)
                 ELSE IF sample.payload THEN sample.id ELSE Empty]
  /\ latest' = [latest EXCEPT ![r] = Known(r)]
  /\ topic' = [topic EXCEPT ![r] = Tail(@)]
  /\ UNCHANGED <<listeners, count, next, ppc, blocks, metadata, gotPlain>>

ChannelNext ==
  \/ Match \/ Recount
  \/ SkipExport \/ Export \/ Announce \/ Send \/ Crash
  \/ \E r \in Readers :
       OpenReader(r) \/ RegisterReader(r) \/ CloseReader(r) \/ Update(r) \/ Receive(r)

ChannelSpec == ChannelInit /\ [][ChannelNext]_channelVars

------------------------------------------------------------------------------
(* Properties.                                                                *)

ChannelTypeOK ==
  /\ {live, registered, joined} \subseteq SUBSET Readers /\ plain \in BOOLEAN /\ count \in Nat
  /\ next \in Nat /\ ppc \in {"idle", "announce", "send", "dead"}
  /\ open \subseteq Ids /\ keep \in Seq(Ids)
  /\ file \in Ids \cup {NoMetadata} /\ latest \in [Readers -> Ids \cup {NoMetadata}]
  /\ metadata \in [Readers -> Seq(Ids)]
  /\ topic \in [Readers -> Seq([id : Ids, payload : BOOLEAN])]
  /\ found \in [Readers -> [Ids -> Ids \cup {Empty}]] /\ gotPlain \in [Ids -> Ids \cup {Empty}]

\* What a message is sent without, its receivers miss in two cases only.  A plain
\* subscriber misses the payload while the publisher's count of local readers is
\* out of date, or while it has not matched one of them: the comparison takes
\* another for that one.  A local reader misses it when the publisher died, or when
\* Keepalive blocks have been kept since the one it knows of (code:
\* _has_remote_or_plain_dds_subscribers, _publish_shared_memory_metadata,
\* _attach_latest_shared_memory).
PayloadsReach ==
  [][/\ (\E m \in Ids : gotPlain[m] = m /\ gotPlain'[m] = Empty) =>
          count # Locals \/ ~(registered \subseteq joined)
     /\ \A r \in Readers :
          (\E m \in Ids : found[r][m] = m /\ found'[r][m] = Empty) =>
            \/ ppc = "dead"
            \/ Known(r) # NoMetadata /\ keep # <<>> /\ Known(r) + Keepalive <= Last(keep)
    ]_channelVars
=============================================================================
