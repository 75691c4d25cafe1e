------------------------------- MODULE Broker -------------------------------
(***************************************************************************)
(* The pub/sub registry (lib/pubsub broker.go).  The maps lose an entry    *)
(* when its last subscriber leaves, so a channel without subscribers and   *)
(* one that was never used are the same.                                   *)
(***************************************************************************)
EXTENDS Naturals, Sequences, FiniteSets, SequencesExt

CONSTANTS
  Clients,    \* connection IDs
  Channels,
  Patterns,   \* the patterns in string order, a sequence
  Matches     \* the pairs <<pattern, channel>> that Match accepts

ASSUME BrokerAssumption ==
  /\ Patterns \in Seq(ToSet(Patterns)) /\ Matches \subseteq ToSet(Patterns) \X Channels

VARIABLES
  channels,   \* Broker.channels: channel -> IDs
  patterns    \* Broker.patterns: pattern -> IDs

BrokerTypeOK ==
  /\ channels \in [Channels -> SUBSET Clients]
  /\ patterns \in [ToSet(Patterns) -> SUBSET Clients]

BrokerInit ==
  /\ channels = [ch \in Channels |-> {}]
  /\ patterns = [p \in ToSet(Patterns) |-> {}]

Subscribe(ch, c) == channels' = [channels EXCEPT ![ch] = @ \cup {c}] /\ UNCHANGED patterns
Unsubscribe(ch, c) == channels' = [channels EXCEPT ![ch] = @ \ {c}] /\ UNCHANGED patterns
PSubscribe(p, c) == patterns' = [patterns EXCEPT ![p] = @ \cup {c}] /\ UNCHANGED channels
PUnsubscribe(p, c) == patterns' = [patterns EXCEPT ![p] = @ \ {c}] /\ UNCHANGED channels

\* Mutant: the pattern registrations stay.
UnsubscribeAllKeepsPatterns(c) ==
  /\ channels' = [ch \in Channels |-> channels[ch] \ {c}]
  /\ UNCHANGED patterns

UnsubscribeAll(c) ==
  /\ channels' = [ch \in Channels |-> channels[ch] \ {c}]
  /\ patterns' = [p \in ToSet(Patterns) |-> patterns[p] \ {c}]

\* Mutant: pattern subscribers are forgotten.
SnapshotDirect(ch) == <<[pattern |-> "", to |-> channels[ch]]>>

\* The recipients Publish copies under the lock: the channel's subscribers, then
\* those of each matching pattern, in order of the patterns ("" is no pattern).
Snapshot(ch) ==
  <<[pattern |-> "", to |-> channels[ch]]>>
    \o [i \in DOMAIN Patterns |->
          [pattern |-> Patterns[i],
           to |-> IF <<Patterns[i], ch>> \in Matches THEN patterns[Patterns[i]] ELSE {}]]

NumSub(ch) == Cardinality(channels[ch])
NumPat == Cardinality({p \in ToSet(Patterns) : patterns[p] # {}})
ActiveChannels == {ch \in Channels : channels[ch] # {}}
=============================================================================
