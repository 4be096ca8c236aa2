-------------------------------- MODULE Lineup --------------------------------
(***************************************************************************)
(* The channel list on its way to the player: portal.go                    *)
(* (parseChannelConfigs), cache.go (saveSnapshot, loadChannels), util.go   *)
(* (sortChannels) and output.go (uniqueChannelDisplayNames, the M3U        *)
(* playlists).                                                             *)
(*                                                                         *)
(* The portal's list is rid of repetitions and sorted, stored by ID,       *)
(* sorted again and kept in memory; a restart reads it back in the order   *)
(* of the IDs and sorts it anew.  Playlists are made from memory.          *)
(*                                                                         *)
(* sort.Slice is not stable: channels that compare equal come in any       *)
(* order.  Short lists are sorted by insertion, which leaves no neighbours *)
(* in the wrong order, whatever the comparison.                            *)
(*                                                                         *)
(* A name is a sequence: if <<1>> is a name, <<1, 2>> is the name that     *)
(* reads like it followed by " [2]", and Blank stands for white space.     *)
(* Rank is the order of strings.                                           *)
(***************************************************************************)
EXTENDS Naturals, Sequences, FiniteSetsExt

CONSTANTS
  Names,        \* channel names
  Rank,         \* their place in the order of strings
  GroupRank,    \* the place of the group guessed from a name
  Ids,          \* channel IDs, in the order of their keys: numbers
  Indexes,      \* what UserChannelID may be
  Addresses,    \* multicast addresses
  Offered,       \* the channels a portal may list
  MaxChannels   \* bound: how many it lists

ASSUME LineupAssumption ==
  /\ Names \subseteq Seq(Nat)
  /\ Rank \in [Names -> Nat] /\ GroupRank \in [Names -> Nat]
  /\ \A m, n \in Names : Rank[m] = Rank[n] => m = n
  /\ Ids \subseteq Nat /\ MaxChannels \in Nat
  /\ Indexes \subseteq [number : Nat, text : Nat, rank : Nat]
  /\ Offered \subseteq
       [id : Ids, name : Names, index : Indexes, url : Addresses]

VARIABLES
  stage,     \* "portal", "served" from memory, "restarted"
  parsed,    \* out of parseChannelConfigs, and what it has returned
  channels,  \* g.channels
  bucket,    \* the channels bucket: a channel for each ID
  served     \* history: the playlist before the restart

lineupVars == <<stage, parsed, channels, bucket, served>>

(* White space around a name.                                              *)
Blank == 0

(* An index has a number if strconv.Atoi takes it, without spaces around   *)
(* it; a text that is left when it is trimmed; and a place in the order of *)
(* strings.                                                                *)
NoNumber == 0
NoText   == 0

Channels == [id : Ids, name : Names, index : Indexes, url : Addresses]

IdsOf(list) == {list[n].id : n \in 1..Len(list)}

----------------------------------------------------------------------------
(* Two entries of the portal are one channel.                              *)
Repeats(c, e) == c.index = e.index /\ c.name = e.name /\ c.url = e.url

Numbered(c) == c.index.number # NoNumber

(* The portal's list is sorted by number where both have one.              *)
PortalBefore(c, e) ==
  IF Numbered(c) /\ Numbered(e) THEN c.index.number < e.index.number
  ELSE c.index.rank < e.index.rank

NameBefore(m, n) == Rank[m] < Rank[n]

(* Mutation of ServedBefore: equal indexes do not fall back to the name.   *)
ServedBeforeIndexOnly(c, e) ==
  \/ GroupRank[c.name] < GroupRank[e.name]
  \/ GroupRank[c.name] = GroupRank[e.name] /\ c.index.number < e.index.number

(* sortChannels: by group, by index where both have one and they differ,   *)
(* else by name.                                                           *)
ServedBefore(c, e) ==
  \/ GroupRank[c.name] < GroupRank[e.name]
  \/ /\ GroupRank[c.name] = GroupRank[e.name]
     /\ IF /\ Numbered(c) /\ Numbered(e)
           /\ c.index.number # e.index.number
        THEN c.index.number < e.index.number
        ELSE NameBefore(c.name, e.name)

(* What sort.Slice may return: no neighbours in the wrong order.           *)
Arrangements(list) ==
  {[n \in 1..Len(list) |-> list[f[n]]] :
     f \in Bijection(1..Len(list), 1..Len(list))}

PortalOrders(list) ==
  {s \in Arrangements(list) :
     \A n \in 1..(Len(s) - 1) : ~PortalBefore(s[n + 1], s[n])}

ServedOrders(list) ==
  {s \in Arrangements(list) :
     \A n \in 1..(Len(s) - 1) : ~ServedBefore(s[n + 1], s[n])}

(* The last place of an ID in a list.                                      *)
LastOf(list, id) == Max({n \in 1..Len(list) : list[n].id = id})

(* saveSnapshot: of the channels with one ID the last is stored.           *)
Stored(list) == [id \in IdsOf(list) |-> list[LastOf(list, id)]]

(* loadChannels reads the bucket in the order of its keys.                 *)
InKeyOrder(stored) ==
  {[n \in DOMAIN ids |-> stored[ids[n]]] :
     ids \in {s \in Bijection(1..Cardinality(DOMAIN stored), DOMAIN stored) :
                \A n \in 1..(Cardinality(DOMAIN stored) - 1) : s[n] < s[n + 1]}}

(* strings.TrimSpace                                                       *)
Trim(name) ==
  LET inked == {n \in DOMAIN name : name[n] # Blank}
  IN  IF inked = {} THEN <<>> ELSE SubSeq(name, Min(inked), Max(inked))

Called(list, n) == Trim(list[n].name)

(* Channels with more to their name than white space.                      *)
Named(list) == {n \in 1..Len(list) : Called(list, n) # <<>>}

Occurrence(list, n) ==
  Cardinality({m \in 1..n : Called(list, m) = Called(list, n)})

(* Mutation of DisplayName: the suffix counts the channels of the name.    *)
DisplayNameCounted(list, n) ==
  IF Occurrence(list, n) = 1 THEN Called(list, n)
  ELSE Append(Called(list, n), Occurrence(list, n))

DisplayName(list, n) ==
  IF Occurrence(list, n) = 1 THEN Called(list, n)
  ELSE Append(Called(list, n),
              IF list[n].index.text = NoText THEN Occurrence(list, n)
              ELSE list[n].index.text)

(* uniqueChannelDisplayNames: one name per ID, the last one given to it;   *)
(* no name for a blank one.                                                *)
DisplayNames(list) ==
  [id \in {list[n].id : n \in Named(list)} |->
     DisplayName(list, Max({n \in Named(list) : list[n].id = id}))]

Playlist(list) ==
  LET names == DisplayNames(list)
  IN  [n \in 1..Len(list) |->
         [id |-> list[n].id, url |-> list[n].url,
          name |-> IF list[n].id \in DOMAIN names THEN names[list[n].id]
                   ELSE <<>>]]

----------------------------------------------------------------------------
LineupInit ==
  /\ stage = "portal"
  /\ parsed = <<>> /\ channels = <<>> /\ bucket = <<>> /\ served = <<>>

(* The portal lists one more channel: parseChannelConfigs takes it, unless *)
(* it repeats one already taken, which changes nothing.                    *)
ParseEntry(c) ==
  /\ stage = "portal"
  /\ Len(parsed) < MaxChannels
  /\ ~\E n \in 1..Len(parsed) : Repeats(parsed[n], c)
  /\ parsed' = Append(parsed, c)
  /\ UNCHANGED <<stage, channels, bucket, served>>

(* The list is sorted, saved and published.                                *)
ReplaceLineup ==
  /\ stage = "portal"
  /\ \E sorted \in PortalOrders(parsed) :
       /\ bucket' = Stored(sorted)
       /\ channels' \in ServedOrders(sorted)
  /\ stage' = "served"
  /\ UNCHANGED <<parsed, served>>

(* newGateway loads what is stored.                                        *)
ReloadLineup ==
  /\ stage = "served"
  /\ \E loaded \in InKeyOrder(bucket) : channels' \in ServedOrders(loaded)
  /\ served' = Playlist(channels)
  /\ stage' = "restarted"
  /\ UNCHANGED <<parsed, bucket>>

LineupNext ==
  \/ \E c \in Offered : ParseEntry(c)
  \/ ReplaceLineup
  \/ ReloadLineup

LineupSpec == LineupInit /\ [][LineupNext]_lineupVars

----------------------------------------------------------------------------
(* Every channel has a number, and no two are alike in ID, or in name and  *)
(* number.                                                                 *)
Orderly(list) ==
  /\ \A n \in 1..Len(list) : Numbered(list[n])
  /\ \A m, n \in 1..Len(list) : m # n =>
       /\ list[m].id # list[n].id
       /\ \/ list[m].name # list[n].name
          \/ list[m].index.number # list[n].index.number

(* A restart loses no channel ID, lists nothing it did not list before,    *)
(* and, if channels are numbered and tell by ID, and by name and number,   *)
(* gives the very same playlist: same order, same names.                   *)
RestartKeepsList ==
  stage = "restarted" =>
    LET list == Playlist(channels)
    IN  /\ IdsOf(list) = IdsOf(served)
        /\ \A n \in 1..Len(list) : \E m \in 1..Len(served) :
             served[m].id = list[n].id /\ served[m].url = list[n].url
        /\ Orderly(parsed) => list = served

(* The index says something, and no two channels are alike in ID, or in    *)
(* what can be read of name and index.                                     *)
TellApart(list) ==
  /\ \A n \in 1..Len(list) : list[n].index.text # NoText
  /\ \A m, n \in 1..Len(list) : m # n =>
       /\ list[m].id # list[n].id
       /\ \/ Called(list, m) # Called(list, n)
          \/ list[m].index.text # list[n].index.text

(* A channel is called like another with its index.                        *)
Clash(list, m, n) ==
  Called(list, m) = Append(Called(list, n), list[n].index.text)

(* Where channels tell apart, two are listed under one name only if one is *)
(* called like the other with its index, or both have blank names; the     *)
(* first of a name keeps it, and only a blank one is listed without any.   *)
NamesTell ==
  TellApart(channels) =>
    LET list == Playlist(channels)
        name(n) == Called(channels, n)
    IN  \A n \in 1..Len(list) :
          /\ name(n) = <<>> <=> list[n].name = <<>>
          /\ (\A m \in 1..(n - 1) : name(m) # name(n))
               => list[n].name = name(n)
          /\ \A m \in 1..Len(list) : list[m].name = list[n].name =>
               \/ m = n \/ name(n) = <<>>
               \/ Clash(channels, m, n) \/ Clash(channels, n, m)
=============================================================================
