-------------------------- MODULE PresenceTracking --------------------------
(***************************************************************************)
(* Who is present in a channel (internal/realtime/presence.go): the two    *)
(* maps of the PresenceManager, which the messages of every connection     *)
(* change and which must agree when a connection ends.                     *)
(***************************************************************************)
EXTENDS Naturals, FiniteSets

CONSTANTS
    Members, NoMember,      \* connections of the channels
    Channels, Keys, NoKey   \* presence keys are chosen by the clients

ASSUME PresenceAssumption == NoMember \notin Members /\ NoKey \notin Keys

VARIABLES
    presences,      \* channel -> key -> the connection that tracks it
    connPresences,  \* connection -> channel -> key
    member,         \* "absent", "open" or "left"
    contested,      \* history: keys that a connection took from another, or untracked
    abandoned       \* history: what a connection tracked when it turned to another key

presenceVars == <<presences, connPresences, member, contested, abandoned>>

PresenceInit ==
    /\ presences = [ch \in Channels |-> [k \in Keys |-> NoMember]]
    /\ connPresences = [c \in Members |-> [ch \in Channels |-> NoKey]]
    /\ member = [c \in Members |-> "absent"]
    /\ contested = {} /\ abandoned = {}

Connect(c) ==
    /\ member[c] = "absent"
    /\ member' = [member EXCEPT ![c] = "open"]
    /\ UNCHANGED <<presences, connPresences, contested, abandoned>>

\* A key that another connection tracks is now contested; the one that c tracked
\* in the channel is left behind when it is not the key of this message.
Noted(c, ch, k) ==
    /\ contested' = IF presences[ch][k] \in {NoMember, c}
                    THEN contested ELSE contested \union {<<ch, k>>}
    /\ abandoned' = IF connPresences[c][ch] \in {NoKey, k}
                    THEN abandoned
                    ELSE abandoned \union {<<c, ch, connPresences[c][ch]>>}

\* Mutant of Track: the connection's own entry is made only for a new key.
TrackUnindexed(c, ch, k) ==
    /\ member[c] = "open"
    /\ presences' = [presences EXCEPT ![ch][k] = c]
    /\ connPresences' = IF presences[ch][k] = NoMember
                        THEN [connPresences EXCEPT ![c][ch] = k] ELSE connPresences
    /\ Noted(c, ch, k)
    /\ UNCHANGED member

\* The key goes to the last connection that tracks it; a connection has one entry
\* in a channel.
Track(c, ch, k) ==
    /\ member[c] = "open"
    /\ presences' = [presences EXCEPT ![ch][k] = c]
    /\ connPresences' = [connPresences EXCEPT ![c][ch] = k]
    /\ Noted(c, ch, k)
    /\ UNCHANGED member

\* The key is removed whoever tracks it, and so is the entry of the connection,
\* whatever its key.
Untrack(c, ch, k) ==
    /\ member[c] = "open"
    /\ presences' = [presences EXCEPT ![ch][k] = NoMember]
    /\ connPresences' = [connPresences EXCEPT ![c][ch] = NoKey]
    /\ Noted(c, ch, k)
    /\ UNCHANGED member

\* The key of the connection's entry goes, though another may track it by now.
CleanedUp(c, ch) == [k \in Keys |->
    IF connPresences[c][ch] = k THEN NoMember ELSE presences[ch][k]]

\* The deferred call when the handler of the connection returns.
CleanupConnection(c) ==
    /\ member[c] = "open"
    /\ member' = [member EXCEPT ![c] = "left"]
    /\ presences' = [ch \in Channels |-> CleanedUp(c, ch)]
    /\ connPresences' = [connPresences EXCEPT ![c] = [ch \in Channels |-> NoKey]]
    /\ contested' = contested \union
         {p \in Channels \X Keys : connPresences[c][p[1]] = p[2]
                                   /\ presences[p[1]][p[2]] \notin {NoMember, c}}
    /\ UNCHANGED abandoned

PresenceNext ==
    \E c \in Members :
      \/ Connect(c) \/ CleanupConnection(c)
      \/ \E ch \in Channels, k \in Keys : Track(c, ch, k) \/ Untrack(c, ch, k)

PresenceSpec == PresenceInit /\ [][PresenceNext]_presenceVars

(***************************************************************************)
(* Properties.                                                             *)
(***************************************************************************)
PresenceTypeOK ==
    /\ presences \in [Channels -> [Keys -> Members \union {NoMember}]]
    /\ connPresences \in [Members -> [Channels -> Keys \union {NoKey}]]
    /\ member \in [Members -> {"absent", "open", "left"}]
    /\ contested \subseteq Channels \X Keys
    /\ abandoned \subseteq Members \X Channels \X Keys

\* A connection that left is present nowhere, in whatever order the connections
\* took keys from each other, except under a key it had left for another one in the
\* same channel: the manager keeps one key for a connection and a channel.
NoGhosts ==
    \A c \in Members, ch \in Channels, k \in Keys :
      member[c] = "left" /\ presences[ch][k] = c => <<c, ch, k>> \in abandoned

\* A connection stays present under the key it tracked last, unless another one used
\* the same key of the channel: the end of a connection takes nobody else with it.
PresentWhileOpen ==
    \A c \in Members, ch \in Channels, k \in Keys :
      connPresences[c][ch] = k => presences[ch][k] = c \/ <<ch, k>> \in contested

\* Who is present is who is connected, but for keys that several connections used.
PresenceTruthful == NoGhosts /\ PresentWhileOpen
=============================================================================
