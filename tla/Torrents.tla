-------------------------------- MODULE Torrents --------------------------------
(***************************************************************************)
(* A libtorrent session of scripts (LibtorrentSession in                   *)
(* lua_libtorrent.cpp): numbers that stand for torrents, alerts that       *)
(* libtorrent lends until it lends others, and the boxed numbers that      *)
(* travel with direct requests as their userdata; and what becomes of Lua  *)
(* values on their way through bencoding.                                  *)
(*                                                                         *)
(* A torrent is numbered in the order of its making: added again after it  *)
(* was removed it is another.  Memory read after it was freed makes the    *)
(* session undefined; a box read after it was freed holds Anything.        *)
(***************************************************************************)
EXTENDS Scenario, Integers, Sequences, FiniteSets
LOCAL INSTANCE Functions
LOCAL INSTANCE TLC

CONSTANTS
    InfoHashes,
    Tags,               \* numbers that scripts give as userdata
    Addresses,          \* where a boxed number may lie
    AlertQueue,         \* set-alert-queue-size-limit
    Names               \* strings, keys and values

Anything == -1

ASSUME TorrentBounds ==
    /\ {0, Anything} \cap (Tags \cup Addresses) = {}
    /\ AlertQueue \in Nat

VARIABLES
    session,            \* open, closed or undefined
    torrents,           \* of libtorrent: torrent -> its info hash
    torrentIds,         \* handles: id -> torrent
    nextHandleId,
    requests,           \* direct requests not answered
    holders,            \* direct_request_userdata: tag -> address
    owners,             \* direct_request_userdata_ptr_to_id: address -> tag
    posted,             \* alerts that libtorrent has not lent
    pending,            \* pending_alerts
    named,              \* history: what each id was given for
    postedCount, heard, \* history: alerts posted, and those told: number, tag, tag told
    spoiled,            \* history: a tag was used again while its request was under way
    carried             \* a value bencoded and decoded

handleVars == <<torrents, torrentIds, nextHandleId, named>>
userdataVars == <<holders, owners>>
alertVars == <<posted, pending, postedCount, heard>>
torrentVars == <<session, handleVars, requests, userdataVars, alertVars, spoiled, carried>>

TorrentsInit ==
    /\ session = "open"
    /\ torrents = <<>> /\ torrentIds = <<>> /\ nextHandleId = 1 /\ named = <<>>
    /\ requests = {} /\ holders = <<>> /\ owners = <<>> /\ spoiled = FALSE
    /\ posted = <<>> /\ pending = <<>> /\ postedCount = 0 /\ heard = <<>>
    /\ carried = <<>>

----------------------------------------------------------------------------
(* Torrents.                                                               *)

FreshId == nextHandleId

\* The add- functions: libtorrent has one torrent for an info hash, which it
\* gives again, and scripts get another id of it.
AddTorrent(hash) ==
    LET same == {t \in DOMAIN torrents : torrents[t] = hash}
        new == Cardinality(Range(named)) + 1
    IN  /\ Spend("add")
        /\ session = "open"
        /\ \E t \in IF same = {} THEN {new} ELSE same :
               /\ torrents' = (t :> hash) @@ torrents
               /\ torrentIds' = (FreshId :> t) @@ torrentIds
               /\ named' = named @@ (FreshId :> t)
        /\ nextHandleId' = nextHandleId + 1
        /\ UNCHANGED <<session, requests, userdataVars, alertVars, spoiled, carried>>

\* The ids that find-torrent and get-torrents may give for a torrent.
IdsOf(t) == {id \in DOMAIN torrentIds : torrentIds[id] = t}

\* remove-torrent: of a torrent that is gone libtorrent throws, or does nothing
\* while something else still holds it.
RemoveTorrent(id) ==
    /\ Spend("remove")
    /\ session = "open"
    /\ torrents' = Restrict(torrents, DOMAIN torrents \ {torrentIds[id]})
    /\ torrentIds' = Restrict(torrentIds, DOMAIN torrentIds \ {id})
    /\ UNCHANGED <<session, nextHandleId, named, requests, userdataVars, alertVars, spoiled,
                   carried>>

----------------------------------------------------------------------------
(* Direct requests, and their answers.                                     *)

Unheard == Range(posted) \cup Range(pending)
Boxes(tags) == {holders[t] : t \in DOMAIN holders \cap tags}

\* Mutant: the box that is freed stays in the table of addresses.
OwnersStay(tag) == owners

\* The table of addresses when a tag is used again.
OwnersBut(tag) == Restrict(owners, DOMAIN owners \ Boxes({tag}))

\* dht-direct-request, with userdata or without.
Ask(tag) ==
    /\ Spend("ask")
    /\ session = "open"
    /\ \E at \in IF tag = 0 THEN {0} ELSE Addresses \ Boxes(Tags \ {tag}) :
           /\ requests' = requests \cup {[number |-> left["ask"], tag |-> tag, at |-> at]}
           /\ IF tag = 0 THEN UNCHANGED userdataVars
              ELSE /\ holders' = (tag :> at) @@ holders
                   /\ owners' = (at :> tag) @@ OwnersBut(tag)
    /\ spoiled' = (spoiled \/ (tag # 0 /\ \E r \in requests \cup Unheard : r.tag = tag))
    /\ UNCHANGED <<session, handleVars, alertVars, carried>>

\* libtorrent posts an alert, or drops it when there are too many.
Post(tag, at) ==
    IF Len(posted) < AlertQueue
    THEN /\ posted' = Append(posted, [number |-> postedCount + 1, tag |-> tag, at |-> at])
         /\ postedCount' = postedCount + 1
    ELSE UNCHANGED <<posted, postedCount>>

Answer(request) ==
    /\ session = "open"
    /\ Post(request.tag, request.at)
    /\ requests' = requests \ {request}
    /\ UNCHANGED <<left, session, handleVars, userdataVars, pending, heard, spoiled, carried>>

PostOther ==
    /\ Spend("post")
    /\ session = "open"
    /\ Post(0, 0)
    /\ UNCHANGED <<session, handleVars, requests, userdataVars, pending, heard, spoiled, carried>>

\* alert_to_table of the i-th of some alerts, told one after the other: the box
\* is read where the alert says it is.
TagTold(lent, i) ==
    LET at == lent[i].at
        there == {t \in DOMAIN holders : holders[t] = at}
    IN  IF at = 0 THEN 0
        ELSE IF there = {} \/ \E j \in 1..i - 1 : lent[j].at = at THEN Anything
        ELSE CHOOSE t \in there : TRUE

\* release_direct_request_userdata of each of them.
FreeBoxes(lent) ==
    LET ats == {lent[i].at : i \in DOMAIN lent} \cap DOMAIN owners
    IN  /\ holders' = Restrict(holders, DOMAIN holders \ {owners[at] : at \in ats})
        /\ owners' = Restrict(owners, DOMAIN owners \ ats)

\* Scripts get the tables of some alerts.
Tell(lent) ==
    /\ heard' = heard \o
          [i \in DOMAIN lent |->
              [number |-> lent[i].number, tag |-> lent[i].tag, told |-> TagTold(lent, i)]]
    /\ FreeBoxes(lent)

\* wait-for-alert, if there is one.
WaitForAlert ==
    LET lent == IF pending # <<>> THEN pending ELSE posted
    IN  /\ Spend("wait")
        /\ session = "open"
        /\ lent # <<>>
        /\ pending' = Tail(lent)
        /\ posted' = IF pending # <<>> THEN posted ELSE <<>>
        /\ Tell(<<Head(lent)>>)
        /\ UNCHANGED <<session, handleVars, requests, postedCount, spoiled, carried>>

\* pop-alerts: libtorrent frees what it lent before, if it has more to lend.
PopAlerts ==
    /\ Spend("pop")
    /\ session = "open"
    /\ IF pending # <<>> /\ posted # <<>>
       THEN session' = "undefined" /\ UNCHANGED <<userdataVars, posted, pending, heard>>
       ELSE /\ Tell(pending \o posted)
            /\ posted' = <<>> /\ pending' = <<>>
            /\ UNCHANGED session
    /\ UNCHANGED <<handleVars, requests, postedCount, spoiled, carried>>

\* drop: close.
DropSession ==
    /\ Spend("drop")
    /\ session = "open"
    /\ session' = "closed"
    /\ torrents' = <<>> /\ torrentIds' = <<>>
    /\ requests' = {} /\ holders' = <<>> /\ owners' = <<>>
    /\ posted' = <<>> /\ pending' = <<>>
    /\ UNCHANGED <<nextHandleId, named, postedCount, heard, spoiled, carried>>

----------------------------------------------------------------------------
(* Bencoding.  A table has values at positive numbers and at names, and    *)
(* perhaps at odd keys: other numbers and booleans.  A list or dict is a   *)
(* table that scripts wrapped to be taken for one.                         *)

Refused == [type |-> "refused"]

Scalars ==
    {[is |-> "int", of |-> n] : n \in {0, 2}} \cup {[is |-> "string", of |-> n] : n \in Names}
        \cup {[is |-> "bool", of |-> b] : b \in BOOLEAN}
        \cup {[is |-> "whole", of |-> 2], [is |-> "fraction"]}

Table(at, fields, odd) == [is |-> "table", at |-> at, fields |-> fields, odd |-> odd]

Tables(values) ==
    {Table(at, fields, odd) :
        at \in UNION {[keys -> values] : keys \in SUBSET (1..2)},
        fields \in UNION {[keys -> values] : keys \in SUBSET Names}, odd \in BOOLEAN}

Wrapped(values) ==
    {[is |-> "list", of |-> t] : t \in {x \in values : DOMAIN x.at # {2}}}
        \cup {[is |-> "dict", of |-> t] : t \in values}

RECURSIVE Entry(_)

\* The entries of a table's values; refused if one is.
Entries(values, type) ==
    LET entries == [key \in DOMAIN values |-> Entry(values[key])]
    IN  IF Refused \in Range(entries) THEN Refused ELSE [type |-> type, of |-> entries]

\* lua_table_to_entry: whether it is a list.
IsArray(table) ==
    /\ table.fields = <<>> /\ ~table.odd
    /\ DOMAIN table.at # {}
    /\ DOMAIN table.at = 1..Cardinality(DOMAIN table.at)

ListEntry(table) == Entries(table.at, "list")
DictEntry(table) ==
    IF DOMAIN table.at # {} \/ table.odd THEN Refused ELSE Entries(table.fields, "dict")

\* lua_object_to_entry
Entry(value) ==
    CASE value.is = "list" -> ListEntry(value.of)
      [] value.is = "dict" -> DictEntry(value.of)
      [] value.is = "table" -> IF IsArray(value) THEN ListEntry(value) ELSE DictEntry(value)
      [] value.is = "bool" -> [type |-> "int", of |-> IF value.of THEN 1 ELSE 0]
      [] value.is \in {"int", "whole"} -> [type |-> "int", of |-> value.of]
      [] value.is = "string" -> [type |-> "string", of |-> value.of]
      [] OTHER -> Refused

RECURSIVE Decoded(_)

\* entry_to_lua_object
Decoded(entry) ==
    CASE entry.type = "list" -> Table([i \in DOMAIN entry.of |-> Decoded(entry.of[i])], <<>>, FALSE)
      [] entry.type = "dict" -> Table(<<>>, [n \in DOMAIN entry.of |-> Decoded(entry.of[n])], FALSE)
      [] OTHER -> [is |-> entry.type, of |-> entry.of]

\* bencode, and bdecode of what it gives.
Carry ==
    /\ Spend("value")
    /\ \E flat \in {Tables(Scalars)} :
           \E value \in Scalars \cup flat \cup Wrapped(flat)
                        \cup {Table(<<inner>>, <<>>, FALSE) : inner \in flat \cup Wrapped(flat)} :
               carried' = [value |-> value,
                           back |-> IF Entry(value) = Refused THEN Refused ELSE Decoded(Entry(value))]
    /\ UNCHANGED <<session, handleVars, requests, userdataVars, alertVars, spoiled>>

TorrentsNext ==
    \/ \E hash \in InfoHashes : AddTorrent(hash)
    \/ \E id \in DOMAIN torrentIds : RemoveTorrent(id)
    \/ \E tag \in Tags \cup {0} : Ask(tag)
    \/ \E request \in requests : Answer(request)
    \/ PostOther \/ WaitForAlert \/ PopAlerts \/ DropSession
    \/ Carry

----------------------------------------------------------------------------
(* Properties.                                                             *)

\* An id stands for the torrent it was given for and no other, and each torrent of
\* the session has one, so that find-torrent and get-torrents need not make more
\* (next_handle_id, torrents added twice, removed and added again).
IdsLast ==
    /\ \A id \in DOMAIN torrentIds : torrentIds[id] = named[id]
    /\ \A t \in DOMAIN torrents : IdsOf(t) # {}

\* Each alert that is told is the next one, by wait-for-alert or pop-alerts; and
\* while the session is open none is told without being one of those posted, nor
\* lost.  Alerts read after they were freed leave the session undefined, and are
\* AlertsAreAlive's.
AlertsOnce ==
    /\ \A i \in DOMAIN heard : heard[i].number = i
    /\ session = "open" => Len(heard) + Len(pending) + Len(posted) = postedCount

\* The tables of boxes mirror each other; and unless scripts use a tag again while
\* its request is under way, its box stays until the answer is told, and the
\* answer bears the tag of its request.
TagsReturn ==
    /\ DOMAIN owners = Range(holders) /\ \A t \in DOMAIN holders : owners[holders[t]] = t
    /\ ~spoiled =>
           /\ \A r \in requests \cup Unheard :
                  r.tag # 0 => r.tag \in DOMAIN holders /\ holders[r.tag] = r.at
           /\ \A i \in DOMAIN heard : heard[i].told = heard[i].tag

\* What a value is once it was bencoded: booleans and floats are integers, and
\* of a list or a dict only its own part is kept.
RECURSIVE Plain(_)
Plain(value) ==
    CASE value.is = "bool" -> [is |-> "int", of |-> IF value.of THEN 1 ELSE 0]
      [] value.is = "whole" -> [is |-> "int", of |-> value.of]
      [] value.is = "list" -> Plain(Table(value.of.at, <<>>, FALSE))
      [] value.is = "dict" -> Plain(Table(<<>>, value.of.fields, FALSE))
      [] value.is = "table" ->
            Table([i \in DOMAIN value.at |-> Plain(value.at[i])],
                  [n \in DOMAIN value.fields |-> Plain(value.fields[n])], FALSE)
      [] OTHER -> value

\* A value comes back as it was or is refused, and never comes back with a part of
\* a table left out, unless a wrapper asked for it.
ValuesReturn == carried = <<>> \/ carried.back \in {Refused, Plain(carried.value)}

\* The module's properties together.
TorrentsAgree == IdsLast /\ AlertsOnce /\ TagsReturn /\ ValuesReturn

\* No alert is read after libtorrent freed it: assets/lua/tests/test-libtorrent-
\* offline.fnl:373-386 calls pop-alerts after wait-for-alert and expects well-formed
\* alerts.  Not so: wait-for-alert leaves what it does not tell in pending_alerts,
\* and pop_alerts (lua_libtorrent.cpp:1790) asks libtorrent for more before it reads
\* them.
AlertsAreAlive == session # "undefined"
=============================================================================
