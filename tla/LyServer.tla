------------------------------ MODULE LyServer ------------------------------
(***************************************************************************)
(* The /d/* requests that stand for the ly_server: black list and white    *)
(* list, the configuration and the monitored objects, in tables of their   *)
(* own.  A request sends one statement, but for a GET of both lists, which *)
(* reads one table after the other.  Bootstrap composes this module with   *)
(* the command that makes and seeds the tables.                            *)
(***************************************************************************)
EXTENDS Naturals

CONSTANTS
    Entries,    \* addresses and domains on the lists
    Assets,     \* monitored objects: address, port and protocol
    ConfigKeys, \* keys of t_config
    NoRow       \* no row under a key

ASSUME NoRowAssumption ==
    /\ NoRow \notin {"seed", "person"}
    /\ NoRow \notin [text : {"seed", "person"}, place : {"seed", "person"}]

VARIABLES
    lyReady,  \* the t_* tables exist
    lists,    \* t_blacklist and t_whitelist
    config,   \* t_config: who has set a key
    objects,  \* t_mo: who has set description (modesc, tag and filter) and
              \* place (devid and direction) of an object
    reader,   \* a GET of both lists: what it does next, what it has read
    steady    \* history: entries that were on a list ever since the GET began
              \* and were not deleted from the white list

lyTables == <<lyReady, lists, config, objects>>
lyVars == <<lyTables, reader, steady>>

Lists == {"black", "white"}
ListTypes == Lists \cup {""}
Listed == lists["black"] \cup lists["white"]

LyInit ==
    /\ lyReady = FALSE
    /\ lists = [l \in Lists |-> {}]
    /\ config = [k \in ConfigKeys |-> NoRow]
    /\ objects = [o \in Assets |-> NoRow]
    /\ reader = [next |-> "first", seen |-> {}]
    /\ steady = {}

\* The table for a type that normalizeListType returns; "" is a type it does
\* not know.
Table(type) == IF type = "white" THEN "white" ELSE "black"

\* POST /d/bwlist.
AddEntry(type, v) ==
    /\ lyReady
    /\ lists' = [lists EXCEPT ![Table(type)] = @ \cup {v}]
    /\ UNCHANGED <<lyReady, config, objects, reader, steady>>

\* POST /d/bwlist with op del.
DeleteEntry(type, v) ==
    LET l == Table(type)
        others == UNION {lists[m] : m \in Lists \ {l}}
    IN  /\ lyReady
        /\ lists' = [lists EXCEPT ![l] = @ \ {v}]
        /\ steady' = IF l = "white" \/ v \notin others THEN steady \ {v} ELSE steady
        /\ UNCHANGED <<lyReady, config, objects, reader>>

MutantReadOrder == <<"white", "black">>

\* GET /d/bwlist for both lists queries one table after the other.
ReadOrder == <<"black", "white">>

ReadFirstList ==
    /\ lyReady /\ reader.next = "first"
    /\ reader' = [next |-> "second", seen |-> lists[ReadOrder[1]]]
    /\ steady' = Listed
    /\ UNCHANGED lyTables

ReadSecondList ==
    /\ reader.next = "second"
    /\ reader' = [next |-> "answer", seen |-> reader.seen \cup lists[ReadOrder[2]]]
    /\ UNCHANGED <<lyTables, steady>>

\* The answer is written, or a query fails.
ReadEnds ==
    /\ reader.next # "first"
    /\ reader' = [next |-> "first", seen |-> {}]
    /\ steady' = {}
    /\ UNCHANGED lyTables

\* POST /d/config.
SetConfig(k) ==
    /\ lyReady
    /\ config' = [config EXCEPT ![k] = "person"]
    /\ UNCHANGED <<lyReady, lists, objects, reader, steady>>

\* POST /d/mo.
SetMO(o) ==
    /\ lyReady
    /\ objects' = [objects EXCEPT ![o] = [text |-> "person", place |-> "person"]]
    /\ UNCHANGED <<lyReady, lists, config, reader, steady>>

\* A request of a person or of a program that used the ly_server.
LyRequest ==
    \/ \E type \in ListTypes, v \in Entries : AddEntry(type, v) \/ DeleteEntry(type, v)
    \/ ReadFirstList \/ ReadSecondList \/ ReadEnds
    \/ \E k \in ConfigKeys : SetConfig(k)
    \/ \E o \in Assets : SetMO(o)

-----------------------------------------------------------------------------
(* What traffic-admin -init-lyserver-compat does to the tables.            *)

\* LyServerPostgresSchema only creates what is missing.
CreateLySchema ==
    /\ lyReady' = TRUE
    /\ UNCHANGED <<lists, config, objects, reader, steady>>

MutantSeedObjects(o) ==
    /\ lyReady
    /\ objects' = [objects EXCEPT ![o] = [text |-> "seed", place |-> "seed"]]
    /\ UNCHANGED <<lyReady, lists, config, reader, steady>>

\* The insert of the demo object: on a conflict it writes the texts only.
SeedObjects(o) ==
    /\ lyReady
    /\ objects' = [objects EXCEPT ![o] =
                      IF @ = NoRow THEN [text |-> "seed", place |-> "seed"]
                                   ELSE [@ EXCEPT !.text = "seed"]]
    /\ UNCHANGED <<lyReady, lists, config, reader, steady>>

LyTypeOK ==
    /\ lyReady \in BOOLEAN
    /\ lists \in [Lists -> SUBSET Entries]
    /\ config \in [ConfigKeys -> {NoRow, "person"}]
    /\ objects \in [Assets -> {NoRow} \cup [text : {"seed", "person"}, place : {"seed", "person"}]]
    /\ reader \in [next : {"first", "second", "answer"}, seen : SUBSET Entries]
    /\ steady \subseteq Entries

\* A GET of both lists shows every entry that was on one of them all the
\* time, also one that a person moved from the black list to the white list
\* meanwhile, adding it there and deleting it here: the black list is read
\* first.  (An entry that moves the other way may be missed.)
NoEntryMissed == reader.next = "answer" => steady \subseteq reader.seen
=============================================================================
