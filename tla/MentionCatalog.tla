----------------------------- MODULE MentionCatalog -----------------------------
(***************************************************************************)
(* Radar's catalog of mention groups and the cache Shookie keeps of it:    *)
(* one request at a time, revalidated by its ETag, failing closed.  What   *)
(* the catalog says of the one handle the model looks at is its roster;    *)
(* people change it on Radar's page and by the commands /group, /ungroup.  *)
(***************************************************************************)
EXTENDS Integers

CONSTANTS
  Roster,       \* member lists a group can have
  Command,      \* uses of /group and /ungroup
  MaxRev,       \* bound: revisions of the catalog
  NoCache

\* The handle is unknown or inactive, or its group has no members.
Absent == "absent"
Empty == "empty"
Catalog == [rev : 0..MaxRev, roster : Roster \cup {Absent, Empty}]

ASSUME MentionCatalogAssumption ==
  /\ MaxRev \in Nat
  /\ NoCache \notin [cat : Catalog, fresh : BOOLEAN]
  /\ Absent \notin Roster /\ Empty \notin Roster

VARIABLES
  radar,        \* Radar's catalog
  gone,         \* ghost: catalogs that are no longer Radar's
  cached,       \* this.cached: the catalog, and whether its TTL still runs
  floor,        \* ghost: what was gone when the last request that ended was sent
  flight,       \* this.refreshInFlight
  command       \* what each command is about, and what its user was told

catalogVars == <<radar, gone, cached, floor, flight, command>>

NoAnswer == "no answer"
Idle == [pc |-> "idle", answer |-> NoAnswer, gone |-> {}]

\* Revision n is Radar's; an earlier message may have had it fetched.
CatalogInit(n) ==
  /\ \E r \in Roster \cup {Absent} : radar = [rev |-> n, roster |-> r]
  /\ gone = {}
  /\ cached = NoCache \/ cached = [cat |-> radar, fresh |-> FALSE]
  /\ floor = {}
  /\ flight = Idle
  /\ command = [k \in Command |-> "idle"]

-----------------------------------------------------------------------------
(* Radar *)

Becomes(roster) ==
  /\ radar.rev < MaxRev
  /\ radar' = [rev |-> radar.rev + 1, roster |-> roster]
  /\ gone' = gone \cup {radar}

\* Somebody edits the group on Radar's page.
Edit ==
  /\ \E r \in Roster \cup {Absent, Empty} : r # radar.roster /\ Becomes(r)
  /\ UNCHANGED <<cached, floor, flight, command>>

\* /group and /ungroup: the text parses and the user is known, so a request is sent;
\* otherwise the usage is shown and nothing else happens.
Invoke(k) ==
  /\ command[k] = "idle"
  /\ \E c \in {"create", "delete", "usage"} : command' = [command EXCEPT ![k] = c]
  /\ UNCHANGED <<radar, gone, cached, floor, flight>>

\* Radar makes the group of a free handle, with the members named, or deletes one for good.
Carried(c) ==
  \/ c = "create" /\ radar.roster = Absent /\ \E r \in Roster : Becomes(r)
  \/ c = "delete" /\ radar.roster # Absent /\ Becomes(Absent)

\* The answer is a success, an error code, or lost; an error is told as a failure even
\* when Radar had carried the command out.
Carry(k) ==
  /\ command[k] \in {"create", "delete"}
  /\ \/ Carried(command[k]) /\ \E told \in {"succeeded", "failed"} : command' = [command EXCEPT ![k] = told]
     \/ UNCHANGED <<radar, gone>> /\ command' = [command EXCEPT ![k] = "failed"]
  /\ UNCHANGED <<cached, floor, flight>>

-----------------------------------------------------------------------------
(* The cache *)

Fresh == cached # NoCache /\ cached.fresh

\* Mutant of Ask: no request is sent.
AskNobody == UNCHANGED flight

\* getCatalog without a fresh cache: wait for the request under way, or send one.
Ask == flight' = IF flight.pc = "idle" THEN [Idle EXCEPT !.pc = "sent", !.gone = gone] ELSE flight

\* Radar answers with its catalog, or (a 304) that the one named by If-None-Match holds.
Answer ==
  /\ flight.pc = "sent"
  /\ flight' = [flight EXCEPT !.pc = "heard", !.answer =
       IF cached # NoCache /\ cached.cat.rev = radar.rev THEN cached.cat ELSE radar]
  /\ UNCHANGED <<radar, gone, cached, floor, command>>

\* An older catalog is served, by a Radar restored or lagging behind; how current that is
\* nobody can tell.
AnswerOld ==
  /\ flight.pc = "sent"
  /\ \E c \in gone : flight' = [pc |-> "heard", answer |-> c, gone |-> {}]
  /\ UNCHANGED <<radar, gone, cached, floor, command>>

\* A newer revision, or the same one with the same content.
Acceptable(c) ==
  LET grows == c.rev > cached.cat.rev \/ c = cached.cat IN
  cached # NoCache => grows

\* The answer is taken, and the catalog handed to everyone who waits.
Take ==
  /\ flight.pc = "heard" /\ Acceptable(flight.answer)
  /\ cached' = [cat |-> flight.answer, fresh |-> TRUE]
  /\ floor' = flight.gone
  /\ flight' = Idle
  /\ UNCHANGED <<radar, gone, command>>

\* Mutant of Refuse: the catalog at hand is served when it cannot be validated.
RefuseAndServe ==
  /\ flight.pc # "idle"
  /\ flight' = Idle /\ floor' = flight.gone
  /\ cached' = IF cached = NoCache THEN NoCache ELSE [cached EXCEPT !.fresh = TRUE]
  /\ UNCHANGED <<radar, gone, command>>

\* A timeout, a network error, another status, a body too large or unfit, an ETag that is
\* not the revision's, a revision that goes back: everyone who waits gets the error.
Refuse ==
  /\ flight.pc # "idle"
  /\ flight' = Idle /\ floor' = flight.gone
  /\ UNCHANGED <<radar, gone, cached, command>>

\* RADAR_MENTION_GROUPS_CACHE_TTL_SECONDS have passed.
Lapse ==
  /\ Fresh
  /\ cached' = [cached EXCEPT !.fresh = FALSE]
  /\ UNCHANGED <<radar, gone, floor, flight, command>>

\* The process starts anew.
ForgetCatalog == cached' = NoCache /\ floor' = {} /\ flight' = Idle
=============================================================================
