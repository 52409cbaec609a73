------------------------------ MODULE EventLog ------------------------------
(***************************************************************************)
(* The events table of singleton-store and the queries over it.  An event's *)
(* server_seq is its position in the log: the column is an AUTOINCREMENT    *)
(* key, append_event inserts under the connection's mutex, and no statement *)
(* of the store deletes or updates an event.                                *)
(***************************************************************************)
EXTENDS Naturals, Sequences, FiniteSets

\* Mutant: the cursor is taken for the first seq to return.
MatchingFrom(log, target, cursor) ==
    {n \in DOMAIN log : /\ n >= cursor
                        /\ target \in {log[n].resource, log[n].parent}}

(* The seqs after cursor of the events that carry target as their resource  *)
(* or as their parent (the WHERE clause of the query).                      *)
Matching(log, target, cursor) ==
    {n \in DOMAIN log : /\ n > cursor
                        /\ target \in {log[n].resource, log[n].parent}}

\* Mutant: the newest limit of them, as Recent takes.
NewestPage(log, target, cursor, limit) ==
    {n \in Matching(log, target, cursor) :
        Cardinality({m \in Matching(log, target, cursor) : m > n}) < limit}

(* The first limit of them in order of server_seq (ORDER BY ... LIMIT).     *)
Page(log, target, cursor, limit) ==
    {n \in Matching(log, target, cursor) :
        Cardinality({m \in Matching(log, target, cursor) : m < n}) < limit}

\* Mutant: the oldest ones (ORDER BY ... ASC).
RecentOldest(log, target, limit) == Page(log, target, 0, limit)

(* Store::read_recent_events_for_resource: the newest limit events of the   *)
(* target (ORDER BY ... DESC LIMIT), oldest first again in the reply.       *)
Recent(log, target, limit) ==
    {n \in Matching(log, target, 0) :
        Cardinality({m \in Matching(log, target, 0) : m > n}) < limit}

(* An empty filter passes every type.                                       *)
Passes(event, types) == types = {} \/ event.type \in types

(* Store::read_events: the filter is applied to the rows of the page, after *)
(* LIMIT has cut it.                                                        *)
ReadEvents(log, target, cursor, limit, types) ==
    {n \in Page(log, target, cursor, limit) : Passes(log[n], types)}
=============================================================================
