------------------------------- MODULE Search -------------------------------
(***************************************************************************)
(* GET /events: a client follows next_cursor from page to page, one SELECT *)
(* each, while ingestion and retention change the table between them.  The *)
(* ids are random, so a new event may land before or behind any cursor.    *)
(***************************************************************************)
EXTENDS Integers, Sequences, FiniteSets

CONSTANTS
    Ids,        \* the ids events may get, with the order of the id column
    Filters,    \* what the where clauses of a search may admit: sets of ids,
                \* since no column of an event ever changes
    MaxLimit,   \* the most a client may ask for: le=100
    Clients,
    None        \* no cursor, no walk

ASSUME SearchAssumption ==
    /\ Ids \subseteq Nat /\ IsFiniteSet(Ids) /\ None \notin Nat
    /\ Filters \subseteq SUBSET Ids
    /\ MaxLimit \in Nat

VARIABLES
    rows,       \* the ids of the stored events
    gone,       \* the ids of the events that retention has removed
    walk        \* client -> the walk it is on or has ended, or None

vars == <<rows, gone, walk>>

\* present (the events it could have seen when it began) and owed (those
\* that its cursor stands for) are history.
Walks == [filter : Filters, cursor : Ids \cup {None}, pages : Seq(SUBSET Ids),
          ended : BOOLEAN, present : SUBSET Ids, owed : SUBSET Ids]

ASSUME NoWalkAssumption == None \notin Walks

Init ==
    /\ rows = {} /\ gone = {}
    /\ walk = [c \in Clients |-> None]

-----------------------------------------------------------------------------
(* The table changes.                                                      *)

StoreEvent(i) ==
    /\ i \notin rows \cup gone
    /\ rows' = rows \cup {i}
    /\ UNCHANGED <<gone, walk>>

RemoveEvents(ids) ==
    /\ ids # {}
    /\ rows' = rows \ ids
    /\ gone' = gone \cup ids
    /\ UNCHANGED walk

-----------------------------------------------------------------------------
(* search_events                                                           *)

\* ORDER BY id LIMIT n.
FirstOf(ids, n) == {i \in ids : Cardinality({j \in ids : j <= i}) <= n}

LastIn(i, ids) == i \in ids /\ \A j \in ids : j <= i

\* Mutant: the cursor's event is shown again.
FromCursor(i, cursor) == cursor = None \/ i >= cursor

\* id > cursor, if there is one.
Behind(i, cursor) == cursor = None \/ i > cursor

\* Mutant: a full page is taken for a sign of more.
FullPage(events, limit) == Cardinality(events) >= limit
HasMore(events, limit) == Cardinality(events) > limit

\* Mutant: the event that was read ahead becomes the cursor.
ReadAhead(i, events, page) == LastIn(i, events)
NextCursor(i, events, page) == LastIn(i, page)

\* The first request of a walk has no cursor.
StartWalk(c, filter) ==
    /\ walk[c] # None => walk[c].ended
    /\ walk' = [walk EXCEPT ![c] =
                   [filter |-> filter, cursor |-> None, pages |-> << >>, ended |-> FALSE,
                    present |-> filter \cap rows, owed |-> {}]]
    /\ UNCHANGED <<rows, gone>>

\* One page; the client may ask for another size every time.
SearchEvents(c, limit) ==
    /\ walk[c] # None /\ ~walk[c].ended
    /\ LET matching == {i \in rows \cap walk[c].filter : Behind(i, walk[c].cursor)}
           events == FirstOf(matching, limit + 1)
           page == FirstOf(events, limit)
           turned == [walk[c] EXCEPT !.pages = Append(@, page), !.owed = matching \ page]
       IN  IF HasMore(events, limit)
           THEN \E i \in Ids :
                  /\ NextCursor(i, events, page)
                  /\ walk' = [walk EXCEPT ![c] = [turned EXCEPT !.cursor = i]]
           ELSE walk' = [walk EXCEPT ![c] = [turned EXCEPT !.ended = TRUE]]
    /\ UNCHANGED <<rows, gone>>

\* The client loses interest, or its key.
GiveUp(c) ==
    /\ walk[c] # None
    /\ walk' = [walk EXCEPT ![c] = None]
    /\ UNCHANGED <<rows, gone>>

SearchNext(c) == \E limit \in 1..MaxLimit : SearchEvents(c, limit)

Next ==
    \/ \E i \in Ids : StoreEvent(i)
    \/ \E ids \in SUBSET rows : RemoveEvents(ids)
    \/ \E c \in Clients :
        \/ \E filter \in Filters : StartWalk(c, filter)
        \/ SearchNext(c)
        \/ GiveUp(c)

Spec == Init /\ [][Next]_vars

-----------------------------------------------------------------------------
(* Properties                                                              *)

Shown(w) == UNION {w.pages[n] : n \in DOMAIN w.pages}

\* A walk that followed next_cursor to its end has shown every matching event
\* that was stored before it began and is stored still, whatever ingestion
\* and retention did between the pages.
WalkComplete ==
    \A c \in Clients :
        walk[c] # None /\ walk[c].ended => walk[c].present \cap rows \subseteq Shown(walk[c])

\* Pages come in the order of the ids: no event is shown twice in a walk,
\* though others are stored before and behind its cursor.
PagesInOrder ==
    \A c \in Clients : walk[c] # None =>
        \A m, n \in DOMAIN walk[c].pages : m < n =>
            \A i \in walk[c].pages[m], j \in walk[c].pages[n] : i < j

\* next_cursor is a promise: the page behind it is empty only if there were
\* events for it and retention has removed them all since.
EmptyPageExplained ==
    [][\A c \in Clients :
         /\ walk[c] # None /\ walk'[c] # None
         /\ walk[c].pages # << >> /\ walk'[c].pages = Append(walk[c].pages, {})
         => walk[c].owed # {} /\ walk[c].owed \subseteq gone]_vars
=============================================================================
