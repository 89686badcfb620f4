--------------------------- MODULE Search_proofs ---------------------------
(***************************************************************************)
(* Proofs about Search, for every value of its constants.                  *)
(***************************************************************************)
EXTENDS Search, NaturalSets, FiniteSetTheorems, TLAPS

-----------------------------------------------------------------------------
(* ORDER BY id LIMIT n.                                                    *)

\* A finite nonempty set of ids has a last one.
LEMMA GreatestOfFinite ==
    ASSUME NEW S, S \subseteq Nat, IsFiniteSet(S), S # {}
    PROVE  \E g \in S : \A y \in S : y <= g
<1> DEFINE from(x) == {k \in S : x <= k}
           sizes == {Cardinality(from(x)) : x \in S}
<1>1. \A x \in S : IsFiniteSet(from(x)) /\ Cardinality(from(x)) \in Nat
  <2> SUFFICES ASSUME NEW x \in S
               PROVE  IsFiniteSet(from(x)) /\ Cardinality(from(x)) \in Nat
    OBVIOUS
  <2>1. IsFiniteSet(from(x))
    BY FS_Subset
  <2> QED  BY <2>1, FS_CardinalityType
<1>2. PICK least \in sizes : \A z \in sizes : least <= z
  <2>1. sizes \subseteq Nat /\ sizes # {}
    BY <1>1
  <2> QED  BY <2>1, LeastNat
<1>3. PICK g \in S : least = Cardinality(from(g))
  BY <1>2
<1>4. ASSUME NEW y \in S, ~(y <= g)
      PROVE  FALSE
  <2>1. y \in Nat /\ g \in Nat /\ g < y
    BY <1>4
  <2>2. from(y) \subseteq from(g) /\ g \in from(g) \ from(y)
    <3>1. ASSUME NEW k \in S, y <= k
          PROVE  g <= k
      <4>1. k \in Nat
        OBVIOUS
      <4> QED  BY <2>1, <3>1, <4>1
    <3>2. g <= g /\ ~(y <= g)
      BY <2>1
    <3> QED  BY <3>1, <3>2
  <2>3. Cardinality(from(g)) <= Cardinality(from(y))
    BY <1>2, <1>3
  <2>4. from(y) = from(g)
    <3>1. IsFiniteSet(from(g)) /\ Cardinality(from(g)) \in Nat /\ Cardinality(from(y)) \in Nat
      BY <1>1
    <3>2. /\ Cardinality(from(y)) <= Cardinality(from(g))
          /\ Cardinality(from(g)) = Cardinality(from(y)) => from(g) = from(y)
      BY <2>2, <3>1, FS_Subset
    <3> QED  BY <2>3, <3>1, <3>2
  <2> QED  BY <2>2, <2>4
<1> QED  BY <1>4

\* What is in front of a row that is read is read.
LEMMA FirstOfClosed ==
    ASSUME NEW S, S \subseteq Nat, IsFiniteSet(S), NEW n \in Nat,
           NEW i \in FirstOf(S, n), NEW j \in S, j <= i
    PROVE  j \in FirstOf(S, n)
<1> DEFINE upTo(x) == {k \in S : k <= x}
<1>1. i \in S /\ Cardinality(upTo(i)) <= n
  BY DEF FirstOf
<1>2. upTo(j) \subseteq upTo(i)
  <2> SUFFICES ASSUME NEW k \in S, k <= j
               PROVE  k <= i
    OBVIOUS
  <2>1. k \in Nat /\ j \in Nat /\ i \in Nat
    BY <1>1
  <2> QED  BY <2>1
<1>3. IsFiniteSet(upTo(i))
  BY FS_Subset
<1>4. IsFiniteSet(upTo(j)) /\ Cardinality(upTo(j)) <= Cardinality(upTo(i))
  BY <1>2, <1>3, FS_Subset
<1>5. Cardinality(upTo(i)) \in Nat /\ Cardinality(upTo(j)) \in Nat
  BY <1>3, <1>4, FS_CardinalityType
<1>6. Cardinality(upTo(j)) <= n
  BY <1>1, <1>4, <1>5
<1> QED  BY <1>6 DEF FirstOf

\* A limit of at least one finds a row if there is one.
LEMMA FirstOfNonempty ==
    ASSUME NEW S, S \subseteq Nat, S # {}, NEW n \in Nat, n >= 1
    PROVE  FirstOf(S, n) # {}
<1>1. PICK m \in S : \A y \in S : m <= y
  BY LeastNat
<1>2. {k \in S : k <= m} = {m}
  <2>1. ASSUME NEW k \in S, k <= m
        PROVE  k = m
    <3>1. m <= k /\ k \in Nat /\ m \in Nat
      BY <1>1
    <3> QED  BY <2>1, <3>1
  <2>2. m \in Nat
    BY <1>1
  <2>3. m <= m
    BY <2>2
  <2> QED  BY <2>1, <2>3
<1>3. Cardinality({m}) = 1
  BY FS_Singleton
<1> QED  BY <1>2, <1>3 DEF FirstOf

\* If the limit is not exhausted, nothing is left out.
LEMMA FirstOfAll ==
    ASSUME NEW S, S \subseteq Nat, IsFiniteSet(S), NEW n \in Nat,
           Cardinality(FirstOf(S, n + 1)) <= n
    PROVE  FirstOf(S, n + 1) = S
<1> DEFINE read == FirstOf(S, n + 1)
<1>1. read \subseteq S
  BY DEF FirstOf
<1>2. IsFiniteSet(read)
  BY <1>1, FS_Subset
<1>3. SUFFICES ASSUME S \ read # {}
               PROVE  FALSE
  BY <1>1
<1>4. PICK m \in S \ read : \A y \in S \ read : m <= y
  <2>1. S \ read \subseteq Nat
    OBVIOUS
  <2> QED  BY <1>3, <2>1, LeastNat
<1>5. {k \in S : k <= m} \subseteq read \cup {m}
  <2> SUFFICES ASSUME NEW k \in S, k <= m, k \notin read
               PROVE  k = m
    OBVIOUS
  <2>1. m <= k /\ k \in Nat /\ m \in Nat
    BY <1>4
  <2> QED  BY <2>1
<1>6. IsFiniteSet(read \cup {m}) /\ Cardinality(read \cup {m}) = Cardinality(read) + 1
  BY <1>2, <1>4, FS_AddElement
<1>7. /\ IsFiniteSet({k \in S : k <= m})
      /\ Cardinality({k \in S : k <= m}) <= Cardinality(read \cup {m})
  BY <1>5, <1>6, FS_Subset
<1>8. Cardinality(read) \in Nat /\ Cardinality({k \in S : k <= m}) \in Nat
  BY <1>2, <1>7, FS_CardinalityType
<1>9. Cardinality({k \in S : k <= m}) <= n + 1
  BY <1>6, <1>7, <1>8
<1>10. m \in read
  BY <1>4, <1>9 DEF FirstOf
<1> QED  BY <1>4, <1>10

\* A limit that covers all rows reads them all.
LEMMA FirstOfFew ==
    ASSUME NEW S, S \subseteq Nat, IsFiniteSet(S), NEW n \in Nat, Cardinality(S) <= n
    PROVE  FirstOf(S, n) = S
<1> SUFFICES ASSUME NEW i \in S
             PROVE  Cardinality({k \in S : k <= i}) <= n
  BY DEF FirstOf
<1>1. /\ IsFiniteSet({k \in S : k <= i})
      /\ Cardinality({k \in S : k <= i}) <= Cardinality(S)
  BY FS_Subset
<1>2. Cardinality({k \in S : k <= i}) \in Nat /\ Cardinality(S) \in Nat
  BY <1>1, FS_CardinalityType
<1> QED  BY <1>1, <1>2

\* A limit that does not cover all rows leaves one out.
LEMMA FirstOfMany ==
    ASSUME NEW S, S \subseteq Nat, IsFiniteSet(S), NEW n \in Nat, Cardinality(S) > n
    PROVE  S \ FirstOf(S, n) # {}
<1>1. Cardinality(S) \in Nat
  BY FS_CardinalityType
<1>2. S # {}
  BY <1>1, FS_EmptySet
<1>3. PICK g \in S : \A y \in S : y <= g
  BY <1>2, GreatestOfFinite
<1>4. {k \in S : k <= g} = S
  BY <1>3
<1>5. g \notin FirstOf(S, n)
  BY <1>1, <1>4 DEF FirstOf
<1> QED  BY <1>3, <1>5

-----------------------------------------------------------------------------
(* The invariant                                                           *)

\* The type of the table and of the walks; an id that was removed does not
\* come back.
TypeInv ==
    /\ rows \subseteq Ids /\ gone \subseteq Ids /\ rows \cap gone = {}
    /\ walk \in [Clients -> Walks \cup {None}]

Ordered(pages) ==
    \A m, n \in DOMAIN pages : m < n => \A i \in pages[m], j \in pages[n] : i < j

\* What was there and is there still is shown or lies behind the cursor, and
\* the cursor stands behind everything that was shown.
Underway(w, stored) ==
    /\ \A i \in w.present \cap stored : i \in Shown(w) \/ Behind(i, w.cursor)
    /\ w.cursor = None => w.pages = << >>
    /\ w.cursor # None => \A i \in Shown(w) : i <= w.cursor

\* A cursor stands for events that were behind it when it was handed out.
Promised(w) ==
    /\ w.pages # << >> => w.owed # {}
    /\ \A i \in w.owed : i \in w.filter /\ Behind(i, w.cursor)

WalkInv(w, stored, removed) ==
    /\ w.present \subseteq w.filter
    /\ w.present \subseteq stored \cup removed /\ w.owed \subseteq stored \cup removed
    /\ Ordered(w.pages)
    /\ w.ended => w.present \cap stored \subseteq Shown(w)
    /\ ~w.ended => Underway(w, stored) /\ Promised(w)

IInv == TypeInv /\ \A c \in Clients : walk[c] # None => WalkInv(walk[c], rows, gone)

\* Appending a page.
LEMMA ShownAppend ==
    ASSUME NEW w, w.pages \in Seq(SUBSET Ids), NEW page \in SUBSET Ids,
           NEW v, v.pages = Append(w.pages, page)
    PROVE  Shown(v) = Shown(w) \cup page
<1> DEFINE pages == w.pages
<1>1. DOMAIN Append(pages, page) = DOMAIN pages \cup {Len(pages) + 1}
  OBVIOUS
<1>2. \A n \in DOMAIN pages : Append(pages, page)[n] = pages[n]
  OBVIOUS
<1>3. Append(pages, page)[Len(pages) + 1] = page
  OBVIOUS
<1>4. Shown(v) = UNION {Append(pages, page)[n] : n \in DOMAIN Append(pages, page)}
  BY DEF Shown
<1>5. Shown(w) = UNION {pages[n] : n \in DOMAIN pages}
  BY DEF Shown
<1> QED  BY <1>1, <1>2, <1>3, <1>4, <1>5

\* The pages stay in order if the new one lies behind all that was shown.
LEMMA OrderedAppend ==
    ASSUME NEW pages \in Seq(SUBSET Ids), NEW page \in SUBSET Ids, Ordered(pages),
           NEW v, v.pages = pages, \A i \in Shown(v), j \in page : i < j
    PROVE  Ordered(Append(pages, page))
<1> DEFINE longer == Append(pages, page)
<1>1. DOMAIN longer = 1..(Len(pages) + 1) /\ DOMAIN pages = 1..Len(pages) /\ Len(pages) \in Nat
  OBVIOUS
<1>2. \A n \in DOMAIN pages : longer[n] = pages[n]
  OBVIOUS
<1>3. longer[Len(pages) + 1] = page
  OBVIOUS
<1> HIDE DEF longer
<1> SUFFICES ASSUME NEW m \in DOMAIN longer, NEW n \in DOMAIN longer, m < n,
                    NEW i \in longer[m], NEW j \in longer[n]
             PROVE  i < j
  BY DEF Ordered, longer
<1>4. m \in DOMAIN pages /\ longer[m] = pages[m]
  BY <1>1, <1>2
<1>5. CASE n \in DOMAIN pages
  BY <1>2, <1>4, <1>5 DEF Ordered
<1>6. CASE n = Len(pages) + 1
  <2>1. i \in Shown(v)
    BY <1>4 DEF Shown
  <2> QED  BY <1>3, <1>6, <2>1
<1> QED  BY <1>1, <1>5, <1>6

LEMMA InitIInv == Init => IInv
  BY DEF Init, IInv, TypeInv

-----------------------------------------------------------------------------
(* The table changes: a new event cannot have been there before, and an    *)
(* event that goes is owed to nobody.                                      *)

LEMMA TableInv ==
    ASSUME IInv, UNCHANGED walk, rows' \subseteq Ids, gone' \subseteq Ids,
           rows' \cap gone' = {}, rows \cup gone \subseteq rows' \cup gone',
           rows' \cap (rows \cup gone) \subseteq rows
    PROVE  IInv'
<1>1. TypeInv'
  BY DEF IInv, TypeInv
<1>2. ASSUME NEW c \in Clients, walk'[c] # None
      PROVE  WalkInv(walk'[c], rows', gone')
  <2> DEFINE w == walk[c]
  <2>1. walk'[c] = w /\ w # None
    BY <1>2
  <2>2. WalkInv(w, rows, gone)
    BY <2>1 DEF IInv
  <2>3. w.present \cap rows' \subseteq w.present \cap rows
    BY <2>2 DEF WalkInv
  <2> HIDE DEF w
  <2> QED  BY <2>1, <2>2, <2>3 DEF WalkInv, Underway, Promised
<1> QED  BY <1>1, <1>2 DEF IInv

LEMMA StoreEventInv ==
    ASSUME IInv, NEW i \in Ids, StoreEvent(i)
    PROVE  IInv'
<1>1. /\ UNCHANGED walk /\ rows' = rows \cup {i} /\ gone' = gone /\ i \notin rows \cup gone
      /\ rows \subseteq Ids /\ gone \subseteq Ids /\ rows \cap gone = {}
  BY DEF StoreEvent, IInv, TypeInv
<1> QED  BY <1>1, TableInv

LEMMA RemoveEventsInv ==
    ASSUME IInv, NEW ids \in SUBSET rows, RemoveEvents(ids)
    PROVE  IInv'
<1>1. /\ UNCHANGED walk /\ rows' = rows \ ids /\ gone' = gone \cup ids
      /\ rows \subseteq Ids /\ gone \subseteq Ids /\ rows \cap gone = {}
  BY DEF RemoveEvents, IInv, TypeInv
<1> QED  BY <1>1, TableInv

-----------------------------------------------------------------------------
(* The client's requests                                                   *)

\* Only the walk of one client changes.
LEMMA WalkChange ==
    ASSUME IInv, UNCHANGED <<rows, gone>>, NEW c \in Clients, NEW w \in Walks \cup {None},
           walk' = [walk EXCEPT ![c] = w], w # None => WalkInv(w, rows, gone)
    PROVE  IInv'
<1>1. TypeInv'
  BY DEF IInv, TypeInv
<1>2. ASSUME NEW d \in Clients, walk'[d] # None
      PROVE  WalkInv(walk'[d], rows', gone')
  <2>1. CASE d = c
    <3>1. walk'[d] = w
      BY <2>1 DEF IInv, TypeInv
    <3> QED  BY <1>2, <3>1 DEF WalkInv, Underway, Promised
  <2>2. CASE d # c
    <3>1. walk'[d] = walk[d]
      BY <2>2 DEF IInv, TypeInv
    <3>2. WalkInv(walk[d], rows, gone)
      BY <1>2, <3>1 DEF IInv
    <3> QED  BY <3>1, <3>2 DEF WalkInv, Underway, Promised
  <2> QED  BY <2>1, <2>2
<1> QED  BY <1>1, <1>2 DEF IInv

LEMMA GiveUpInv ==
    ASSUME IInv, NEW c \in Clients, GiveUp(c)
    PROVE  IInv'
  BY WalkChange DEF GiveUp

LEMMA StartWalkInv ==
    ASSUME IInv, NEW c \in Clients, NEW filter \in Filters, StartWalk(c, filter)
    PROVE  IInv'
<1> DEFINE w == [filter |-> filter, cursor |-> None, pages |-> << >>, ended |-> FALSE,
                 present |-> filter \cap rows, owed |-> {}]
<1>1. filter \subseteq Ids
  BY SearchAssumption
<1>2. w \in Walks
  <2>1. << >> \in Seq(SUBSET Ids)
    OBVIOUS
  <2> QED  BY <1>1, <2>1 DEF Walks
<1>3. WalkInv(w, rows, gone)
  <2>1. Ordered(w.pages)
    BY DEF Ordered
  <2>2. Underway(w, rows) /\ Promised(w)
    BY DEF Underway, Promised, Behind
  <2> QED  BY <2>1, <2>2 DEF WalkInv
<1>4. walk' = [walk EXCEPT ![c] = w] /\ UNCHANGED <<rows, gone>>
  BY DEF StartWalk
<1> HIDE DEF w
<1> QED  BY <1>2, <1>3, <1>4, WalkChange

\* A page is the front of what matches, and next_cursor is handed out exactly
\* if something is left.
LEMMA PageIsFront ==
    ASSUME NEW S, S \subseteq Nat, IsFiniteSet(S), NEW n \in Nat, n >= 1,
           NEW events, events = FirstOf(S, n + 1),
           NEW page, page = FirstOf(events, n)
    PROVE  /\ page \subseteq S
           /\ \A i \in S \ page, j \in page : j < i
           /\ HasMore(events, n) => S \ page # {}
           /\ ~HasMore(events, n) => page = S
<1>1. events \subseteq S /\ page \subseteq events
  BY DEF FirstOf
<1>2. IsFiniteSet(events) /\ Cardinality(events) \in Nat /\ events \subseteq Nat
  <2>1. IsFiniteSet(events)
    BY <1>1, FS_Subset
  <2> QED  BY <1>1, <2>1, FS_CardinalityType
<1>3. ASSUME NEW i \in S \ page, NEW j \in page
      PROVE  j < i
  <2>1. i \in Nat /\ j \in Nat /\ n + 1 \in Nat
    BY <1>1
  <2>2. SUFFICES ASSUME i <= j
                 PROVE  FALSE
    BY <2>1
  <2>3. i \in FirstOf(S, n + 1)
    BY <1>1, <2>1, <2>2, FirstOfClosed
  <2>4. i \in FirstOf(events, n)
    BY <1>2, <2>2, <2>3, FirstOfClosed
  <2> QED  BY <2>4
<1>4. ASSUME HasMore(events, n)
      PROVE  S \ page # {}
  <2>1. events \ page # {}
    BY <1>2, <1>4, FirstOfMany DEF HasMore
  <2> QED  BY <1>1, <2>1
<1>5. ASSUME ~HasMore(events, n)
      PROVE  page = S
  <2>1. Cardinality(events) <= n
    BY <1>2, <1>5 DEF HasMore
  <2>2. events = S
    BY <2>1, FirstOfAll
  <2>3. page = events
    BY <1>2, <2>1, FirstOfFew
  <2> QED  BY <2>2, <2>3
<1> QED  BY <1>1, <1>3, <1>4, <1>5

\* An empty page says that nothing matches.
LEMMA EmptyPage ==
    ASSUME NEW S, S \subseteq Nat, IsFiniteSet(S), NEW n \in Nat, n >= 1,
           FirstOf(FirstOf(S, n + 1), n) = {}
    PROVE  S = {}
<1>1. FirstOf(S, n + 1) \subseteq S
  BY DEF FirstOf
<1>2. FirstOf(S, n + 1) = {}
  BY <1>1, FirstOfNonempty
<1>3. n + 1 \in Nat /\ n + 1 >= 1
  OBVIOUS
<1> QED  BY <1>2, <1>3, FirstOfNonempty

\* The rows that the query of a walk finds.
Matching(w) == {i \in rows \cap w.filter : Behind(i, w.cursor)}

LEMMA MatchingType ==
    ASSUME TypeInv, NEW w \in Walks
    PROVE  Matching(w) \subseteq Ids /\ Matching(w) \subseteq Nat /\ IsFiniteSet(Matching(w))
<1>1. Matching(w) \subseteq Ids
  BY DEF TypeInv, Matching
<1> QED  BY <1>1, SearchAssumption, FS_Subset

\* A page lies behind everything shown before it.
LEMMA PageBehindShown ==
    ASSUME TypeInv, NEW w \in Walks, Underway(w, rows),
           NEW i \in Shown(w), NEW j \in Matching(w)
    PROVE  i < j
<1>1. w.cursor # None
  BY DEF Underway, Shown
<1>2. w.cursor \in Ids /\ j > w.cursor /\ i <= w.cursor /\ j \in Ids
  BY <1>1 DEF Underway, Matching, Behind, Walks, TypeInv
<1>3. i \in Ids
  <2>1. w.pages \in Seq(SUBSET Ids)
    BY DEF Walks
  <2>2. \A n \in DOMAIN w.pages : w.pages[n] \subseteq Ids
    BY <2>1
  <2> QED  BY <2>2 DEF Shown
<1>4. i \in Nat /\ j \in Nat /\ w.cursor \in Nat
  BY <1>2, <1>3, SearchAssumption
<1> QED  BY <1>2, <1>4

LEMMA TurnedType ==
    ASSUME NEW w \in Walks, NEW pages \in Seq(SUBSET Ids), NEW owed \in SUBSET Ids
    PROVE  [w EXCEPT !.pages = pages, !.owed = owed] \in Walks
  BY DEF Walks

LEMMA SearchEventsInv ==
    ASSUME IInv, NEW c \in Clients, NEW limit \in 1..MaxLimit, SearchEvents(c, limit)
    PROVE  IInv'
<1> DEFINE w == walk[c]
           events == FirstOf(Matching(w), limit + 1)
           page == FirstOf(events, limit)
           turned == [w EXCEPT !.pages = Append(@, page), !.owed = Matching(w) \ page]
           final == [turned EXCEPT !.ended = TRUE]
           next(i) == [turned EXCEPT !.cursor = i]
<1>1. TypeInv /\ w \in Walks /\ WalkInv(w, rows, gone) /\ ~w.ended /\ w # None
  BY DEF IInv, TypeInv, SearchEvents
<1>2. Underway(w, rows) /\ Promised(w)
  BY <1>1 DEF WalkInv
<1>3. limit \in Nat /\ limit >= 1
  BY SearchAssumption
<1>4. Matching(w) \subseteq Ids /\ Matching(w) \subseteq Nat /\ IsFiniteSet(Matching(w))
  BY <1>1, MatchingType
<1>5. /\ page \subseteq Matching(w)
      /\ \A i \in Matching(w) \ page, j \in page : j < i
      /\ HasMore(events, limit) => Matching(w) \ page # {}
      /\ ~HasMore(events, limit) => page = Matching(w)
  BY <1>3, <1>4, PageIsFront
<1>6. /\ UNCHANGED <<rows, gone>>
      /\ \/ HasMore(events, limit) /\ \E i \in Ids : NextCursor(i, events, page)
                                         /\ walk' = [walk EXCEPT ![c] = next(i)]
         \/ ~HasMore(events, limit) /\ walk' = [walk EXCEPT ![c] = final]
  BY DEF SearchEvents, Matching
<1>7. w = [filter |-> w.filter, cursor |-> w.cursor, pages |-> w.pages, ended |-> w.ended,
           present |-> w.present, owed |-> w.owed]
  BY <1>1 DEF Walks
<1>8. /\ w.filter \in Filters /\ w.cursor \in Ids \cup {None} /\ w.pages \in Seq(SUBSET Ids)
      /\ w.present \subseteq Ids
  BY <1>1 DEF Walks
<1> HIDE DEF w, events, page
<1>9. /\ turned.filter = w.filter /\ turned.cursor = w.cursor /\ turned.ended = w.ended
      /\ turned.present = w.present /\ turned.owed = Matching(w) \ page
      /\ turned.pages = Append(w.pages, page)
  BY <1>7
<1>10. final \in Walks /\ \A i \in Ids : next(i) \in Walks
  <2>1. Append(w.pages, page) \in Seq(SUBSET Ids)
    BY <1>4, <1>5, <1>8
  <2>2. Matching(w) \ page \subseteq Ids
    BY <1>4
  <2>3. turned \in Walks
    BY <1>1, <2>1, <2>2, TurnedType
  <2> HIDE DEF turned
  <2> QED  BY <2>3 DEF Walks
<1>11. Ordered(Append(w.pages, page))
  <2>1. \A i \in Shown(w), j \in page : i < j
    BY <1>1, <1>2, <1>5, PageBehindShown
  <2>2. page \in SUBSET Ids /\ Ordered(w.pages)
    BY <1>1, <1>4, <1>5 DEF WalkInv
  <2> QED  BY <1>8, <2>1, <2>2, OrderedAppend
<1>12. \A v : v.pages = Append(w.pages, page) => Shown(v) = Shown(w) \cup page
  <2>1. page \in SUBSET Ids
    BY <1>4, <1>5
  <2> QED  BY <1>8, <2>1, ShownAppend
<1>13. ASSUME ~HasMore(events, limit), walk' = [walk EXCEPT ![c] = final]
       PROVE  IInv'
  <2>1. /\ final.pages = Append(w.pages, page) /\ final.present = w.present
        /\ final.filter = w.filter /\ final.owed = {} /\ final.ended
    BY <1>5, <1>7, <1>13
  <2>2. w.present \cap rows \subseteq Shown(final)
    BY <1>1, <1>2, <1>5, <1>12, <1>13, <2>1 DEF Underway, WalkInv, Matching
  <2>3. WalkInv(final, rows, gone)
    BY <1>1, <1>11, <2>1, <2>2 DEF WalkInv
  <2> HIDE DEF final
  <2> QED  BY <1>6, <1>10, <1>13, <2>3, WalkChange
<1>14. ASSUME HasMore(events, limit), NEW i \in Ids, NextCursor(i, events, page),
              walk' = [walk EXCEPT ![c] = next(i)]
       PROVE  IInv'
  <2> DEFINE v == next(i)
  <2>1. /\ v.pages = Append(w.pages, page) /\ v.present = w.present /\ v.filter = w.filter
        /\ v.owed = Matching(w) \ page /\ ~v.ended /\ v.cursor = i
    BY <1>1, <1>7
  <2>2. i \in page /\ (\A j \in page : j <= i) /\ i \in Nat /\ i # None
    BY <1>14, SearchAssumption DEF NextCursor, LastIn
  <2>3. \A j \in Matching(w) \ page : Behind(j, i)
    BY <1>4, <1>5, <2>2 DEF Behind
  <2>4. Shown(v) = Shown(w) \cup page
    BY <1>12, <2>1
  <2> HIDE DEF v
  <2>5. Underway(v, rows)
    <3>1. \A j \in w.present \cap rows : j \in Shown(v) \/ Behind(j, i)
      BY <1>1, <1>2, <2>3, <2>4 DEF Underway, WalkInv, Matching
    <3>2. \A j \in Shown(v) : j <= i
      <4>1. ASSUME NEW j \in Shown(w)
            PROVE  j <= i
        <5>1. j < i
          BY <1>1, <1>2, <1>5, <2>2, PageBehindShown
        <5>2. j \in Ids
          <6>1. \A n \in DOMAIN w.pages : w.pages[n] \subseteq Ids
            BY <1>8
          <6> QED  BY <6>1 DEF Shown
        <5> QED  BY <2>2, <5>1, <5>2, SearchAssumption
      <4> QED  BY <2>2, <2>4, <4>1
    <3> QED  BY <2>1, <2>2, <3>1, <3>2 DEF Underway
  <2>6. Promised(v)
    BY <1>5, <1>14, <2>1, <2>3 DEF Promised, Matching
  <2>7. v.owed \subseteq rows
    BY <2>1 DEF Matching
  <2>8. WalkInv(v, rows, gone)
    BY <1>1, <1>11, <2>1, <2>5, <2>6, <2>7 DEF WalkInv
  <2>9. v \in Walks /\ walk' = [walk EXCEPT ![c] = v]
    BY <1>10, <1>14 DEF v
  <2> QED  BY <1>6, <2>8, <2>9, WalkChange
<1> QED  BY <1>6, <1>13, <1>14

LEMMA NextInv == IInv /\ [Next]_vars => IInv'
<1> SUFFICES ASSUME IInv, [Next]_vars
             PROVE  IInv'
  OBVIOUS
<1>1. CASE \E i \in Ids : StoreEvent(i)
  BY <1>1, StoreEventInv
<1>2. CASE \E ids \in SUBSET rows : RemoveEvents(ids)
  BY <1>2, RemoveEventsInv
<1>3. ASSUME NEW c \in Clients, \E filter \in Filters : StartWalk(c, filter)
      PROVE  IInv'
  BY <1>3, StartWalkInv
<1>4. ASSUME NEW c \in Clients, SearchNext(c)
      PROVE  IInv'
  BY <1>4, SearchEventsInv DEF SearchNext
<1>5. ASSUME NEW c \in Clients, GiveUp(c)
      PROVE  IInv'
  BY <1>5, GiveUpInv
<1>6. CASE UNCHANGED vars
  BY <1>6, TableInv DEF vars, IInv, TypeInv
<1> QED  BY <1>1, <1>2, <1>3, <1>4, <1>5, <1>6 DEF Next

-----------------------------------------------------------------------------
(* Theorems                                                                *)

LEMMA Invariance == Spec => []IInv
<1> QED  BY InitIInv, NextInv, PTL DEF Spec

\* A finished walk has shown every matching event that was stored when it
\* began and still is, whatever ingestion and retention did in between.
THEOREM NothingSkipped == Spec => []WalkComplete
<1>1. IInv => WalkComplete
  BY DEF IInv, WalkInv, WalkComplete
<1> QED  BY <1>1, Invariance, PTL

\* The pages of a walk are in order and disjoint, though the table changes
\* before and behind its cursor.
THEOREM NothingRepeated == Spec => []PagesInOrder
<1>1. IInv => PagesInOrder
  BY DEF IInv, WalkInv, Ordered, PagesInOrder
<1> QED  BY <1>1, Invariance, PTL

\* Only a request for the next page appends one, and only what it found.
LEMMA AppendedPage ==
    ASSUME IInv, Next, NEW c \in Clients, walk[c] # None, walk'[c] # None,
           walk'[c].pages = Append(walk[c].pages, {})
    PROVE  ~walk[c].ended /\ Matching(walk[c]) = {}
<1> DEFINE w == walk[c]
<1>1. TypeInv /\ w \in Walks /\ w.pages \in Seq(SUBSET Ids)
  BY DEF IInv, TypeInv, Walks
<1>2. w.pages # Append(w.pages, {}) /\ Append(w.pages, {}) # << >>
  <2>1. Len(Append(w.pages, {})) = Len(w.pages) + 1 /\ Len(w.pages) \in Nat /\ Len(<< >>) = 0
    BY <1>1
  <2> QED  BY <2>1
<1>3. walk'[c] # walk[c]
  BY <1>2
<1>4. PICK d \in Clients : \/ \E filter \in Filters : StartWalk(d, filter)
                           \/ SearchNext(d)
                           \/ GiveUp(d)
  BY <1>3 DEF Next, StoreEvent, RemoveEvents
<1>5. d = c
  BY <1>1, <1>3, <1>4 DEF StartWalk, SearchNext, SearchEvents, GiveUp, TypeInv
<1>6. ASSUME NEW filter \in Filters, StartWalk(c, filter)
      PROVE  FALSE
  <2>1. walk'[c].pages = << >>
    BY <1>1, <1>6 DEF StartWalk, TypeInv
  <2> QED  BY <1>2, <2>1
<1>7. ~GiveUp(c)
  BY <1>1 DEF GiveUp, TypeInv
<1>8. PICK limit \in 1..MaxLimit : SearchEvents(c, limit)
  BY <1>4, <1>5, <1>6, <1>7 DEF SearchNext
<1> DEFINE events == FirstOf(Matching(w), limit + 1)
           page == FirstOf(events, limit)
<1>9. ~w.ended /\ walk'[c].pages = Append(w.pages, page)
  BY <1>1, <1>8, ZenonT(30) DEF SearchEvents, Matching, TypeInv, Walks
<1>10. page = {}
  <2>1. Append(w.pages, page)[Len(w.pages) + 1] = page
    BY <1>1
  <2>2. Append(w.pages, {})[Len(w.pages) + 1] = {}
    BY <1>1
  <2> HIDE DEF page
  <2> QED  BY <1>9, <2>1, <2>2
<1>11. Matching(w) \subseteq Nat /\ IsFiniteSet(Matching(w)) /\ limit \in Nat /\ limit >= 1
  BY <1>1, SearchAssumption, MatchingType
<1>12. Matching(w) = {}
  BY <1>10, <1>11, EmptyPage
<1> QED  BY <1>9, <1>12

\* An empty page behind a cursor means that retention has removed every event
\* for which the cursor was handed out.
THEOREM EmptyPageIsRetention == Spec => EmptyPageExplained
<1> DEFINE explained ==
        \A c \in Clients :
            /\ walk[c] # None /\ walk'[c] # None
            /\ walk[c].pages # << >> /\ walk'[c].pages = Append(walk[c].pages, {})
            => walk[c].owed # {} /\ walk[c].owed \subseteq gone
<1>1. IInv /\ [Next]_vars => [explained]_vars
  <2> SUFFICES ASSUME IInv, Next, NEW c \in Clients, walk[c] # None, walk'[c] # None,
                      walk[c].pages # << >>,
                      walk'[c].pages = Append(walk[c].pages, {})
               PROVE  walk[c].owed # {} /\ walk[c].owed \subseteq gone
    OBVIOUS
  <2>1. ~walk[c].ended /\ Matching(walk[c]) = {}
    BY AppendedPage
  <2>2. Promised(walk[c]) /\ walk[c].owed \subseteq rows \cup gone
    BY <2>1 DEF IInv, WalkInv
  <2> QED  BY <2>1, <2>2 DEF Promised, Matching
<1> QED  BY <1>1, Invariance, PTL DEF Spec, EmptyPageExplained
=============================================================================
