---------------------------- MODULE EventService ----------------------------
(***************************************************************************)
(* What POST /events and POST /events/batch promise, without statements,   *)
(* locks or hashes: every item of a call takes effect at one moment        *)
(* between its receipt and its answer.  It is created if no retained event *)
(* has its external id, recognized if one has its content too, refused     *)
(* otherwise.  A call may be lost at any moment; it fails of itself only   *)
(* if another took the id of its item or the event it created is gone.     *)
(* Only events older than the retention period cease to be retained.       *)
(***************************************************************************)
EXTENDS Integers, Sequences

CONSTANTS Apps,       \* the applications
          Requests,   \* the calls
          Entries,    \* what can be recorded: external_id, occurred_at, ...
          MinAge,     \* no entry younger than this ever disappears
          None        \* no call yet

VARIABLES retained,   \* app -> the retained events, each a place and an entry
          count,      \* app -> how many events were ever created
          call,       \* request -> [app, batch, items], or None
          created,    \* request -> the place of the event created for the item
                      \* at hand, 0 if there is none
          outcomes,   \* request -> what is settled, item by item
          answer,     \* request -> what the client was told
          clock       \* the time

callVars == <<call, created, outcomes, answer>>
vars == <<retained, count, callVars, clock>>

Calls == [app : Apps, batch : BOOLEAN, items : Seq(Entries)]

Init == /\ retained = [a \in Apps |-> {}]
        /\ count = [a \in Apps |-> 0]
        /\ call = [r \in Requests |-> None]
        /\ created = [r \in Requests |-> 0]
        /\ outcomes = [r \in Requests |-> << >>]
        /\ answer = [r \in Requests |-> "uncalled"]
        /\ clock = 0

Open(r) == answer[r] = "none"
App(r) == call[r].app
Item(r) == call[r].items[Len(outcomes[r]) + 1]
Namesakes(r) == {e \in retained[App(r)] : e.entry.external_id = Item(r).external_id}
Exists(r) == \E e \in retained[App(r)] : e.place = created[r]

\* Any call, on any application.
Call(r) ==
    /\ answer[r] = "uncalled"
    /\ call'[r] \in Calls /\ call' = [call EXCEPT ![r] = call'[r]]
    /\ answer' = [answer EXCEPT ![r] = "none"]
    /\ UNCHANGED <<retained, count, created, outcomes>>

Create(r) ==
    /\ Open(r) /\ created[r] = 0
    /\ Namesakes(r) = {}
    /\ count' = [count EXCEPT ![App(r)] = @ + 1]
    /\ retained' = [retained EXCEPT ![App(r)] =
                        @ \cup {[place |-> count[App(r)] + 1, entry |-> Item(r)]}]
    /\ created' = [created EXCEPT ![r] = count[App(r)] + 1]
    /\ UNCHANGED <<call, outcomes, answer>>

Settle(r, status, place) ==
    /\ outcomes' = [outcomes EXCEPT ![r] = Append(@, [status |-> status, stored |-> place])]
    /\ answer' = [answer EXCEPT ![r] =
                    IF Len(outcomes[r]) + 1 = Len(call[r].items) THEN "ok" ELSE @]
    /\ created' = [created EXCEPT ![r] = 0]

End(r, reply) ==
    /\ answer' = [answer EXCEPT ![r] = reply]
    /\ created' = [created EXCEPT ![r] = 0]
    /\ UNCHANGED outcomes

Accept(r) ==
    /\ Open(r) /\ created[r] # 0
    /\ Exists(r)
    /\ Settle(r, "accepted", created[r])
    /\ UNCHANGED <<retained, count, call>>

Recognize(r) ==
    /\ Open(r) /\ created[r] = 0
    /\ \E e \in Namesakes(r) : e.entry = Item(r) /\ Settle(r, "duplicate", e.place)
    /\ UNCHANGED <<retained, count, call>>

Refuse(r) ==
    /\ Open(r) /\ created[r] = 0
    /\ \E e \in Namesakes(r) : e.entry # Item(r)
    /\ IF call[r].batch THEN Settle(r, "rejected", 0) ELSE End(r, "conflict")
    /\ UNCHANGED <<retained, count, call>>

Fail(r) ==
    /\ Open(r)
    /\ IF created[r] = 0 THEN Namesakes(r) # {} ELSE ~Exists(r)
    /\ End(r, "error")
    /\ UNCHANGED <<retained, count, call>>

Lose(r) ==
    /\ Open(r)
    /\ End(r, "lost")
    /\ UNCHANGED <<retained, count, call>>

\* Some events are no longer retained.
Expire ==
    /\ retained' = [a \in Apps |-> retained'[a]]
    /\ \A a \in Apps :
         /\ retained'[a] \subseteq retained[a]
         /\ \A e \in retained[a] \ retained'[a] : e.entry.occurred_at < clock - MinAge
    /\ UNCHANGED <<count, callVars>>

Next ==
    \/ (\E r \in Requests : Create(r)) /\ clock' > clock
    \/ /\ \E r \in Requests :
            Call(r) \/ Accept(r) \/ Recognize(r) \/ Refuse(r) \/ Fail(r) \/ Lose(r)
       /\ UNCHANGED clock
    \/ Expire /\ UNCHANGED clock
    \/ clock' > clock /\ UNCHANGED <<retained, count, callVars>>

Spec == Init /\ [][Next]_vars
=============================================================================
