---------------------------- MODULE MCAuditChain ----------------------------
(* Small instances of AuditChain.                                          *)
EXTENDS AuditChain, TLC

CONSTANTS e1, e2, e3

\* Old events expire during a run, expired ones are past their retention period
\* from the start, young ones never expire within the bounds.
Old == 0
Expired == -5
Young == 9

Event(id, at, offset, body) ==
    [event_id |-> id, occurred_at |-> at, utcoffset |-> offset, body |-> body]

First == Event(e1, Old, 0, "x")
FirstElsewhere == Event(e1, Old + 2, 2, "x")   \* the same instant in another zone
FirstAltered == Event(e1, Old, 0, "y")
Second == Event(e2, Old, 0, "x")
SecondYoung == Event(e2, Young, 0, "x")
Third == Event(e3, Old, 0, "x")
ThirdExpired == Event(e3, Expired, 0, "x")

Post(payload) == [batch |-> FALSE, items |-> <<payload>>]
Batch(items) == [batch |-> TRUE, items |-> items]

SafetyPayloads == {First, FirstElsewhere, FirstAltered, SecondYoung, Third, ThirdExpired}

\* A batch that meets a twin of its second item after a run removed its first.
WritersPosts == {Post(FirstAltered), Batch(<<ThirdExpired, FirstElsewhere>>)}

RunsPosts == {Post(First), Post(SecondYoung), Post(Third)}

\* The twin in another zone, too.
ZonesPosts == RunsPosts \cup {Post(FirstElsewhere)}

\* Events that a run may remove as soon as they are committed: a row goes
\* before its request has refreshed it, and a twin waits for the run's checkpoint.
FirstExpired == Event(e1, Expired, 0, "x")
LivenessPayloads == {FirstExpired}
LivenessPosts == {Post(FirstExpired)}

Policy(days, hold) == [retention_days |-> days, legal_hold |-> hold]
OnePolicy == {Policy(1, FALSE)}
HoldPolicies == {Policy(1, FALSE), Policy(1, TRUE)}

Symmetry == Permutations(Requests) \cup Permutations(Runs)
=============================================================================
