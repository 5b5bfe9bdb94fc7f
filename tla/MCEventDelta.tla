---------------------------- MODULE MCEventDelta ----------------------------
(***************************************************************************)
(* EventDelta on bounded inputs: an object goes through up to three        *)
(* states, as the events of one key do in a log, under some masks.  The    *)
(* states have two fields.  The first holds a value, a map or a list (also *)
(* of maps), the second a value, which may be a random one.                *)
(***************************************************************************)
EXTENDS EventDelta

INSTANCE EventMatch WITH NoDiff <- None, NoFields <- EmptyMap, DiffEvent <- diff_event,
                         CanonicalizeEvent <- canonicalize_event, PartOf <- part_of,
                         SameKey <- same_key, TrimKindApiversion <- trim_kind_apiversion

VARIABLES keys, paths,   \* the masked keys and paths
          states         \* the states of the object so far

vars == <<keys, paths, states>>

x == Leaf("x")
y == Leaf("y")
MapC(v) == [map |-> [k \in {"c"} |-> v]]
List(s) == [list |-> s]

FirstFields == {x, EmptyMap, MapC(x), MapC(y), List(<<>>), List(<<x>>), List(<<y>>),
                List(<<x, y>>), List(<<MapC(x)>>), List(<<MapC(y), x>>)}
SecondFields == {x, Leaf("time1"), Leaf("time2")}

\* Every state has some of the fields.
Events == UNION {[map : [D -> FirstFields \cup SecondFields]] : D \in SUBSET {"a", "b"}}
ObjectStates == {e \in Events : /\ "a" \in DOMAIN e.map => e.map["a"] \in FirstFields
                                /\ "b" \in DOMAIN e.map => e.map["b"] \in SecondFields}

MaskSets == {<<{}, {}>>, <<{"c"}, {}>>, <<{}, {<<"a", "*">>}>>, <<{}, {<<"b">>}>>}

Init == /\ \E m \in MaskSets : keys = m[1] /\ paths = m[2]
        /\ states = <<>>

Observe(e) == /\ Len(states) < 3
              /\ states' = Append(states, e)
              /\ UNCHANGED <<keys, paths>>

Next == \E e \in ObjectStates : Observe(e)

Spec == Init /\ [][Next]_vars
-----------------------------------------------------------------------------
Canonical(i) == canonicalize_event(states[i], keys, paths)
Diff(i) == diff_event(states[i - 1], states[i], keys, paths, FALSE, TRUE)

\* Reference: the tree that v becomes when the part dp of it is replaced by dc.
RECURSIVE Patched(_, _, _)
Patched(v, dp, dc) ==
    IF IsMap(dp) /\ IsMap(dc)
    THEN [map |-> [k \in (DOMAIN v.map \ DOMAIN dp.map) \cup DOMAIN dc.map |->
                     IF k \notin DOMAIN dc.map THEN v.map[k]
                     ELSE IF k \notin DOMAIN dp.map THEN dc.map[k]
                     ELSE Patched(v.map[k], dp.map[k], dc.map[k])]]
    ELSE IF IsList(dp) /\ IsList(dc)
    THEN [list |-> [i \in DOMAIN dc.list |->
                     IF dc.list[i] = Skip THEN v.list[i]
                     ELSE IF i \notin DOMAIN dp.list THEN dc.list[i]
                     ELSE Patched(v.list[i], dp.list[i], dc.list[i])]]
    ELSE dc

\* The two sides that diff_event returns say exactly how the canonical form of
\* the first state becomes that of the second: replacing one by the other gives
\* the second state, and there is no difference only if there is none.
DiffIsExact ==
    Len(states) >= 2 =>
        LET p == Canonical(1)
            c == Canonical(2)
            d == Diff(2)
        IN  IF p = c THEN d = None ELSE d # None /\ Patched(p, d[1], d[2]) = c

\* A difference that is written into a test plan is met by the two states that
\* it comes from, for the exact comparison of the points in the controller and for
\* the containment of the points in the API servers (isDesiredUpdate), and an event
\* never conflicts with itself (conflicting_event_payload).
DiffIsMet ==
    Len(states) >= 2 /\ Diff(2) # None =>
        /\ \A exact \in BOOLEAN :
              isDesiredUpdate(states[1], states[2], Diff(2), keys, paths, exact)
        /\ ~conflicting_event_payload(slim_cur(Diff(2)), states[2], keys, paths)

\* The analyzer takes a later event to cancel an update (conflicting_event_payload)
\* exactly if the coordinator resumes a paused controller on it
\* (isAnyFieldModified), although only one of them makes the update canonical again.
ResumeTriggerAgrees ==
    Len(states) = 3 /\ Diff(2) # None =>
        (conflicting_event_payload(slim_cur(Diff(2)), states[3], keys, paths)
           <=> isAnyFieldModified(states[3], slim_cur(Diff(2)), keys, paths))

\* The coordinator, in Go, sees in the states of an object what the analyzer, in
\* Python, saw when it made the plan: the update itself, and what overwrites it.
SidesAgree == DiffIsMet /\ ResumeTriggerAgrees
=============================================================================
