----------------------------- MODULE EventMatch -----------------------------
(***************************************************************************)
(* What the analyzer and the test coordinator do with the difference of    *)
(* two object states: the analyzer looks for later states that overwrite a *)
(* change (sieve_analyzer/event_graph.py), and the coordinator for an      *)
(* update that repeats it or undoes it (sieve_server/event.go).  Both rest *)
(* on the functions on trees of module EventDelta, which are parameters    *)
(* here: what is said about matching holds whatever they compute.          *)
(***************************************************************************)
CONSTANTS
    NoDiff, NoFields,             \* None; an object without fields
    DiffEvent(_, _, _, _, _, _),  \* diff_event: prev, cur, masked keys and paths, trim_ka, can
    CanonicalizeEvent(_, _, _),   \* canonicalize_event: event, masked keys and paths
    PartOf(_, _),                 \* part_of_event_as_map
    SameKey(_, _),                \* same_key
    TrimKindApiversion(_)         \* trimKindApiversion

\* What the analyzer keeps as slim_prev_obj_map and slim_cur_obj_map.
slim_prev(d) == IF d = NoDiff THEN NoDiff ELSE d[1]
slim_cur(d)  == IF d = NoDiff THEN NoDiff ELSE d[2]

\* Mutant: the later state is compared as it came.
conflicting_event_payload_Raw(small, large, keys, paths) ==
    small # NoDiff /\ ~PartOf(small, large)

conflicting_event_payload(small, large, keys, paths) ==
    small # NoDiff /\ ~PartOf(small, CanonicalizeEvent(large, keys, paths))
-----------------------------------------------------------------------------
(* The test coordinator's side (isDesiredUpdate, isAnyFieldModified).       *)

isDesiredUpdate(prev, cur, desired, keys, paths, exactMatch) ==
    LET actual == DiffEvent(prev, cur, keys, paths, FALSE, TRUE)
        within(small, large) == \* a missing difference is an empty map in Go
            small = NoDiff \/ (large # NoDiff /\ PartOf(small, large))
    IN  IF exactMatch THEN actual = desired
        ELSE /\ within(slim_prev(desired), slim_prev(actual))
             /\ within(slim_cur(desired), slim_cur(actual))

isAnyFieldModified(cur, slim, keys, paths) ==
    ~PartOf(CanonicalizeEvent(slim, keys, paths), CanonicalizeEvent(cur, keys, paths))
=============================================================================
