----------------------------- MODULE EventDelta -----------------------------
(***************************************************************************)
(* Differences of object states (sieve_common/event_delta.py): the         *)
(* difference of two states, the canonical form that hides the fields      *)
(* which differ from run to run, and containment.  The analyzer computes   *)
(* the differences that go into a test plan, and the test coordinator      *)
(* looks for them with the same functions in Go (sieve_server/event.go).   *)
(*                                                                         *)
(* An object state is a tree.  A node is a record with one field: map (a   *)
(* function from field names), list (a sequence) or leaf (a value).  None  *)
(* stands for Python's None.  A path is the sequence of the field names,   *)
(* and "*" for a position in a list.                                       *)
(***************************************************************************)
EXTENDS Integers, Sequences, FiniteSets, SequencesExt

CONSTANT RandomValues   \* the strings that match_mask_regex accepts

IsMap(v)  == "map" \in DOMAIN v
IsList(v) == "list" \in DOMAIN v

Leaf(x) == [leaf |-> x]
Mask == Leaf("SIEVE-NON-NIL")
Skip == Leaf("SIEVE-SKIP")
EmptyMap == [map |-> [k \in {} |-> Skip]]

None == <<>>
-----------------------------------------------------------------------------
(* The difference of two trees: None, or the pair of what the first has and *)
(* the second has not, and the reverse.                                     *)

RECURSIVE diff_event_as_list(_, _), diff_event_as_map(_, _), diff_value(_, _)

\* The cases that both functions below make for two values at the same place.
diff_value(p, c) ==
    IF IsMap(p) /\ IsMap(c) THEN diff_event_as_map(p, c)
    ELSE IF IsList(p) /\ IsList(c) THEN diff_event_as_list(p, c)
    ELSE IF p = c THEN None
    ELSE <<p, c>>

\* Mutant: lists are compared only as far as both reach.
diff_event_as_list_Zip(p, c) ==
    LET both == 1..Min({Len(p.list), Len(c.list)})
        sub  == [i \in both |-> diff_value(p.list[i], c.list[i])]
        side(s) == [i \in both |-> IF sub[i] # None THEN sub[i][s] ELSE Skip]
    IN  IF \A i \in both : sub[i] = None THEN None
        ELSE <<[list |-> side(1)], [list |-> side(2)]>>

diff_event_as_list(p, c) ==
    LET both == 1..Min({Len(p.list), Len(c.list)})
        sub  == [i \in both |-> diff_value(p.list[i], c.list[i])]
        side(l, s) == [i \in DOMAIN l |-> IF i \notin both THEN l[i]
                                          ELSE IF sub[i] # None THEN sub[i][s] ELSE Skip]
    IN  IF Len(p.list) = Len(c.list) /\ \A i \in both : sub[i] = None THEN None
        ELSE <<[list |-> side(p.list, 1)], [list |-> side(c.list, 2)]>>

diff_event_as_map(p, c) ==
    LET both    == DOMAIN p.map \cap DOMAIN c.map
        sub     == [k \in both |-> diff_value(p.map[k], c.map[k])]
        changed == {k \in both : sub[k] # None}
        side(m, s) == [k \in changed \cup (DOMAIN m \ both) |->
                         IF k \in changed THEN sub[k][s] ELSE m[k]]
        prev == side(p.map, 1)
        cur  == side(c.map, 2)
    IN  IF DOMAIN prev = {} /\ DOMAIN cur = {} THEN None
        ELSE <<[map |-> prev], [map |-> cur]>>
-----------------------------------------------------------------------------
(* The canonical form: masked fields and values that look random lose their *)
(* value.  keys are masked wherever they occur, paths from the root.        *)

canonicalize_value(v) == IF v.leaf \in RandomValues THEN Mask ELSE v

RECURSIVE canonicalize(_, _, _, _)

\* canonicalize_event_as_map, canonicalize_event_as_list and the leaves.
canonicalize(v, path, keys, paths) ==
    IF IsMap(v)
    THEN [map |-> [k \in DOMAIN v.map |->
                     IF k \in keys \/ Append(path, k) \in paths THEN Mask
                     ELSE canonicalize(v.map[k], Append(path, k), keys, paths)]]
    ELSE IF IsList(v)
    THEN [list |-> [i \in DOMAIN v.list |->
                      IF Append(path, "*") \in paths THEN Mask
                      ELSE canonicalize(v.list[i], Append(path, "*"), keys, paths)]]
    ELSE canonicalize_value(v)

canonicalize_event(event, keys, paths) == canonicalize(event, <<>>, keys, paths)

trim_kind_apiversion(event) ==
    [map |-> [k \in DOMAIN event.map \ {"kind", "apiVersion"} |-> event.map[k]]]

\* trim_ka and can say whether the states are trimmed and made canonical first.
diff_event(prev, cur, keys, paths, trim_ka, can) ==
    LET trim(e) == IF trim_ka THEN trim_kind_apiversion(e) ELSE e
        canon(e) == IF can THEN canonicalize_event(e, keys, paths) ELSE e
    IN  diff_event_as_map(canon(trim(prev)), canon(trim(cur)))
-----------------------------------------------------------------------------
(* Containment, and the comparison of the fields.                           *)

RECURSIVE part_of(_, _)
\* part_of_event_as_map and part_of_event_as_list.
part_of(small, large) ==
    IF IsMap(small)
    THEN IsMap(large) /\ \A k \in DOMAIN small.map :
            k \in DOMAIN large.map /\ part_of(small.map[k], large.map[k])
    ELSE IF IsList(small)
    THEN /\ IsList(large) /\ Len(small.list) = Len(large.list)
         /\ \A i \in DOMAIN small.list :
               small.list[i] = Skip \/ part_of(small.list[i], large.list[i])
    ELSE small = large

RECURSIVE same_key(_, _)
same_key(prev, cur) ==
    /\ DOMAIN prev.map = DOMAIN cur.map
    /\ \A k \in DOMAIN prev.map :
          IsMap(prev.map[k]) => IsMap(cur.map[k]) /\ same_key(prev.map[k], cur.map[k])
=============================================================================
