----------------------------- MODULE EventGraph -----------------------------
(***************************************************************************)
(* The graph of the events of a learn run                                  *)
(* (sieve_analyzer/event_graph.py): what each event changed, how often the *)
(* same change was seen before, which later events overwrite it, and the   *)
(* order of the events of the reconcilers.  A vertex is the index of a     *)
(* hear in controller_hears, or the record of a write; the edges from      *)
(* hears to writes are HearWrite of module Analyzer.                       *)
(*                                                                         *)
(* A mask map is a function from patterns, each of them the set of the     *)
(* resource keys that it matches, to sets of field names or paths.         *)
(***************************************************************************)
EXTENDS Analyzer, EventMatch

CONSTANTS configured_masked_keys, configured_masked_paths, learned_masked_paths

get_mask_by_resource_key(m, key) == UNION {m[p] : p \in {q \in DOMAIN m : key \in q}}

MaskedKeys(key) == get_mask_by_resource_key(configured_masked_keys, key)
MaskedPaths(key) == get_mask_by_resource_key(configured_masked_paths, key)
                      \cup get_mask_by_resource_key(learned_masked_paths, key)

is_creation_or_deletion(etype) == etype \in {"Added", "Deleted", "Create", "Delete"}

\* get_event_signature: a creation and a deletion are known by their type alone.
get_event_signature(etype, diff) ==
    IF is_creation_or_deletion(etype) THEN <<etype>> ELSE <<etype, diff>>
-----------------------------------------------------------------------------
(* compute_event_diff, for the events that the controller hears.            *)

Hears == DOMAIN controller_hears

\* get_prev_controller_hear_with_key; 0 stands for None.
PrevHear(i) ==
    LET before == {j \in 1..(i - 1) : controller_hears[j].key = controller_hears[i].key}
    IN  IF before = {} THEN 0 ELSE CHOOSE j \in before : \A l \in before : l <= j

PrevObj(i) == IF PrevHear(i) = 0 THEN NoFields ELSE controller_hears[PrevHear(i)].obj
PrevEtype(i) == IF PrevHear(i) = 0 THEN "NONE_TYPE" ELSE controller_hears[PrevHear(i)].etype

HearDiff(i) ==
    LET h == controller_hears[i]
    IN  DiffEvent(PrevObj(i), h.obj, MaskedKeys(h.key), MaskedPaths(h.key), FALSE, TRUE)

HearSignature(i) == get_event_signature(controller_hears[i].etype, HearDiff(i))

\* Mutant: the counter starts again with every creation of the object.
HearCounter_SinceCreation(i) ==
    Cardinality({j \in 1..i : /\ controller_hears[j].key = controller_hears[i].key
                              /\ HearSignature(j) = HearSignature(i)
                              /\ \A l \in (j + 1)..i : controller_hears[l].etype # "Added"})

\* signature_counter of a hear.
HearCounter(i) ==
    Cardinality({j \in 1..i : /\ controller_hears[j].key = controller_hears[i].key
                              /\ HearSignature(j) = HearSignature(i)})
-----------------------------------------------------------------------------
(* compute_event_diff, for the writes.                                      *)

\* The reads of the object in the round of the write.
ReadsOf(w) ==
    {r \in controller_reads : /\ w.key \in r.input.key_set /\ r.end < w.start
                              /\ r.reconcile_fun = w.reconcile_fun
                              /\ r.reconcile_id = w.reconcile_id}

WritePrevObj(w) ==
    IF ReadsOf(w) = {} THEN NoFields
    ELSE (CHOOSE r \in ReadsOf(w) : \A q \in ReadsOf(w) : q.end <= r.end).input.objs[w.key]

WriteDiff(w) ==
    DiffEvent(WritePrevObj(w), w.obj, MaskedKeys(w.key), MaskedPaths(w.key), TRUE, TRUE)

WriteSignature(w) == get_event_signature(w.etype, WriteDiff(w))

\* signature_counter of a write: the writes of all reconcilers count, failed ones too.
WriteCounter(w) ==
    Cardinality({v \in controller_writes : /\ v.key = w.key /\ v.start <= w.start
                                           /\ WriteSignature(v) = WriteSignature(w)})

\* There is one annotated function, and so one signature.
CallCounter(w) == Cardinality({v \in controller_non_k8s_writes : v.start <= w.start})
-----------------------------------------------------------------------------
(* compute_event_cancel.                                                    *)

conflicting_event_type(prev, cur) == (prev = "Deleted") # (cur = "Deleted")

conflicting_event(i, j) ==
    LET prev == controller_hears[i]
        cur  == controller_hears[j]
    IN  \/ conflicting_event_type(prev.etype, cur.etype)
        \/ /\ prev.etype # "Deleted" /\ cur.etype # "Deleted"
           /\ conflicting_event_payload(slim_cur(HearDiff(i)), cur.obj,
                                        MaskedKeys(cur.key), MaskedPaths(cur.key))

\* Mutant: every later event of the object overwrites it.
cancelled_by_AnyLater(i) ==
    {j \in (i + 1)..Len(controller_hears) : controller_hears[j].key = controller_hears[i].key}

\* The later events of the object that overwrite event i; the first event of an
\* object is taken to be overwritten by all the others.
cancelled_by(i) ==
    {j \in (i + 1)..Len(controller_hears) :
       /\ controller_hears[j].key = controller_hears[i].key
       /\ PrevHear(i) = 0 \/ conflicting_event(i, j)}
-----------------------------------------------------------------------------
(* The intra-reconciler edges: the events of the reconcilers in order.      *)

\* ts is the line under which the event is in ts_to_event_map.
ReconcilerEvents ==
    {[kind |-> "write", ts |-> w.start, etype |-> w.etype, key |-> w.key] :
       w \in controller_writes}
      \cup {[kind |-> "call", ts |-> w.start] : w \in controller_non_k8s_writes}
      \cup {[kind |-> "read", ts |-> r.end] : r \in controller_reads}
      \cup {[kind |-> "begin", ts |-> r.end] : r \in reconcile_begins}
      \cup {[kind |-> "end", ts |-> r.end] : r \in reconcile_ends}

\* An event comes after those of earlier lines.
reconciler_event_list ==
    LET before(e) == {d \in ReconcilerEvents : d.ts < e.ts}
    IN  [n \in 1..Cardinality(ReconcilerEvents) |->
           CHOOSE e \in ReconcilerEvents : Cardinality(before(e)) = n - 1]
=============================================================================
