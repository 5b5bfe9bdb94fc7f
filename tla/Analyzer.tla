------------------------------ MODULE Analyzer ------------------------------
(***************************************************************************)
(* Parsing of the log of a learn run (sieve_analyzer/analyze.py), and the  *)
(* causality between what the controller hears and what it writes.  The    *)
(* log grows line by line, and the parser keeps up with it, so that every  *)
(* state is the end of the parse of one log.  parse_receiver_events and    *)
(* parse_reconciler_events read the log one after the other; they share no *)
(* state, and one step here is what both do with a line.                   *)
(*                                                                         *)
(* A line number is the timestamp of an event.  Lines count from 1, and 0  *)
(* stands for the -1 of the code.  The rounds of a reconciler are told     *)
(* apart by the line at which they begin, which stands for their ID.       *)
(***************************************************************************)
EXTENDS Integers, Sequences, FiniteSets

CONSTANTS
    Funs,                    \* the reconcilers
    Keys, Types, TypeOf,     \* resource keys and their resource types
    Objects,
    HearInputs, WriteInputs, ReadInputs,  \* what can come in a line
    Configurations,          \* values of compress_trivial_reconcile, loosen_reconciler_boundary
    MaxLines, MaxHears, MaxWrites, MaxReads, MaxRounds, MaxCalls  \* bounds

HearTypes  == {"Added", "Updated", "Deleted", "Replaced", "Sync"}
WriteTypes == {"Create", "Update", "Delete", "Patch", "StatusUpdate", "StatusPatch"}
Errors     == {"NoError", "Error"}

\* The reconciler of an annotated call, which may be made outside of any.
Callers == Funs \cup {"unknown"}

ASSUME AnalyzerAssumption ==
    /\ "unknown" \notin Funs
    /\ TypeOf \in [Keys -> Types]
    /\ HearInputs \subseteq [etype : HearTypes, key : Keys, obj : Objects]
    /\ WriteInputs \subseteq [etype : WriteTypes, key : Keys, obj : Objects, error : Errors]
    /\ \A r \in ReadInputs :
          /\ r \in [etype : {"Get", "List"}, rtype : Types, key_set : SUBSET Keys,
                    objs : [r.key_set -> Objects]]
          /\ \A k \in r.key_set : TypeOf[k] = r.rtype
    /\ Configurations \subseteq BOOLEAN \X BOOLEAN
    /\ MaxLines \in Nat

VARIABLES
    compress_trivial_reconcile_enabled, loosen_reconciler_boundary, \* configuration
    log,                     \* the lines so far
    controller_hears,        \* the list that parse_receiver_events returns
    controller_writes, controller_non_k8s_writes, controller_reads,
    reconcile_begins, reconcile_ends,   \* the events in ts_to_event_map, by kind
    write_start, call_start, \* the operation each worker is in: the line before it, or 0
    read_keys, read_types,   \* read_keys_this_reconcile, read_types_this_reconcile
    prev_reconcile, cur_reconcile, cur_reconcile_is_trivial,
    ongoing_reconciles,
    raised                   \* the exception that ended the parse

config == <<compress_trivial_reconcile_enabled, loosen_reconciler_boundary>>
rounds == <<prev_reconcile, cur_reconcile, cur_reconcile_is_trivial, ongoing_reconciles,
            reconcile_begins, reconcile_ends>>
readSets == <<read_keys, read_types>>
vars == <<config, log, controller_hears, controller_writes, controller_non_k8s_writes,
          controller_reads, write_start, call_start, readSets, rounds, raised>>

\* The classes of k8s_event.py.  An event is known by its timestamps; those of
\* one kind differ in them.
ControllerHear == [etype : HearTypes, key : Keys, obj : Objects, start : Nat, end : Nat]
ControllerWrite ==
    [etype : WriteTypes, key : Keys, obj : Objects, error : Errors,
     reconcile_fun : Funs, reconcile_id : Nat, start : Nat, end : Nat,
     range_start : Nat, range_end : Nat, read_keys : SUBSET Keys, read_types : SUBSET Types]
ControllerNonK8sWrite ==
    [reconcile_fun : Callers, reconcile_id : Nat, start : Nat, end : Nat]
ControllerRead ==
    [input : ReadInputs, from_cache : BOOLEAN, reconcile_fun : Funs, reconcile_id : Nat,
     end : Nat]
Reconcile == [reconcile_fun : Funs, end : Nat]

Marks == {"before-hear", "after-hear", "before-rest-write", "after-rest-write",
          "before-call", "after-call", "after-rest-read", "after-cache-read",
          "before-reconcile", "after-reconcile"}

\* What a line says as far as the properties look at it.
Line == [mark : Marks, fun : Callers, keys : SUBSET Keys, types : SUBSET Types]
-----------------------------------------------------------------------------
Now == Len(log) + 1   \* the number of the next line

Append3(mark, fun, keys, types) ==
    /\ raised = "none" /\ Len(log) < MaxLines
    /\ log' = Append(log, [mark |-> mark, fun |-> fun, keys |-> keys, types |-> types])

\* Lines of one kind so far: the bounds count them.
Count(mark) == Cardinality({i \in DOMAIN log : log[i].mark = mark})

Init ==
    /\ \E c \in Configurations : /\ compress_trivial_reconcile_enabled = c[1]
                                 /\ loosen_reconciler_boundary = c[2]
    /\ log = <<>>
    /\ controller_hears = <<>>
    /\ controller_writes = {} /\ controller_non_k8s_writes = {} /\ controller_reads = {}
    /\ reconcile_begins = {} /\ reconcile_ends = {}
    /\ write_start = [f \in Funs |-> 0] /\ call_start = [f \in Callers |-> 0]
    /\ read_keys = {} /\ read_types = {}
    /\ prev_reconcile = [f \in Funs |-> 0] /\ cur_reconcile = [f \in Funs |-> 0]
    /\ cur_reconcile_is_trivial = [f \in Funs |-> FALSE]
    /\ ongoing_reconciles = {}
    /\ raised = "none"
-----------------------------------------------------------------------------
(* parse_receiver_events.  A hear without an end never constrains anything. *)

BeforeHear(e) ==
    /\ Append3("before-hear", "unknown", {}, {}) /\ Len(controller_hears) < MaxHears
    /\ controller_hears' =
          Append(controller_hears, [etype |-> e.etype, key |-> e.key, obj |-> e.obj,
                                    start |-> Now, end |-> 0])
    /\ UNCHANGED <<config, controller_writes, controller_non_k8s_writes, controller_reads,
                   write_start, call_start, readSets, rounds, raised>>

AfterHear(i) ==
    /\ Append3("after-hear", "unknown", {}, {}) /\ controller_hears[i].end = 0
    /\ controller_hears' = [controller_hears EXCEPT ![i].end = Now]
    /\ UNCHANGED <<config, controller_writes, controller_non_k8s_writes, controller_reads,
                   write_start, call_start, readSets, rounds, raised>>
-----------------------------------------------------------------------------
(* parse_reconciler_events.  A worker is in one operation at a time; the    *)
(* learn client may leave out the line after a write.                       *)

BeforeRestWrite(f) ==
    /\ Append3("before-rest-write", f, {}, {}) /\ f \in ongoing_reconciles
    /\ Count("before-rest-write") < MaxWrites
    /\ write_start' = [write_start EXCEPT ![f] = Now]
    /\ UNCHANGED <<config, controller_hears, controller_writes, controller_non_k8s_writes,
                   controller_reads, call_start, readSets, rounds, raised>>

\* A write, or an annotated call, makes the current round of every reconciler count.
NotTrivial ==
    /\ cur_reconcile_is_trivial' = [f \in Funs |-> FALSE]
    /\ UNCHANGED <<prev_reconcile, cur_reconcile, ongoing_reconciles,
                   reconcile_begins, reconcile_ends>>

\* The reconciler has a round: a write whose reconciler has none does not occur,
\* because the learn client reports writes from inside a round only.
AfterRestWrite(f, e) ==
    /\ Append3("after-rest-write", f, {}, {}) /\ write_start[f] # 0
    /\ controller_writes' = controller_writes \cup
          {[etype |-> e.etype, key |-> e.key, obj |-> e.obj, error |-> e.error,
            reconcile_fun |-> f, reconcile_id |-> cur_reconcile[f],
            start |-> write_start[f], end |-> Now,
            range_start |-> prev_reconcile[f], range_end |-> Now,
            read_keys |-> read_keys, read_types |-> read_types]}
    /\ write_start' = [write_start EXCEPT ![f] = 0]
    /\ NotTrivial
    /\ UNCHANGED <<config, controller_hears, controller_non_k8s_writes, controller_reads,
                   call_start, readSets, raised>>

BeforeAnnotatedAPICall(c) ==
    /\ Append3("before-call", c, {}, {}) /\ c \in ongoing_reconciles \cup {"unknown"}
    /\ Count("before-call") < MaxCalls
    /\ call_start' = [call_start EXCEPT ![c] = Now]
    /\ UNCHANGED <<config, controller_hears, controller_writes, controller_non_k8s_writes,
                   controller_reads, write_start, readSets, rounds, raised>>

\* ControllerNonK8sWrite has no set_range: the parse ends with an AttributeError
\* for a call from inside a round.
AfterAnnotatedAPICall(c) ==
    /\ Append3("after-call", c, {}, {}) /\ call_start[c] # 0
    /\ IF c \in Funs
       THEN raised' = "AttributeError" /\ UNCHANGED controller_non_k8s_writes
       ELSE /\ controller_non_k8s_writes' =
                 IF loosen_reconciler_boundary
                 THEN controller_non_k8s_writes \cup
                        {[reconcile_fun |-> c, reconcile_id |-> 0,
                          start |-> call_start[c], end |-> Now]}
                 ELSE controller_non_k8s_writes
            /\ UNCHANGED raised
    /\ call_start' = [call_start EXCEPT ![c] = 0]
    /\ NotTrivial
    /\ UNCHANGED <<config, controller_hears, controller_writes, controller_reads,
                   write_start, readSets>>

\* A read from the API server is recorded, but is no cause of a write.
AfterRestRead(f, r) ==
    /\ Append3("after-rest-read", f, {}, {}) /\ f \in ongoing_reconciles
    /\ Cardinality(controller_reads) < MaxReads
    /\ controller_reads' = controller_reads \cup
          {[input |-> r, from_cache |-> FALSE, reconcile_fun |-> f,
            reconcile_id |-> cur_reconcile[f], end |-> Now]}
    /\ UNCHANGED <<config, controller_hears, controller_writes, controller_non_k8s_writes,
                   write_start, call_start, readSets, rounds, raised>>

AfterCacheRead(f, r) ==
    LET keys  == IF r.etype = "Get" THEN r.key_set ELSE {}
        types == IF r.etype = "Get" THEN {} ELSE {r.rtype}
    IN  /\ Append3("after-cache-read", f, keys, types) /\ f \in ongoing_reconciles
        /\ Cardinality(controller_reads) < MaxReads
        /\ controller_reads' = controller_reads \cup
              {[input |-> r, from_cache |-> TRUE, reconcile_fun |-> f,
                reconcile_id |-> cur_reconcile[f], end |-> Now]}
        /\ read_keys' = read_keys \cup keys
        /\ read_types' = read_types \cup types
        /\ UNCHANGED <<config, controller_hears, controller_writes,
                       controller_non_k8s_writes, write_start, call_start, rounds, raised>>

\* Two workers of one reconciler would fail the assertion in the parser; the log
\* has none (sanity_check_sieve_server_log).
BeforeReconcile(f) ==
    /\ Append3("before-reconcile", f, {}, {}) /\ f \notin ongoing_reconciles
    /\ Count("before-reconcile") < MaxRounds
    /\ reconcile_begins' = reconcile_begins \cup {[reconcile_fun |-> f, end |-> Now]}
    /\ ongoing_reconciles' = ongoing_reconciles \cup {f}
    /\ IF cur_reconcile[f] # 0 /\ compress_trivial_reconcile_enabled
                               /\ cur_reconcile_is_trivial[f]
       THEN UNCHANGED <<prev_reconcile, cur_reconcile>>
       ELSE /\ prev_reconcile' = [prev_reconcile EXCEPT ![f] = cur_reconcile[f]]
            /\ cur_reconcile' = [cur_reconcile EXCEPT ![f] = Now]
    /\ cur_reconcile_is_trivial' = [cur_reconcile_is_trivial EXCEPT ![f] = TRUE]
    /\ UNCHANGED <<config, controller_hears, controller_writes, controller_non_k8s_writes,
                   controller_reads, write_start, call_start, readSets, reconcile_ends, raised>>

\* Mutant: what one reconciler has read is forgotten when another one is done.
AfterReconcile_ClearsAlways(f) ==
    /\ Append3("after-reconcile", f, {}, {}) /\ f \in ongoing_reconciles
    /\ reconcile_ends' = reconcile_ends \cup {[reconcile_fun |-> f, end |-> Now]}
    /\ ongoing_reconciles' = ongoing_reconciles \ {f}
    /\ read_keys' = {} /\ read_types' = {}
    /\ write_start' = [write_start EXCEPT ![f] = 0]
    /\ call_start' = [call_start EXCEPT ![f] = 0]
    /\ UNCHANGED <<config, controller_hears, controller_writes, controller_non_k8s_writes,
                   controller_reads, prev_reconcile, cur_reconcile,
                   cur_reconcile_is_trivial, reconcile_begins, raised>>

\* Mutant: what has been read is never forgotten.
AfterReconcile_NeverClears(f) ==
    /\ Append3("after-reconcile", f, {}, {}) /\ f \in ongoing_reconciles
    /\ reconcile_ends' = reconcile_ends \cup {[reconcile_fun |-> f, end |-> Now]}
    /\ ongoing_reconciles' = ongoing_reconciles \ {f}
    /\ write_start' = [write_start EXCEPT ![f] = 0]
    /\ call_start' = [call_start EXCEPT ![f] = 0]
    /\ UNCHANGED <<config, controller_hears, controller_writes, controller_non_k8s_writes,
                   controller_reads, readSets, prev_reconcile, cur_reconcile,
                   cur_reconcile_is_trivial, reconcile_begins, raised>>

\* The reads are forgotten when no reconciler is in a round any more.
AfterReconcile(f) ==
    /\ Append3("after-reconcile", f, {}, {}) /\ f \in ongoing_reconciles
    /\ reconcile_ends' = reconcile_ends \cup {[reconcile_fun |-> f, end |-> Now]}
    /\ ongoing_reconciles' = ongoing_reconciles \ {f}
    /\ IF ongoing_reconciles' = {} THEN read_keys' = {} /\ read_types' = {}
       ELSE UNCHANGED readSets
    /\ write_start' = [write_start EXCEPT ![f] = 0]
    /\ call_start' = [call_start EXCEPT ![f] = 0]
    /\ UNCHANGED <<config, controller_hears, controller_writes, controller_non_k8s_writes,
                   controller_reads, prev_reconcile, cur_reconcile,
                   cur_reconcile_is_trivial, reconcile_begins, raised>>

Next ==
    \/ \E e \in HearInputs : BeforeHear(e)
    \/ \E i \in DOMAIN controller_hears : AfterHear(i)
    \/ \E c \in Callers : BeforeAnnotatedAPICall(c) \/ AfterAnnotatedAPICall(c)
    \/ \E f \in Funs :
          \/ BeforeReconcile(f) \/ AfterReconcile(f) \/ BeforeRestWrite(f)
          \/ \E e \in WriteInputs : AfterRestWrite(f, e)
          \/ \E r \in ReadInputs : AfterRestRead(f, r) \/ AfterCacheRead(f, r)

Spec == Init /\ [][Next]_vars
-----------------------------------------------------------------------------
(* The pairs of a hear and a write between which causality is assumed       *)
(* (base_pass, hear_read_overlap_filtering_pass).                           *)

\* end_timestamp: the number of lines for a hear that has not ended.
EndOf(h) == IF h.end = 0 THEN Now ELSE h.end

\* Mutant: an event may come after the write that it causes.
InScope_NoOrder(h, w) == w.range_start < EndOf(h)

InScope(h, w) == w.range_start < EndOf(h) /\ w.start > h.start

ReadBefore(h, w) == h.key \in w.read_keys \/ TypeOf[h.key] \in w.read_types

\* A non-Kubernetes write that is recorded has no round, and so no cause.
HearWrite(h, w) == w.reconcile_id # 0 /\ InScope(h, w) /\ ReadBefore(h, w)
-----------------------------------------------------------------------------
TypeOK ==
    /\ compress_trivial_reconcile_enabled \in BOOLEAN
    /\ loosen_reconciler_boundary \in BOOLEAN
    /\ log \in Seq(Line)
    /\ controller_hears \in Seq(ControllerHear)
    /\ controller_writes \subseteq ControllerWrite
    /\ controller_non_k8s_writes \subseteq ControllerNonK8sWrite
    /\ controller_reads \subseteq ControllerRead
    /\ reconcile_begins \subseteq Reconcile /\ reconcile_ends \subseteq Reconcile
    /\ write_start \in [Funs -> Nat] /\ call_start \in [Callers -> Nat]
    /\ read_keys \subseteq Keys /\ read_types \subseteq Types
    /\ prev_reconcile \in [Funs -> Nat] /\ cur_reconcile \in [Funs -> Nat]
    /\ cur_reconcile_is_trivial \in [Funs -> BOOLEAN]
    /\ ongoing_reconciles \subseteq Funs
    /\ raised \in {"none", "AttributeError"}

IsBegin(i, f) == log[i].mark = "before-reconcile" /\ log[i].fun = f
IsEnd(i, f) == log[i].mark = "after-reconcile" /\ log[i].fun = f
IsWrite(i) == log[i].mark \in {"after-rest-write", "after-call"}

\* The cache read in line i is one of key k.
Reads(i, k) == /\ log[i].mark = "after-cache-read"
               /\ k \in log[i].keys \/ TypeOf[k] \in log[i].types

\* Line i is in the round of f that begins in line b.
InRound(i, b, f) == b < i /\ IsBegin(b, f) /\ \A j \in (b + 1)..i : ~IsBegin(j, f)

\* An event is a cause of a write if the reconciler has read its object from the
\* cache, after the event began to arrive, in the round that writes; the analysis
\* leaves it out only if an earlier round of the reconciler began after the event,
\* and, when trivial rounds are compressed, something was written in that round:
\* then the event had its effect already.  (The sets of reads are shared by all
\* reconcilers, and so are the marks of trivial rounds.)
SeenEventsAreCauses ==
    \A w \in controller_writes : \A n \in DOMAIN controller_hears : \A b, r \in DOMAIN log :
        LET h == controller_hears[n]
            f == w.reconcile_fun
        IN  /\ InRound(w.start, b, f)
            /\ b < r /\ r < w.start /\ h.start < r
            /\ log[r].fun = f /\ Reads(r, h.key)
            => \/ HearWrite(h, w)
               \/ \E c \in DOMAIN log :
                     /\ EndOf(h) < c /\ c < b /\ IsBegin(c, f)
                     /\ compress_trivial_reconcile_enabled =>
                          \E i \in DOMAIN log : InRound(i, c, f) /\ IsWrite(i)

\* Line i is in a time in which some reconciler is in a round all the time up to
\* line j: no reconcile ends between them without another one going on.
Busy(i, j) ==
    \A q \in i..j : \E f \in Funs, b \in 1..q :
        IsBegin(b, f) /\ \A k \in (b + 1)..q : ~IsEnd(k, f)

\* An assumed cause was read from the cache before the write ended, by a round
\* that is linked to the one of the write by rounds without a gap: the reads of
\* rounds that ended before the controller was idle do not count.
CausesWereRead ==
    \A w \in controller_writes : \A n \in DOMAIN controller_hears :
        HearWrite(controller_hears[n], w) =>
            \E r \in DOMAIN log : /\ r < w.end /\ Busy(r, w.end)
                                  /\ Reads(r, controller_hears[n].key)

\* The assertions of EventGraph.sanity_check: events are in the order of their
\* lines, they begin before they end, the range of a write ends with it, and a
\* cause begins before its effect.
GraphIsSane ==
    /\ \A i \in DOMAIN controller_hears :
          /\ i > 1 => controller_hears[i].start > controller_hears[i - 1].start
          /\ controller_hears[i].start < EndOf(controller_hears[i])
    /\ \A v, w \in controller_writes : v # w => v.start # w.start
    /\ \A w \in controller_writes :
          /\ w.start < w.end /\ w.range_end = w.end
          /\ w.reconcile_id # 0 => w.range_end # 0 /\ w.range_start < w.range_end
          /\ \A i \in DOMAIN controller_hears :
                HearWrite(controller_hears[i], w) => controller_hears[i].start < w.start
=============================================================================
