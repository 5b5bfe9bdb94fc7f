------------------------------- MODULE Oracle -------------------------------
(***************************************************************************)
(* The differential oracles (sieve_oracle/): from the log of the API       *)
(* server, each run leaves the controller family, a digest of the history  *)
(* and the end state; the two learning runs are trimmed to what they agree *)
(* on, and the test run is compared with that.                             *)
(*                                                                         *)
(* The API server is external: APIEvent is any event that its store        *)
(* allows.  An object is a function from its leaf fields to values.        *)
(***************************************************************************)
EXTENDS ControllerFamily, FiniteSets, SequencesExt

CONSTANTS
    Keys,                \* resource keys (type/namespace/name)
    RType,               \* the type of a key
    Starred,             \* the key, with a generated suffix of the name starred
    Native,              \* the keys for which kind_native_objects holds
    TaggedKeys,          \* the pods of the controller (label sievetag)
    OwnerKeys,           \* the owners of an object
    ObjectsOf,           \* the contents that an object may have
    Null,                \* JSON's null, the one value of its type
    VariableValues,      \* the values that match TIME_REG or IP_REG
    ControllerShape,     \* a field's path in the shape in which masks are written
    CustomTypes,         \* custom_resource_definitions
    FieldMask,           \* field_key_mask and field_path_mask of config.json
    end_state_checker_mask,            \* of the controller, see ConfigMask
    state_update_summary_checker_mask, \* of both configurations: digest keys
    SuiteKeys,           \* resource_keys of a SafetyCheckerSuite
    SuiteHolds(_),       \* its checker_function
    Settings,            \* which of the comparisons are made, see check
    MaxEvents,           \* bound: the events of each run
    SIEVE_LEARN_VALUE_MASK, NoObject, NoFile

EventTypes == {"ADDED", "MODIFIED", "DELETED"}
CheckedTypes == {"ADDED", "DELETED"}   \* state_update_summary_check_event_list

\* An entry of end_state_checker_mask: the keys that its pattern matches, the type
\* if the pattern is type/*/*, and the masked fields (none: the whole object).
ConfigMask(k) == {m \in end_state_checker_mask : k \in m.keys}

ASSUME OracleAssumption ==
    /\ \A r \in DOMAIN MaxEvents : Keys \X (0..MaxEvents[r]) \subseteq Uids
    /\ OwnerKeys \in [Keys -> SUBSET Keys] /\ \A k \in TaggedKeys : OwnerKeys[k] # {}
    /\ SuiteKeys \subseteq Keys
    /\ \A k \in Keys : NoObject \notin ObjectsOf[k]
    /\ \A m \in end_state_checker_mask : m.type # NoFile =>
         m.keys = {k \in Keys : RType[k] = m.type}

VARIABLES
    run,             \* the current run
    phase,           \* "running", "tainting", "checked"
    store,           \* the objects that exist, NoObject otherwise
    created,         \* how often an object was created in this run
    result,          \* what a run has left in its result directory
    oracle,          \* the oracle directory
    errors,          \* of the test run's check
    unsafe           \* history: the suite failed in some state of the test run

oracleVars == <<run, phase, store, created, result, oracle, errors, unsafe>>
vars == <<familyVars, oracleVars>>

Init ==
    /\ run = "first" /\ phase = "running"
    /\ store = [k \in Keys |-> NoObject] /\ created = [k \in Keys |-> 0]
    /\ api_event_list = <<>> /\ controller_related_uid_set = {}
    /\ pos = 0 /\ keep_tainting = FALSE
    /\ result = [r \in {"first", "second", "test"} |-> NoFile]
    /\ oracle = NoFile /\ errors = NoFile /\ unsafe = FALSE
-----------------------------------------------------------------------------
(* A run: the events that apiserver1.log shows.                             *)

Live(s) == [k \in {k \in Keys : s[k] # NoObject} |-> s[k]]

\* A state that the suite is asked about: all of its objects exist, and it is given
\* these only.
SuiteFails(s) ==
    (\A k \in SuiteKeys : s[k] # NoObject) /\ ~SuiteHolds([k \in SuiteKeys |-> s[k]])

APIEvent(k, etype, obj) ==
    /\ phase = "running" /\ Len(api_event_list) < MaxEvents[run]
    /\ (etype = "ADDED") = (store[k] = NoObject)
    /\ etype = "DELETED" => obj = store[k]
    /\ etype = "MODIFIED" => obj # store[k]
    /\ created' = [created EXCEPT ![k] = IF etype = "ADDED" THEN @ + 1 ELSE @]
    /\ store' = [store EXCEPT ![k] = IF etype = "DELETED" THEN NoObject ELSE obj]
    /\ api_event_list' = Append(api_event_list,
         [key |-> k, etype |-> etype, obj |-> obj, uid |-> <<k, created'[k]>>,
          owners |-> {<<o, created[o]>> : o \in OwnerKeys[k]},
          tagged |-> k \in TaggedKeys])
    /\ unsafe' = (unsafe \/ (run = "test" /\ k \in SuiteKeys /\ SuiteFails(store')))
    /\ UNCHANGED <<controller_related_uid_set, pos, keep_tainting,
                   run, phase, result, oracle, errors>>

\* run_workload has returned; generate_controller_related_list begins.
EndOfRun ==
    /\ phase = "running"
    /\ phase' = "tainting"
    /\ StartTainting(api_event_list)
    /\ UNCHANGED <<api_event_list, run, store, created, result, oracle, errors, unsafe>>
-----------------------------------------------------------------------------
(* save_history_and_end_state.                                              *)

controller_related_list ==
    {e.key : e \in {d \in Events(api_event_list) : d.uid \in controller_related_uid_set}}

\* What one event adds to the objects seen so far.
AddSeen(s, e) ==
    IF e.key \in s.deleted \/ e.key \in DOMAIN s.end_state THEN s
    ELSE IF e.etype = "DELETED" THEN [s EXCEPT !.deleted = @ \cup {e.key}]
    ELSE [s EXCEPT !.end_state = [k \in DOMAIN @ \cup {e.key} |->
                                    IF k = e.key THEN e.obj ELSE @[k]]]

\* The contents in the first event of each object, without those that it deletes: a
\* fold, as a recursive function.
FirstSeen(list) ==
    LET seen[i \in 0 .. Len(list)] ==
          IF i = 0 THEN [end_state |-> <<>>, deleted |-> {}] ELSE AddSeen(seen[i - 1], list[i])
    IN  seen[Len(list)].end_state

\* Mutant: the log is read forwards.
generate_state_Forwards(list) == FirstSeen(list)

\* The end state: the log read backwards, the last event of an object wins.
generate_state(list) == FirstSeen(Reverse(list))

\* Creations and deletions by key; generated names are starred.
generate_history_digest(list) ==
    LET checked == {i \in DOMAIN list : list[i].etype \in CheckedTypes}
    IN  [d \in {Starred[list[i].key] : i \in checked} |->
          [t \in CheckedTypes |->
             Cardinality({i \in checked : Starred[list[i].key] = d /\ list[i].etype = t})]]

\* history.json is read again for the test run only.
generate_history(list) ==
    [i \in DOMAIN list |-> [key |-> list[i].key, etype |-> list[i].etype, state |-> list[i].obj]]

save_history_and_end_state(r) ==
    result' = [result EXCEPT ![r] =
        [controller_family |-> controller_related_list,
         history |-> IF r = "test" THEN generate_history(api_event_list) ELSE <<>>,
         event |-> generate_history_digest(api_event_list),
         state |-> generate_state(api_event_list)]]
-----------------------------------------------------------------------------
(* create_differential_oracles.                                             *)

\* Mutant: the values of the second run are stored, and not masked.
second_pass_learn_trim_SecondValues(base, twice) ==
    [k \in DOMAIN base |->
       IF k \notin DOMAIN twice THEN SIEVE_LEARN_VALUE_MASK
       ELSE [f \in DOMAIN base[k] |-> IF f \notin DOMAIN twice[k] THEN base[k][f]
                                      ELSE twice[k][f]]]

\* What the first run has and the second has not, or has with another value of the
\* same type, is masked; null against a value is a change of type and stays.
TrimFields(b, t) ==
    [f \in DOMAIN b |-> IF f \notin DOMAIN t \/ (b[f] # t[f] /\ Null \notin {b[f], t[f]})
                        THEN SIEVE_LEARN_VALUE_MASK ELSE b[f]]

second_pass_learn_trim(base, twice) ==
    [k \in DOMAIN base |-> IF k \notin DOMAIN twice THEN SIEVE_LEARN_VALUE_MASK
                           ELSE TrimFields(base[k], twice[k])]

\* The mask is a string that occurs in no object, and is none.
ASSUME MaskAssumption ==
    \A k \in Keys : \A o, p \in ObjectsOf[k] :
        /\ SIEVE_LEARN_VALUE_MASK \notin {o[f] : f \in DOMAIN o}
        /\ SIEVE_LEARN_VALUE_MASK # TrimFields(o, p)

\* A key with any masked count is taken out of the digest.
remove_ignored_value(digest) ==
    [d \in {d \in DOMAIN digest : /\ digest[d] # SIEVE_LEARN_VALUE_MASK
                                  /\ \A t \in DOMAIN digest[d] :
                                       digest[d][t] # SIEVE_LEARN_VALUE_MASK} |-> digest[d]]

canonicalize_history_digest(first, second) ==
    remove_ignored_value(second_pass_learn_trim(first.event, second.event))

canonicalize_state(first, second) == second_pass_learn_trim(first.state, second.state)

\* mask.json, which the analyzer reads: the masked fields in controller shape.
generate_state_mask(state) ==
    [k \in {k \in DOMAIN state : state[k] # SIEVE_LEARN_VALUE_MASK} |->
       {ControllerShape[f] : f \in {f \in DOMAIN state[k] : state[k][f] = SIEVE_LEARN_VALUE_MASK}}]

create_differential_oracles(first, second) ==
    LET can_state == canonicalize_state(first, second)
    IN  [event |-> canonicalize_history_digest(first, second),
         state |-> can_state,
         mask |-> generate_state_mask(can_state),
         controller_family |-> second.controller_family]
-----------------------------------------------------------------------------
(* compare_history_digests and the customized safety checkers.              *)

compare_history_digests(ref, cur) ==
    {m \in (DOMAIN ref.event \cap DOMAIN cur.event) \X CheckedTypes :
        /\ m[1] \notin cur.controller_family
        /\ m[1] \notin state_update_summary_checker_mask
        /\ ref.event[m[1]][m[2]] # cur.event[m[1]][m[2]]}

\* Mutant: a deletion is taken for an update.
StatesOf_KeepsDeleted(history, i) ==
    [k \in SuiteKeys |->
       LET last == {j \in 1..i : history[j].key = k}
       IN  IF last = {} THEN NoObject
           ELSE history[CHOOSE j \in last : \A n \in last : n <= j].state]

\* current_state after event i of the history.
StatesOf(history, i) ==
    [k \in SuiteKeys |->
       LET last == {j \in 1..i : history[j].key = k}
           e == history[CHOOSE j \in last : \A n \in last : n <= j]
       IN  IF last = {} \/ e.etype = "DELETED" THEN NoObject ELSE e.state]

\* The numbers of the events after which the suite's checker fails.
apply_safety_checker(history) ==
    {i \in DOMAIN history : history[i].key \in SuiteKeys /\ SuiteFails(StatesOf(history, i))}
-----------------------------------------------------------------------------
(* compare_states.                                                          *)

resource_key_should_be_masked(k, ref, cur) ==
    \/ k \in cur.controller_family \cup ref.controller_family
    \/ \E m \in ConfigMask(k) : m.fields = {}

resource_type_should_be_masked_by_controller_config(t) ==
    \E m \in end_state_checker_mask : m.type = t /\ m.fields = {}

\* The path in the form that the masks use; custom resources have it already.
translated(k, f) == IF RType[k] \in CustomTypes THEN f ELSE ControllerShape[f]

resource_field_path_should_be_masked(k, path) == \E m \in ConfigMask(k) : path \in m.fields

\* The types of which the first learning run had an object that the second had not.
resource_type_with_random_names(ref) ==
    {RType[k] : k \in {k \in DOMAIN ref.state \ Native : ref.state[k] = SIEVE_LEARN_VALUE_MASK}}

NumberOf(state, t) == Cardinality({k \in DOMAIN state \ Native : RType[k] = t})

ObjectMessages(ref, cur) ==
    {<<"object", k>> : k \in
       {k \in SymDiff(DOMAIN ref.state, DOMAIN cur.state) \ Native :
          /\ ~resource_key_should_be_masked(k, ref, cur)
          /\ RType[k] \notin resource_type_with_random_names(ref)}}

\* Mutant: the objects of a type with random names are not counted.
ExistenceMessages_NoCount(ref, cur) == ObjectMessages(ref, cur)

\* Objects on one side only, and counts that differ for the types with random names.
ExistenceMessages(ref, cur) ==
    ObjectMessages(ref, cur)
    \cup {<<"count", t>> : t \in
            {t \in resource_type_with_random_names(ref) :
               /\ ~resource_type_should_be_masked_by_controller_config(t)
               /\ NumberOf(ref.state, t) # NumberOf(cur.state, t)}}

\* The fields of an object on both sides that are missing, new or different.
FieldMessages(ref, cur) ==
    UNION {{<<"field", k, f>> : f \in
              {f \in DOMAIN ref.state[k] \cup DOMAIN cur.state[k] :
                 /\ f \in DOMAIN ref.state[k] \cap DOMAIN cur.state[k] =>
                      LET t1 == ref.state[k][f]  t2 == cur.state[k][f]
                      IN  t1 # t2 /\ t1 # SIEVE_LEARN_VALUE_MASK
                          /\ {t1, t2} \cap VariableValues = {}
                 /\ translated(k, f) \notin FieldMask
                 /\ ~resource_field_path_should_be_masked(k, translated(k, f))}} :
           k \in {k \in (DOMAIN ref.state \cap DOMAIN cur.state) \ Native :
                    /\ ref.state[k] # SIEVE_LEARN_VALUE_MASK
                    /\ ~resource_key_should_be_masked(k, ref, cur)}}

compare_states(ref, cur) == ExistenceMessages(ref, cur) \cup FieldMessages(ref, cur)
-----------------------------------------------------------------------------
(* The tainting, and what a run does when it is over.                       *)

Taint == phase = "tainting" /\ (TaintStep \/ NextPass) /\ UNCHANGED oracleVars

StartRun(r) ==
    /\ run' = r /\ phase' = "running"
    /\ store' = [k \in Keys |-> NoObject] /\ created' = [k \in Keys |-> 0]
    /\ api_event_list' = <<>> /\ controller_related_uid_set' = {}
    /\ pos' = 0 /\ UNCHANGED keep_tainting

FirstRunSaved ==
    /\ phase = "tainting" /\ Tainted /\ run = "first"
    /\ save_history_and_end_state("first") /\ StartRun("second")
    /\ UNCHANGED <<oracle, errors, unsafe>>

SecondRunSaved ==
    /\ phase = "tainting" /\ Tainted /\ run = "second"
    /\ save_history_and_end_state("second") /\ StartRun("test")
    /\ oracle' = create_differential_oracles(result'["first"], result'["second"])
    /\ UNCHANGED <<errors, unsafe>>

\* check.  "summary" in made: the digests are compared
\* (state_update_summary_check_enabled, and the plan does not begin with a pause before
\* reads); "state": the end states are (end_state_check_enabled, and the CSI driver is
\* the one of the reference run).
check(made) ==
    /\ phase = "tainting" /\ Tainted /\ run = "test"
    /\ save_history_and_end_state("test")
    /\ LET cur == result'["test"]
       IN  errors' = [history |-> IF "summary" \in made THEN compare_history_digests(oracle, cur) ELSE {},
                      safety |-> apply_safety_checker(cur.history),
                      checked |-> "state" \in made,
                      endState |-> IF "state" \in made THEN compare_states(oracle, cur) ELSE {}]
    /\ phase' = "checked"
    /\ UNCHANGED <<familyVars, run, store, created, oracle, unsafe>>

Done == phase = "checked" /\ UNCHANGED vars

Next ==
    \/ \E k \in Keys, etype \in EventTypes : \E obj \in ObjectsOf[k] : APIEvent(k, etype, obj)
    \/ EndOfRun
    \/ Taint
    \/ FirstRunSaved \/ SecondRunSaved
    \/ \E made \in Settings : check(made)
    \/ Done

\* A run ends (its workload is finite and its waits have timeouts), and the driver
\* goes on.
Spec == Init /\ [][Next]_vars
             /\ WF_vars(EndOfRun) /\ WF_vars(FirstRunSaved \/ SecondRunSaved)
             /\ WF_vars(Taint)
             /\ WF_vars(\E made \in Settings : check(made))
-----------------------------------------------------------------------------
(* Properties.                                                              *)

\* The end state that generate_state reads backwards from the log is the set of the
\* objects that exist when the run ends, with their last contents, also for objects
\* that were deleted and created again.
StateIsLive ==
    phase = "checked" => result["test"].state = Live(store)

\* With the oracles that the two learning runs gave, the first of them would pass:
\* trimming hides what it did and the second did not, and adds nothing to it.
FirstRunAccepted ==
    run = "test" /\ api_event_list = <<>> =>
        /\ compare_states(oracle, result["first"]) = {}
        /\ compare_history_digests(oracle, result["first"]) = {}

\* The first learning run left an object of the type that the second did not.
HasRandomNames(one, two, t) ==
    \E k \in DOMAIN one \ DOMAIN two : RType[k] = t /\ k \notin Native

\* The objects and the fields that nothing but their values keeps from being compared.
Compared(second, cur) ==
    {k \in Keys \ Native : /\ k \notin second.controller_family \cup cur.controller_family
                           /\ \A m \in ConfigMask(k) : m.fields # {}}

Visible(k, f) ==
    translated(k, f) \notin FieldMask /\ \A m \in ConfigMask(k) : translated(k, f) \notin m.fields

SameContents(k, o, p) ==
    \A f \in DOMAIN o \cup DOMAIN p : Visible(k, f) =>
        /\ f \in DOMAIN o /\ f \in DOMAIN p
        /\ o[f] = p[f] \/ {o[f], p[f]} \cap VariableValues # {}

Agreement(first, second, cur) ==
    LET Random(t) == HasRandomNames(first.state, second.state, t)
    IN  \A k \in Compared(second, cur) :
          /\ k \in DOMAIN first.state /\ k \in DOMAIN second.state
             /\ first.state[k] = second.state[k] =>
               \/ k \notin DOMAIN cur.state /\ Random(RType[k])
               \/ k \in DOMAIN cur.state /\ SameContents(k, first.state[k], cur.state[k])
          /\ k \notin DOMAIN first.state \cup DOMAIN second.state /\ k \in DOMAIN cur.state =>
               Random(RType[k])
          /\ Random(RType[k]) /\ ~resource_type_should_be_masked_by_controller_config(RType[k]) =>
               NumberOf(first.state, RType[k]) = NumberOf(cur.state, RType[k])

\* If the end state is compared and nothing is reported, then an object that both
\* learning runs left with the same contents is there with these contents, and
\* an object that neither of them left is not, whatever masks are computed on the way;
\* except for what the configuration masks, the families of the two sides, values
\* that vary by nature, and the types with random names, of which only the number
\* is known.
AgreementUnlessAlarm ==
    errors # NoFile /\ errors.checked /\ errors.endState = {} =>
        Agreement(result["first"], result["second"], result["test"])

\* The customized checker is reported exactly if, at some point of the test run, all
\* of the objects it is about existed together in a state that it refuses; a
\* deleted object does not linger in current_state.
SafetyAlarmExact ==
    errors # NoFile => (errors.safety # {}) = unsafe

\* Whatever the log holds, the tainting loop and with it the check come to an end.
OracleEnds == <>(phase = "checked")

\* save_history_and_end_state's documentation: the controller related objects "will
\* not be considered when applying differential oracles".  A report on the history
\* is never about names that are all names of the family.
FamilyNotCompared ==
    errors # NoFile => \A m \in errors.history :
        \E e \in Events(api_event_list) :
            Starred[e.key] = m[1] /\ e.key \notin result["test"].controller_family
=============================================================================
