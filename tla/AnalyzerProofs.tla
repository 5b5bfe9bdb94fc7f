--------------------------- MODULE AnalyzerProofs ---------------------------
(***************************************************************************)
(* What the parser of the learn log builds has its types and passes the    *)
(* assertions of EventGraph.sanity_check, and the causality that is made   *)
(* of it loses no cause and invents none, for every log.  The plans that   *)
(* are made of it do what they were made for when the run is repeated: the *)
(* coordinator counts the events as the analyzer did.                      *)
(***************************************************************************)
EXTENDS PlanReplay, FiniteSetTheorems, WellFoundedInduction, TLAPS

\* The events that the controller hears are in the order of their lines, and the
\* lines are those of the log.
HearsInv ==
    /\ \A i \in DOMAIN controller_hears :
          /\ controller_hears[i].start <= Len(log)
          /\ controller_hears[i].end = 0 \/ controller_hears[i].start < controller_hears[i].end
    /\ \A i, j \in DOMAIN controller_hears :
          i < j => controller_hears[i].start < controller_hears[j].start

\* The lines that are remembered for later are lines of the log.
LinesInv ==
    \A f \in Funs : /\ write_start[f] <= Len(log)
                   /\ prev_reconcile[f] <= Len(log) /\ cur_reconcile[f] <= Len(log)

\* No two writes, ended or going on, began in one line.
StartsInv ==
    /\ \A f, g \in Funs : f # g /\ write_start[f] # 0 => write_start[f] # write_start[g]
    /\ \A w \in controller_writes : \A f \in Funs :
          write_start[f] # 0 => w.start # write_start[f]
    /\ \A v, w \in controller_writes : v # w => v.start # w.start

WritesInv ==
    \A w \in controller_writes :
        /\ w.start < w.end /\ w.end <= Len(log)
        /\ w.range_end = w.end /\ w.range_start < w.range_end

SaneInv == HearsInv /\ LinesInv /\ StartsInv /\ WritesInv

\* One line is appended.
LEMMA LogGrows ==
    ASSUME log \in Seq(Line), NEW mark \in Marks, NEW fun \in Callers,
           NEW keys \in SUBSET Keys, NEW types \in SUBSET Types,
           Append3(mark, fun, keys, types)
    PROVE  log' \in Seq(Line) /\ Len(log') = Len(log) + 1 /\ Len(log) \in Nat /\ Now \in Nat
  <1>1. [mark |-> mark, fun |-> fun, keys |-> keys, types |-> types] \in Line
    BY DEF Line
  <1>2. log' = Append(log, [mark |-> mark, fun |-> fun, keys |-> keys, types |-> types])
    BY DEF Append3
  <1>3. Len(log) \in Nat
    OBVIOUS
  <1>4. log' \in Seq(Line)
    BY <1>1, <1>2
  <1>5. Len(log') = Len(log) + 1
    BY <1>1, <1>2
  <1> QED
    BY <1>3, <1>4, <1>5 DEF Now

\* The fields of an event that was heard.
LEMMA HearTypesOf ==
    ASSUME TypeOK
    PROVE  \A i \in DOMAIN controller_hears :
              controller_hears[i].start \in Nat /\ controller_hears[i].end \in Nat
  <1> SUFFICES ASSUME NEW i \in DOMAIN controller_hears
               PROVE  controller_hears[i].start \in Nat /\ controller_hears[i].end \in Nat
    OBVIOUS
  <1>1. controller_hears[i] \in ControllerHear
    BY DEF TypeOK
  <1> QED
    BY <1>1 DEF ControllerHear

\* A line that is not about a hear leaves them in order.
LEMMA HearsKept ==
    ASSUME TypeOK, HearsInv, UNCHANGED controller_hears,
           Len(log) \in Nat, Len(log') = Len(log) + 1
    PROVE  HearsInv'
  BY HearTypesOf DEF HearsInv

\* What a read reports, and what of it becomes part of the line.
LEMMA ReadTypes ==
    ASSUME NEW r \in ReadInputs
    PROVE  /\ r.key_set \in SUBSET Keys /\ r.rtype \in Types
           /\ (IF r.etype = "Get" THEN r.key_set ELSE {}) \in SUBSET Keys
           /\ (IF r.etype = "Get" THEN {} ELSE {r.rtype}) \in SUBSET Types
  <1>1. r.key_set \in SUBSET Keys /\ r.rtype \in Types
    BY AnalyzerAssumption
  <1> QED
    BY <1>1

\* The types are kept by every line.
LEMMA TypeInductive ==
    ASSUME TypeOK, [Next]_vars
    PROVE  TypeOK'
  <1>1. ASSUME NEW e \in HearInputs, BeforeHear(e)
        PROVE  TypeOK'
    <2>1. Append3("before-hear", "unknown", {}, {})
      BY <1>1 DEF BeforeHear
    <2>c. "before-hear" \in Marks /\ "unknown" \in Callers /\ log \in Seq(Line)
      BY DEF Callers, Marks, TypeOK
    <2>2. log' \in Seq(Line) /\ Len(log') = Len(log) + 1 /\ Len(log) \in Nat /\ Now \in Nat
      BY <2>1, <2>c, LogGrows
    <2>3. [etype |-> e.etype, key |-> e.key, obj |-> e.obj, start |-> Now, end |-> 0]
            \in ControllerHear
      BY <1>1, <2>2, AnalyzerAssumption DEF ControllerHear
    <2>4. controller_hears' \in Seq(ControllerHear)
      BY <1>1, <2>3 DEF BeforeHear, TypeOK
    <2> QED
      BY <1>1, <2>2, <2>4 DEF BeforeHear, TypeOK, NotTrivial, config, rounds, readSets
  <1>2. ASSUME NEW i \in DOMAIN controller_hears, AfterHear(i)
        PROVE  TypeOK'
    <2>1. Append3("after-hear", "unknown", {}, {})
      BY <1>2 DEF AfterHear
    <2>c. "after-hear" \in Marks /\ "unknown" \in Callers /\ log \in Seq(Line)
      BY DEF Callers, Marks, TypeOK
    <2>2. log' \in Seq(Line) /\ Len(log') = Len(log) + 1 /\ Len(log) \in Nat /\ Now \in Nat
      BY <2>1, <2>c, LogGrows
    <2>h. controller_hears[i] \in ControllerHear
      BY <1>2 DEF TypeOK
    <2>3. [controller_hears[i] EXCEPT !.end = Now] \in ControllerHear
      BY <2>h, <2>2 DEF ControllerHear
    <2>4. controller_hears' \in Seq(ControllerHear)
      BY <1>2, <2>3 DEF AfterHear, TypeOK
    <2> QED
      BY <1>2, <2>2, <2>4 DEF AfterHear, TypeOK, NotTrivial, config, rounds, readSets
  <1>3. ASSUME NEW c \in Callers, BeforeAnnotatedAPICall(c)
        PROVE  TypeOK'
    <2>1. Append3("before-call", c, {}, {})
      BY <1>3 DEF BeforeAnnotatedAPICall
    <2>c. "before-call" \in Marks /\ c \in Callers /\ log \in Seq(Line)
      BY DEF Callers, Marks, TypeOK
    <2>2. log' \in Seq(Line) /\ Len(log') = Len(log) + 1 /\ Len(log) \in Nat /\ Now \in Nat
      BY <2>1, <2>c, LogGrows
    <2> QED
      BY <1>3, <2>2 DEF BeforeAnnotatedAPICall, TypeOK, NotTrivial, config, rounds,
         readSets, Callers
  <1>4. ASSUME NEW c \in Callers, AfterAnnotatedAPICall(c)
        PROVE  TypeOK'
    <2>1. Append3("after-call", c, {}, {})
      BY <1>4 DEF AfterAnnotatedAPICall
    <2>c. "after-call" \in Marks /\ c \in Callers /\ log \in Seq(Line)
      BY DEF Callers, Marks, TypeOK
    <2>2. log' \in Seq(Line) /\ Len(log') = Len(log) + 1 /\ Len(log) \in Nat /\ Now \in Nat
      BY <2>1, <2>c, LogGrows
    <2>3. [reconcile_fun |-> c, reconcile_id |-> 0, start |-> call_start[c], end |-> Now]
            \in ControllerNonK8sWrite
      BY <1>4, <2>2 DEF ControllerNonK8sWrite, TypeOK
    <2>4. controller_non_k8s_writes' \subseteq ControllerNonK8sWrite
      BY <1>4, <2>3 DEF AfterAnnotatedAPICall, TypeOK
    <2> QED
      BY <1>4, <2>2, <2>4 DEF AfterAnnotatedAPICall, TypeOK, NotTrivial, config, rounds,
         readSets, Callers
  <1>5. ASSUME NEW f \in Funs, BeforeReconcile(f)
        PROVE  TypeOK'
    <2>1. Append3("before-reconcile", f, {}, {})
      BY <1>5 DEF BeforeReconcile
    <2>c. "before-reconcile" \in Marks /\ f \in Callers /\ log \in Seq(Line)
      BY DEF Callers, Marks, TypeOK
    <2>2. log' \in Seq(Line) /\ Len(log') = Len(log) + 1 /\ Len(log) \in Nat /\ Now \in Nat
      BY <2>1, <2>c, LogGrows
    <2>3. [reconcile_fun |-> f, end |-> Now] \in Reconcile
      BY <1>5, <2>2 DEF Reconcile
    <2>4. reconcile_begins' \subseteq Reconcile
      BY <1>5, <2>3 DEF BeforeReconcile, TypeOK
    <2> QED
      BY <1>5, <2>2, <2>4 DEF BeforeReconcile, TypeOK, NotTrivial, config, rounds,
         readSets
  <1>6. ASSUME NEW f \in Funs, AfterReconcile(f)
        PROVE  TypeOK'
    <2>1. Append3("after-reconcile", f, {}, {})
      BY <1>6 DEF AfterReconcile
    <2>c. "after-reconcile" \in Marks /\ f \in Callers /\ log \in Seq(Line)
      BY DEF Callers, Marks, TypeOK
    <2>2. log' \in Seq(Line) /\ Len(log') = Len(log) + 1 /\ Len(log) \in Nat /\ Now \in Nat
      BY <2>1, <2>c, LogGrows
    <2>3. [reconcile_fun |-> f, end |-> Now] \in Reconcile
      BY <1>6, <2>2 DEF Reconcile
    <2>4. reconcile_ends' \subseteq Reconcile
      BY <1>6, <2>3 DEF AfterReconcile, TypeOK
    <2> QED
      BY <1>6, <2>2, <2>4 DEF AfterReconcile, TypeOK, NotTrivial, config, rounds,
         readSets, Callers
  <1>7. ASSUME NEW f \in Funs, BeforeRestWrite(f)
        PROVE  TypeOK'
    <2>1. Append3("before-rest-write", f, {}, {})
      BY <1>7 DEF BeforeRestWrite
    <2>c. "before-rest-write" \in Marks /\ f \in Callers /\ log \in Seq(Line)
      BY DEF Callers, Marks, TypeOK
    <2>2. log' \in Seq(Line) /\ Len(log') = Len(log) + 1 /\ Len(log) \in Nat /\ Now \in Nat
      BY <2>1, <2>c, LogGrows
    <2> QED
      BY <1>7, <2>2 DEF BeforeRestWrite, TypeOK, NotTrivial, config, rounds, readSets
  <1>8. ASSUME NEW f \in Funs, NEW e \in WriteInputs, AfterRestWrite(f, e)
        PROVE  TypeOK'
    <2>1. Append3("after-rest-write", f, {}, {})
      BY <1>8 DEF AfterRestWrite
    <2>c. "after-rest-write" \in Marks /\ f \in Callers /\ log \in Seq(Line)
      BY DEF Callers, Marks, TypeOK
    <2>2. log' \in Seq(Line) /\ Len(log') = Len(log) + 1 /\ Len(log) \in Nat /\ Now \in Nat
      BY <2>1, <2>c, LogGrows
    <2>3. [etype |-> e.etype, key |-> e.key, obj |-> e.obj, error |-> e.error,
            reconcile_fun |-> f, reconcile_id |-> cur_reconcile[f],
            start |-> write_start[f], end |-> Now,
            range_start |-> prev_reconcile[f], range_end |-> Now,
            read_keys |-> read_keys, read_types |-> read_types] \in ControllerWrite
      BY <1>8, <2>2, AnalyzerAssumption DEF ControllerWrite, TypeOK
    <2>4. controller_writes' \subseteq ControllerWrite
      BY <1>8, <2>3 DEF AfterRestWrite, TypeOK
    <2> QED
      BY <1>8, <2>2, <2>4 DEF AfterRestWrite, TypeOK, NotTrivial, config, rounds, readSets
  <1>9. ASSUME NEW f \in Funs, NEW r \in ReadInputs, AfterRestRead(f, r)
        PROVE  TypeOK'
    <2>1. Append3("after-rest-read", f, {}, {})
      BY <1>9 DEF AfterRestRead
    <2>c. "after-rest-read" \in Marks /\ f \in Callers /\ log \in Seq(Line)
      BY DEF Callers, Marks, TypeOK
    <2>2. log' \in Seq(Line) /\ Len(log') = Len(log) + 1 /\ Len(log) \in Nat /\ Now \in Nat
      BY <2>1, <2>c, LogGrows
    <2>3. [input |-> r, from_cache |-> FALSE, reconcile_fun |-> f,
            reconcile_id |-> cur_reconcile[f], end |-> Now] \in ControllerRead
      BY <1>9, <2>2 DEF ControllerRead, TypeOK
    <2>4. controller_reads' \subseteq ControllerRead
      BY <1>9, <2>3 DEF AfterRestRead, TypeOK
    <2> QED
      BY <1>9, <2>2, <2>4 DEF AfterRestRead, TypeOK, NotTrivial, config, rounds, readSets
  <1>10. ASSUME NEW f \in Funs, NEW r \in ReadInputs, AfterCacheRead(f, r)
        PROVE  TypeOK'
    <2>1. Append3("after-cache-read", f, IF r.etype = "Get" THEN r.key_set ELSE {},
                     IF r.etype = "Get" THEN {} ELSE {r.rtype})
      BY <1>10 DEF AfterCacheRead
    <2>c. "after-cache-read" \in Marks /\ f \in Callers /\ log \in Seq(Line)
      BY DEF Callers, Marks, TypeOK
    <2>2. log' \in Seq(Line) /\ Len(log') = Len(log) + 1 /\ Len(log) \in Nat /\ Now \in Nat
      BY <2>1, <2>c, LogGrows, ReadTypes
    <2>3. [input |-> r, from_cache |-> TRUE, reconcile_fun |-> f,
            reconcile_id |-> cur_reconcile[f], end |-> Now] \in ControllerRead
      BY <1>10, <2>2 DEF ControllerRead, TypeOK
    <2>4. controller_reads' \subseteq ControllerRead
      BY <1>10, <2>3 DEF AfterCacheRead, TypeOK
    <2> QED
      BY <1>10, <2>2, <2>4, ReadTypes DEF AfterCacheRead, TypeOK, NotTrivial, config,
         rounds, readSets
  <1>11. CASE UNCHANGED vars
    BY <1>11 DEF vars, config, rounds, readSets, TypeOK
  <1> QED
    BY <1>1, <1>2, <1>3, <1>4, <1>5, <1>6, <1>7, <1>8, <1>9, <1>10, <1>11 DEF Next

\* The order of the lines is kept by every line.
LEMMA SaneInductive ==
    ASSUME TypeOK, SaneInv, [Next]_vars
    PROVE  SaneInv'
  <1> USE DEF SaneInv
  <1>1. ASSUME NEW e \in HearInputs, BeforeHear(e)
        PROVE  SaneInv'
    <2>1. Append3("before-hear", "unknown", {}, {})
      BY <1>1 DEF BeforeHear
    <2>c. "before-hear" \in Marks /\ "unknown" \in Callers /\ log \in Seq(Line)
      BY DEF Callers, Marks, TypeOK
    <2>2. log' \in Seq(Line) /\ Len(log') = Len(log) + 1 /\ Len(log) \in Nat /\ Now \in Nat
      BY <2>1, <2>c, LogGrows
    <2>3. HearsInv'
      <3>1. controller_hears \in Seq(ControllerHear)
        BY DEF TypeOK
      <3>2. Len(controller_hears') = Len(controller_hears) + 1
        BY <1>1, <3>1 DEF BeforeHear
      <3>3. controller_hears'[Len(controller_hears) + 1].start = Now
            /\ controller_hears'[Len(controller_hears) + 1].end = 0
        BY <1>1, <3>1 DEF BeforeHear
      <3>4. \A i \in DOMAIN controller_hears : controller_hears'[i] = controller_hears[i]
        BY <1>1, <3>1 DEF BeforeHear
      <3>5. DOMAIN controller_hears = 1..Len(controller_hears) /\ Len(controller_hears) \in Nat
            /\ DOMAIN controller_hears' = 1..(Len(controller_hears) + 1)
        BY <1>1, <3>1 DEF BeforeHear
      <3> QED
        BY <2>2, <3>2, <3>3, <3>4, <3>5, HearTypesOf DEF HearsInv, Now
    <2>4. LinesInv'
      BY <1>1, <2>2 DEF BeforeHear, NotTrivial, rounds, readSets, config, TypeOK,
         LinesInv, Now
    <2>5. StartsInv'
      BY <1>1, <2>2 DEF BeforeHear, NotTrivial, rounds, readSets, config, TypeOK,
         StartsInv, LinesInv, WritesInv, Now, ControllerWrite
    <2>6. WritesInv'
      BY <1>1, <2>2 DEF BeforeHear, NotTrivial, rounds, readSets, config, TypeOK,
         WritesInv, LinesInv, Now, ControllerWrite
    <2> QED
      BY <2>3, <2>4, <2>5, <2>6 DEF SaneInv
  <1>2. ASSUME NEW i \in DOMAIN controller_hears, AfterHear(i)
        PROVE  SaneInv'
    <2>1. Append3("after-hear", "unknown", {}, {})
      BY <1>2 DEF AfterHear
    <2>c. "after-hear" \in Marks /\ "unknown" \in Callers /\ log \in Seq(Line)
      BY DEF Callers, Marks, TypeOK
    <2>2. log' \in Seq(Line) /\ Len(log') = Len(log) + 1 /\ Len(log) \in Nat /\ Now \in Nat
      BY <2>1, <2>c, LogGrows
    <2>3. HearsInv'
      <3>1. controller_hears \in Seq(ControllerHear) /\ controller_hears[i] \in ControllerHear
        BY DEF TypeOK
      <3>2. DOMAIN controller_hears' = DOMAIN controller_hears
        BY <1>2, <3>1 DEF AfterHear
      <3>3. controller_hears'[i].start = controller_hears[i].start
            /\ controller_hears'[i].end = Now
        BY <1>2, <3>1 DEF AfterHear, ControllerHear
      <3>4. \A j \in DOMAIN controller_hears :
               j # i => controller_hears'[j] = controller_hears[j]
        BY <1>2, <3>1 DEF AfterHear
      <3> QED
        BY <2>2, <3>2, <3>3, <3>4, HearTypesOf DEF HearsInv, Now
    <2>4. LinesInv'
      BY <1>2, <2>2 DEF AfterHear, NotTrivial, rounds, readSets, config, TypeOK, LinesInv,
         Now
    <2>5. StartsInv'
      BY <1>2, <2>2 DEF AfterHear, NotTrivial, rounds, readSets, config, TypeOK,
         StartsInv, LinesInv, WritesInv, Now, ControllerWrite
    <2>6. WritesInv'
      BY <1>2, <2>2 DEF AfterHear, NotTrivial, rounds, readSets, config, TypeOK,
         WritesInv, LinesInv, Now, ControllerWrite
    <2> QED
      BY <2>3, <2>4, <2>5, <2>6 DEF SaneInv
  <1>3. ASSUME NEW c \in Callers, BeforeAnnotatedAPICall(c)
        PROVE  SaneInv'
    <2>1. Append3("before-call", c, {}, {})
      BY <1>3 DEF BeforeAnnotatedAPICall
    <2>c. "before-call" \in Marks /\ c \in Callers /\ log \in Seq(Line)
      BY DEF Callers, Marks, TypeOK
    <2>2. log' \in Seq(Line) /\ Len(log') = Len(log) + 1 /\ Len(log) \in Nat /\ Now \in Nat
      BY <2>1, <2>c, LogGrows
    <2>3. HearsInv'
      BY <1>3, <2>2, HearsKept DEF BeforeAnnotatedAPICall
    <2>4. LinesInv'
      BY <1>3, <2>2 DEF BeforeAnnotatedAPICall, NotTrivial, rounds, readSets, config,
         TypeOK, LinesInv, Now
    <2>5. StartsInv'
      BY <1>3, <2>2 DEF BeforeAnnotatedAPICall, NotTrivial, rounds, readSets, config,
         TypeOK, StartsInv, LinesInv, WritesInv, Now, ControllerWrite
    <2>6. WritesInv'
      BY <1>3, <2>2 DEF BeforeAnnotatedAPICall, NotTrivial, rounds, readSets, config,
         TypeOK, WritesInv, LinesInv, Now, ControllerWrite
    <2> QED
      BY <2>3, <2>4, <2>5, <2>6 DEF SaneInv
  <1>4. ASSUME NEW c \in Callers, AfterAnnotatedAPICall(c)
        PROVE  SaneInv'
    <2>1. Append3("after-call", c, {}, {})
      BY <1>4 DEF AfterAnnotatedAPICall
    <2>c. "after-call" \in Marks /\ c \in Callers /\ log \in Seq(Line)
      BY DEF Callers, Marks, TypeOK
    <2>2. log' \in Seq(Line) /\ Len(log') = Len(log) + 1 /\ Len(log) \in Nat /\ Now \in Nat
      BY <2>1, <2>c, LogGrows
    <2>3. HearsInv'
      BY <1>4, <2>2, HearsKept DEF AfterAnnotatedAPICall
    <2>4. LinesInv'
      BY <1>4, <2>2 DEF AfterAnnotatedAPICall, NotTrivial, rounds, readSets, config,
         TypeOK, LinesInv, Now
    <2>5. StartsInv'
      BY <1>4, <2>2 DEF AfterAnnotatedAPICall, NotTrivial, rounds, readSets, config,
         TypeOK, StartsInv, LinesInv, WritesInv, Now, ControllerWrite
    <2>6. WritesInv'
      BY <1>4, <2>2 DEF AfterAnnotatedAPICall, NotTrivial, rounds, readSets, config,
         TypeOK, WritesInv, LinesInv, Now, ControllerWrite
    <2> QED
      BY <2>3, <2>4, <2>5, <2>6 DEF SaneInv
  <1>5. ASSUME NEW f \in Funs, BeforeReconcile(f)
        PROVE  SaneInv'
    <2>1. Append3("before-reconcile", f, {}, {})
      BY <1>5 DEF BeforeReconcile
    <2>c. "before-reconcile" \in Marks /\ f \in Callers /\ log \in Seq(Line)
      BY DEF Callers, Marks, TypeOK
    <2>2. log' \in Seq(Line) /\ Len(log') = Len(log) + 1 /\ Len(log) \in Nat /\ Now \in Nat
      BY <2>1, <2>c, LogGrows
    <2>3. HearsInv'
      BY <1>5, <2>2, HearsKept DEF BeforeReconcile
    <2>4. LinesInv'
      <3> SUFFICES ASSUME NEW g \in Funs
                   PROVE  /\ write_start'[g] <= Len(log')
                          /\ prev_reconcile'[g] <= Len(log') /\ cur_reconcile'[g] <= Len(log')
        BY DEF LinesInv
      <3>1. write_start'[g] <= Len(log')
        BY <1>5, <2>2 DEF BeforeReconcile, LinesInv, TypeOK
      <3>2. prev_reconcile'[g] \in {prev_reconcile[g], cur_reconcile[g]}
        BY <1>5 DEF BeforeReconcile, TypeOK
      <3>3. cur_reconcile'[g] \in {cur_reconcile[g], Now}
        BY <1>5 DEF BeforeReconcile, TypeOK
      <3> QED
        BY <2>2, <3>1, <3>2, <3>3 DEF LinesInv, TypeOK, Now
    <2>5. StartsInv'
      BY <1>5, <2>2 DEF BeforeReconcile, NotTrivial, rounds, readSets, config, TypeOK,
         StartsInv, LinesInv, WritesInv, Now, ControllerWrite
    <2>6. WritesInv'
      BY <1>5, <2>2 DEF BeforeReconcile, NotTrivial, rounds, readSets, config, TypeOK,
         WritesInv, LinesInv, Now, ControllerWrite
    <2> QED
      BY <2>3, <2>4, <2>5, <2>6 DEF SaneInv
  <1>6. ASSUME NEW f \in Funs, AfterReconcile(f)
        PROVE  SaneInv'
    <2>1. Append3("after-reconcile", f, {}, {})
      BY <1>6 DEF AfterReconcile
    <2>c. "after-reconcile" \in Marks /\ f \in Callers /\ log \in Seq(Line)
      BY DEF Callers, Marks, TypeOK
    <2>2. log' \in Seq(Line) /\ Len(log') = Len(log) + 1 /\ Len(log) \in Nat /\ Now \in Nat
      BY <2>1, <2>c, LogGrows
    <2>3. HearsInv'
      BY <1>6, <2>2, HearsKept DEF AfterReconcile
    <2>4. LinesInv'
      BY <1>6, <2>2 DEF AfterReconcile, NotTrivial, rounds, readSets, config, TypeOK,
         LinesInv, Now
    <2>5. StartsInv'
      BY <1>6, <2>2 DEF AfterReconcile, NotTrivial, rounds, readSets, config, TypeOK,
         StartsInv, LinesInv, WritesInv, Now, ControllerWrite
    <2>6. WritesInv'
      BY <1>6, <2>2 DEF AfterReconcile, NotTrivial, rounds, readSets, config, TypeOK,
         WritesInv, LinesInv, Now, ControllerWrite
    <2> QED
      BY <2>3, <2>4, <2>5, <2>6 DEF SaneInv
  <1>7. ASSUME NEW f \in Funs, BeforeRestWrite(f)
        PROVE  SaneInv'
    <2>1. Append3("before-rest-write", f, {}, {})
      BY <1>7 DEF BeforeRestWrite
    <2>c. "before-rest-write" \in Marks /\ f \in Callers /\ log \in Seq(Line)
      BY DEF Callers, Marks, TypeOK
    <2>2. log' \in Seq(Line) /\ Len(log') = Len(log) + 1 /\ Len(log) \in Nat /\ Now \in Nat
      BY <2>1, <2>c, LogGrows
    <2>3. HearsInv'
      BY <1>7, <2>2, HearsKept DEF BeforeRestWrite
    <2>4. LinesInv'
      BY <1>7, <2>2 DEF BeforeRestWrite, NotTrivial, rounds, readSets, config, TypeOK,
         LinesInv, Now
    <2>5. StartsInv'
      <3>1. controller_writes' = controller_writes
            /\ write_start' = [write_start EXCEPT ![f] = Now]
        BY <1>7 DEF BeforeRestWrite
      <3>2. \A g \in Funs : write_start[g] \in Nat /\ write_start[g] < Now
        BY <2>2 DEF LinesInv, TypeOK, Now
      <3>3. \A w \in controller_writes : w.start \in Nat /\ w.end \in Nat
        BY DEF TypeOK, ControllerWrite
      <3>4. \A w \in controller_writes : w.start < Now
        BY <2>2, <3>3 DEF WritesInv, Now
      <3>5. \A g \in Funs : write_start'[g] = IF g = f THEN Now ELSE write_start[g]
        BY <3>1 DEF TypeOK
      <3> QED
        BY <2>2, <3>1, <3>2, <3>3, <3>4, <3>5 DEF StartsInv
    <2>6. WritesInv'
      BY <1>7, <2>2 DEF BeforeRestWrite, NotTrivial, rounds, readSets, config, TypeOK,
         WritesInv, LinesInv, Now, ControllerWrite
    <2> QED
      BY <2>3, <2>4, <2>5, <2>6 DEF SaneInv
  <1>8. ASSUME NEW f \in Funs, NEW e \in WriteInputs, AfterRestWrite(f, e)
        PROVE  SaneInv'
    <2>1. Append3("after-rest-write", f, {}, {})
      BY <1>8 DEF AfterRestWrite
    <2>c. "after-rest-write" \in Marks /\ f \in Callers /\ log \in Seq(Line)
      BY DEF Callers, Marks, TypeOK
    <2>2. log' \in Seq(Line) /\ Len(log') = Len(log) + 1 /\ Len(log) \in Nat /\ Now \in Nat
      BY <2>1, <2>c, LogGrows
    <2>3. HearsInv'
      BY <1>8, <2>2, HearsKept DEF AfterRestWrite
    <2>4. LinesInv'
      BY <1>8, <2>2 DEF AfterRestWrite, NotTrivial, rounds, readSets, config, TypeOK,
         LinesInv, Now
    <2>5. StartsInv'
      BY <1>8, <2>2 DEF AfterRestWrite, NotTrivial, rounds, readSets, config, TypeOK,
         StartsInv, LinesInv, WritesInv, Now, ControllerWrite
    <2>6. WritesInv'
      BY <1>8, <2>2 DEF AfterRestWrite, NotTrivial, rounds, readSets, config, TypeOK,
         WritesInv, LinesInv, Now, ControllerWrite
    <2> QED
      BY <2>3, <2>4, <2>5, <2>6 DEF SaneInv
  <1>9. ASSUME NEW f \in Funs, NEW r \in ReadInputs, AfterRestRead(f, r)
        PROVE  SaneInv'
    <2>1. Append3("after-rest-read", f, {}, {})
      BY <1>9 DEF AfterRestRead
    <2>c. "after-rest-read" \in Marks /\ f \in Callers /\ log \in Seq(Line)
      BY DEF Callers, Marks, TypeOK
    <2>2. log' \in Seq(Line) /\ Len(log') = Len(log) + 1 /\ Len(log) \in Nat /\ Now \in Nat
      BY <2>1, <2>c, LogGrows
    <2>3. HearsInv'
      BY <1>9, <2>2, HearsKept DEF AfterRestRead
    <2>4. LinesInv'
      BY <1>9, <2>2 DEF AfterRestRead, NotTrivial, rounds, readSets, config, TypeOK,
         LinesInv, Now
    <2>5. StartsInv'
      BY <1>9, <2>2 DEF AfterRestRead, NotTrivial, rounds, readSets, config, TypeOK,
         StartsInv, LinesInv, WritesInv, Now, ControllerWrite
    <2>6. WritesInv'
      BY <1>9, <2>2 DEF AfterRestRead, NotTrivial, rounds, readSets, config, TypeOK,
         WritesInv, LinesInv, Now, ControllerWrite
    <2> QED
      BY <2>3, <2>4, <2>5, <2>6 DEF SaneInv
  <1>10. ASSUME NEW f \in Funs, NEW r \in ReadInputs, AfterCacheRead(f, r)
        PROVE  SaneInv'
    <2>1. Append3("after-cache-read", f, IF r.etype = "Get" THEN r.key_set ELSE {},
                     IF r.etype = "Get" THEN {} ELSE {r.rtype})
      BY <1>10 DEF AfterCacheRead
    <2>c. "after-cache-read" \in Marks /\ f \in Callers /\ log \in Seq(Line)
      BY DEF Callers, Marks, TypeOK
    <2>2. log' \in Seq(Line) /\ Len(log') = Len(log) + 1 /\ Len(log) \in Nat /\ Now \in Nat
      BY <2>1, <2>c, LogGrows, ReadTypes
    <2>3. HearsInv'
      BY <1>10, <2>2, HearsKept DEF AfterCacheRead
    <2>4. LinesInv'
      BY <1>10, <2>2 DEF AfterCacheRead, NotTrivial, rounds, readSets, config, TypeOK,
         LinesInv, Now
    <2>5. StartsInv'
      BY <1>10, <2>2 DEF AfterCacheRead, NotTrivial, rounds, readSets, config, TypeOK,
         StartsInv, LinesInv, WritesInv, Now, ControllerWrite
    <2>6. WritesInv'
      BY <1>10, <2>2 DEF AfterCacheRead, NotTrivial, rounds, readSets, config, TypeOK,
         WritesInv, LinesInv, Now, ControllerWrite
    <2> QED
      BY <2>3, <2>4, <2>5, <2>6 DEF SaneInv
  <1>11. CASE UNCHANGED vars
    BY <1>11 DEF vars, config, rounds, readSets, HearsInv, LinesInv, StartsInv, WritesInv
  <1> QED
    BY <1>1, <1>2, <1>3, <1>4, <1>5, <1>6, <1>7, <1>8, <1>9, <1>10, <1>11 DEF Next

\* Both are invariants.
THEOREM Parsed == Spec => [](TypeOK /\ SaneInv)
  <1>1. Init => TypeOK
    BY AnalyzerAssumption DEF Init, TypeOK
  <1>2. Init => SaneInv
    BY DEF Init, SaneInv, HearsInv, LinesInv, StartsInv, WritesInv
  <1>3. TypeOK /\ SaneInv /\ [Next]_vars => (TypeOK /\ SaneInv)'
    BY TypeInductive, SaneInductive
  <1> QED
    BY <1>1, <1>2, <1>3, PTL DEF Spec

\* What the parser collects has the types of k8s_event.py's classes.
THEOREM TypesCorrect == Spec => []TypeOK
  BY Parsed, PTL

\* parse_receiver_events and parse_reconciler_events: what they hand to EventGraph
\* passes its sanity_check, whatever log the learn server has written.
THEOREM SanityCorrect == Spec => []GraphIsSane
  <1>1. TypeOK /\ SaneInv => GraphIsSane
    <2> SUFFICES ASSUME TypeOK, SaneInv PROVE GraphIsSane
      OBVIOUS
    <2>1. ASSUME NEW i \in DOMAIN controller_hears
          PROVE  /\ i > 1 => controller_hears[i].start > controller_hears[i - 1].start
                 /\ controller_hears[i].start < EndOf(controller_hears[i])
      <3>1. DOMAIN controller_hears = 1..Len(controller_hears)
            /\ Len(controller_hears) \in Nat /\ Len(log) \in Nat
        BY DEF TypeOK
      <3>2. i > 1 => controller_hears[i].start > controller_hears[i - 1].start
        BY <3>1, HearTypesOf DEF SaneInv, HearsInv
      <3>3. controller_hears[i].start < EndOf(controller_hears[i])
        BY <3>1, HearTypesOf DEF SaneInv, HearsInv, EndOf, Now
      <3> QED
        BY <3>2, <3>3
    <2>2. \A v, w \in controller_writes : v # w => v.start # w.start
      BY DEF SaneInv, StartsInv
    <2>3. ASSUME NEW w \in controller_writes
          PROVE  /\ w.start < w.end /\ w.range_end = w.end
                 /\ w.reconcile_id # 0 => w.range_end # 0 /\ w.range_start < w.range_end
      <3>1. w.start \in Nat /\ w.end \in Nat
        BY DEF TypeOK, ControllerWrite
      <3> QED
        BY <3>1 DEF SaneInv, WritesInv
    <2>4. ASSUME NEW w \in controller_writes, NEW i \in DOMAIN controller_hears,
                 HearWrite(controller_hears[i], w)
          PROVE  controller_hears[i].start < w.start
      <3>1. w.start \in Nat /\ controller_hears[i].start \in Nat
        BY HearTypesOf DEF TypeOK, ControllerWrite
      <3> QED
        BY <2>4, <3>1 DEF HearWrite, InScope
    <2> QED
      BY <2>1, <2>2, <2>3, <2>4 DEF GraphIsSane
  <1> QED
    BY <1>1, Parsed, PTL

-----------------------------------------------------------------------------
(* Rounds, as lines of a log.                                               *)

BeginIn(l, i, f) == l[i].mark = "before-reconcile" /\ l[i].fun = f
EndIn(l, i, f) == l[i].mark = "after-reconcile" /\ l[i].fun = f
WriteIn(l, i) == l[i].mark \in {"after-rest-write", "after-call"}
CacheReadIn(l, i) == l[i].mark = "after-cache-read"

\* The last round of f begins in line b.
LastBegin(l, b, f) ==
    b \in DOMAIN l /\ BeginIn(l, b, f) /\ \A j \in DOMAIN l : j > b => ~BeginIn(l, j, f)

InRoundOf(l, i, b, f) == b < i /\ BeginIn(l, b, f) /\ \A j \in (b + 1) .. i : ~BeginIn(l, j, f)

\* In line q some reconciler is in a round.
BusyAt(l, q) ==
    \E f \in Funs, b \in 1 .. q : BeginIn(l, b, f) /\ \A k \in (b + 1) .. q : ~EndIn(l, k, f)

BusyFrom(l, r, j) == \A q \in r .. j : BusyAt(l, q)

\* A cache read of key k, or of the objects of type t, up to line j, since which the
\* controller has been busy.
KeyRead(l, k, j) ==
    \E r \in DOMAIN l : r <= j /\ CacheReadIn(l, r) /\ k \in l[r].keys /\ BusyFrom(l, r, j)
TypeRead(l, t, j) ==
    \E r \in DOMAIN l : r <= j /\ CacheReadIn(l, r) /\ t \in l[r].types /\ BusyFrom(l, r, j)

\* A round of f that begins in line p or later, and before line c; something was
\* written in it if that is needed.
RoundBetween(l, f, p, c, needed) ==
    /\ p \in DOMAIN l /\ BeginIn(l, p, f)
    /\ \E d \in DOMAIN l : /\ p <= d /\ d < c /\ BeginIn(l, d, f)
                           /\ needed => \E i \in DOMAIN l : InRoundOf(l, i, d, f) /\ WriteIn(l, i)

\* The cache reads between two lines are in the given sets.
ReadsWithin(l, b, e, keys, types) ==
    \A r \in DOMAIN l : b < r /\ r < e /\ CacheReadIn(l, r) =>
        l[r].keys \subseteq keys /\ l[r].types \subseteq types
-----------------------------------------------------------------------------
(* The inductive invariant of the causality.                                *)

CurInv ==
    \A f \in Funs : cur_reconcile[f] # 0 =>
        /\ cur_reconcile[f] \in DOMAIN log /\ BeginIn(log, cur_reconcile[f], f)
        /\ \E b : LastBegin(log, b, f) /\ cur_reconcile[f] <= b

OngoingInv ==
    \A f \in ongoing_reconciles :
        /\ cur_reconcile[f] # 0
        /\ \A b : LastBegin(log, b, f) =>
             /\ \A j \in DOMAIN log : j > b => ~EndIn(log, j, f)
             /\ ReadsWithin(log, b, Len(log) + 1, read_keys, read_types)

StartInv ==
    \A f \in Funs : write_start[f] # 0 =>
        /\ f \in ongoing_reconciles
        /\ write_start[f] \in DOMAIN log
        /\ \A b : LastBegin(log, b, f) => b < write_start[f]

\* A round before the current one was not trivial, if trivial ones are compressed.
PrevInv ==
    \A f \in Funs : prev_reconcile[f] # 0 =>
        RoundBetween(log, f, prev_reconcile[f], cur_reconcile[f],
                     compress_trivial_reconcile_enabled)

TrivialInv ==
    \A f \in Funs : ~cur_reconcile_is_trivial[f] /\ cur_reconcile[f] # 0 =>
        \A b : LastBegin(log, b, f) =>
            \E i \in DOMAIN log : InRoundOf(log, i, b, f) /\ WriteIn(log, i)

ReadSetsInv ==
    /\ ongoing_reconciles = {} => read_keys = {} /\ read_types = {}
    /\ \A k \in read_keys : KeyRead(log, k, Len(log))
    /\ \A t \in read_types : TypeRead(log, t, Len(log))

\* What a write has taken from the parser's state when it ended.
WriteSeen(l, w, needed) ==
    /\ w.reconcile_id # 0 /\ l[w.end].mark = "after-rest-write"
    /\ \E b \in DOMAIN l :
         /\ InRoundOf(l, w.start, b, w.reconcile_fun)
         /\ ReadsWithin(l, b, w.start, w.read_keys, w.read_types)
         /\ w.range_start = 0 \/ RoundBetween(l, w.reconcile_fun, w.range_start, b, needed)
    /\ \A k \in w.read_keys : KeyRead(l, k, w.end)
    /\ \A t \in w.read_types : TypeRead(l, t, w.end)

WritesSeenInv ==
    \A w \in controller_writes : WriteSeen(log, w, compress_trivial_reconcile_enabled)

HearEndsInv ==
    \A n \in DOMAIN controller_hears : controller_hears[n].end # 0 =>
        /\ controller_hears[n].end \in DOMAIN log
        /\ log[controller_hears[n].end].mark = "after-hear"

RoundsInv == CurInv /\ OngoingInv /\ StartInv /\ PrevInv /\ TrivialInv
CausesInv == RoundsInv /\ ReadSetsInv /\ WritesSeenInv /\ HearEndsInv
-----------------------------------------------------------------------------
(* The log grows by one line.                                               *)

Grown(l, m, line) ==
    /\ Len(l) \in Nat /\ DOMAIN l = 1 .. Len(l)
    /\ Len(m) = Len(l) + 1 /\ DOMAIN m = 1 .. (Len(l) + 1)
    /\ \A i \in DOMAIN l : m[i] = l[i]
    /\ m[Len(l) + 1] = line

\* A line that the server writes makes the log longer by this line.
LEMMA GrownBy ==
    ASSUME TypeOK, NEW mark \in Marks, NEW fun \in Callers,
           NEW keys \in SUBSET Keys, NEW types \in SUBSET Types,
           Append3(mark, fun, keys, types)
    PROVE  Grown(log, log', [mark |-> mark, fun |-> fun, keys |-> keys, types |-> types])
<1> DEFINE line == [mark |-> mark, fun |-> fun, keys |-> keys, types |-> types]
<1>1. line \in Line /\ log \in Seq(Line)
  BY DEF Line, TypeOK
<1>2. log' = Append(log, line)
  BY DEF Append3
<1> HIDE DEF line
<1>3. Grown(log, log', line)
  BY <1>1, <1>2 DEF Grown
<1> QED
  BY <1>3 DEF line

\* The lines before the new one say what they said.
LEMMA GrownSame ==
    ASSUME NEW l, NEW m, NEW line, Grown(l, m, line), NEW i \in DOMAIN l
    PROVE  /\ i \in DOMAIN m /\ i \in Nat
           /\ \A f : (BeginIn(m, i, f) <=> BeginIn(l, i, f)) /\ (EndIn(m, i, f) <=> EndIn(l, i, f))
           /\ WriteIn(m, i) <=> WriteIn(l, i)
           /\ CacheReadIn(m, i) <=> CacheReadIn(l, i)
           /\ m[i].keys = l[i].keys /\ m[i].types = l[i].types
BY DEF Grown, BeginIn, EndIn, WriteIn, CacheReadIn

\* A line at the end of the log changes nothing about the rounds before it.
LEMMA GrownRound ==
    ASSUME NEW l, NEW m, NEW line, Grown(l, m, line), NEW i \in DOMAIN l, NEW b \in DOMAIN l, NEW f
    PROVE  InRoundOf(m, i, b, f) <=> InRoundOf(l, i, b, f)
<1>1. \A j \in (b + 1) .. i : j \in DOMAIN l
  BY DEF Grown
<1> QED
  BY <1>1, GrownSame DEF InRoundOf

\* Nor about whether somebody reconciles at an earlier line.
LEMMA GrownBusy ==
    ASSUME NEW l, NEW m, NEW line, Grown(l, m, line), NEW q \in DOMAIN l
    PROVE  BusyAt(m, q) <=> BusyAt(l, q)
<1>1. 1 .. q \subseteq DOMAIN l
  BY DEF Grown
<1>2. \A b \in 1 .. q : \A k \in (b + 1) .. q : k \in DOMAIN l
  BY DEF Grown
<1> QED
  BY <1>1, <1>2, GrownSame DEF BusyAt

\* The same for a stretch of earlier lines.
LEMMA GrownBusyFrom ==
    ASSUME NEW l, NEW m, NEW line, Grown(l, m, line), NEW r \in DOMAIN l, NEW j \in DOMAIN l
    PROVE  BusyFrom(m, r, j) <=> BusyFrom(l, r, j)
<1>1. \A q \in r .. j : q \in DOMAIN l
  BY DEF Grown
<1> QED
  BY <1>1, GrownBusy DEF BusyFrom

\* The same for what was read.
LEMMA GrownReads ==
    ASSUME NEW l, NEW m, NEW line, Grown(l, m, line), NEW j \in DOMAIN l
    PROVE  /\ \A k : KeyRead(l, k, j) => KeyRead(m, k, j)
           /\ \A t : TypeRead(l, t, j) => TypeRead(m, t, j)
BY GrownSame, GrownBusyFrom DEF KeyRead, TypeRead

\* A read is remembered as long as the controller is busy.
LEMMA ReadsGoOn ==
    ASSUME NEW l, NEW m, NEW line, Grown(l, m, line), BusyAt(m, Len(l) + 1)
    PROVE  /\ \A k : KeyRead(l, k, Len(l)) => KeyRead(m, k, Len(l) + 1)
           /\ \A t : TypeRead(l, t, Len(l)) => TypeRead(m, t, Len(l) + 1)
<1>1. ASSUME NEW r \in DOMAIN l, BusyFrom(l, r, Len(l)) PROVE BusyFrom(m, r, Len(l) + 1)
  <2>1. Len(l) \in DOMAIN l /\ Len(l) \in Nat /\ r \in Nat
    BY DEF Grown
  <2>2. BusyFrom(m, r, Len(l))
    BY <1>1, <2>1, GrownBusyFrom
  <2> QED
    BY <2>1, <2>2 DEF BusyFrom
<1>2. \A r \in DOMAIN l : r <= Len(l) + 1
  BY DEF Grown
<1> QED
  BY <1>1, <1>2, GrownSame DEF KeyRead, TypeRead

\* The same for a round between two lines.
LEMMA GrownRoundBetween ==
    ASSUME NEW l, NEW m, NEW line, Grown(l, m, line), NEW f, NEW p, NEW c, NEW needed,
           RoundBetween(l, f, p, c, needed)
    PROVE  RoundBetween(m, f, p, c, needed)
BY GrownSame, GrownRound DEF RoundBetween

\* The same for the reads within a round.
LEMMA GrownReadsWithin ==
    ASSUME NEW l, NEW m, NEW line, Grown(l, m, line), NEW b, NEW e \in Nat, e <= Len(l) + 1,
           NEW keys, NEW types, ReadsWithin(l, b, e, keys, types)
    PROVE  ReadsWithin(m, b, e, keys, types)
<1>1. \A r \in DOMAIN m : r < e => r \in DOMAIN l
  BY DEF Grown
<1> QED
  BY <1>1, GrownSame DEF ReadsWithin

\* What is known of a write that has ended stays known.
LEMMA GrownWriteSeen ==
    ASSUME NEW l, NEW m, NEW line, Grown(l, m, line), NEW w, NEW needed,
           w.start \in DOMAIN l, w.end \in DOMAIN l, WriteSeen(l, w, needed)
    PROVE  WriteSeen(m, w, needed)
<1>1. PICK b \in DOMAIN l :
         /\ InRoundOf(l, w.start, b, w.reconcile_fun)
         /\ ReadsWithin(l, b, w.start, w.read_keys, w.read_types)
         /\ w.range_start = 0 \/ RoundBetween(l, w.reconcile_fun, w.range_start, b, needed)
  BY DEF WriteSeen
<1>2. b \in DOMAIN m /\ InRoundOf(m, w.start, b, w.reconcile_fun)
  BY <1>1, GrownRound, GrownSame
<1>3. w.start \in Nat /\ w.start <= Len(l) + 1
  BY DEF Grown
<1>4. ReadsWithin(m, b, w.start, w.read_keys, w.read_types)
  BY <1>1, <1>3, GrownReadsWithin
<1>5. w.range_start = 0 \/ RoundBetween(m, w.reconcile_fun, w.range_start, b, needed)
  BY <1>1, GrownRoundBetween
<1>6. /\ \A k \in w.read_keys : KeyRead(m, k, w.end)
      /\ \A t \in w.read_types : TypeRead(m, t, w.end)
  BY GrownReads DEF WriteSeen
<1>7. w.reconcile_id # 0 /\ m[w.end].mark = "after-rest-write"
  BY DEF WriteSeen, Grown
<1> QED
  BY <1>2, <1>4, <1>5, <1>6, <1>7 DEF WriteSeen

\* The last begin of a reconciler, when the line is or is not another one.
LEMMA GrownLastBegin ==
    ASSUME NEW l, NEW m, NEW line, Grown(l, m, line), NEW f
    PROVE  /\ ~BeginIn(m, Len(l) + 1, f) => \A b : LastBegin(m, b, f) <=> LastBegin(l, b, f)
           /\ BeginIn(m, Len(l) + 1, f) => \A b : LastBegin(m, b, f) <=> b = Len(l) + 1
<1>1. /\ Len(l) \in Nat /\ DOMAIN l = 1 .. Len(l) /\ DOMAIN m = DOMAIN l \cup {Len(l) + 1}
      /\ \A i \in DOMAIN l : BeginIn(m, i, f) <=> BeginIn(l, i, f)
  BY GrownSame DEF Grown
<1>2. \A i \in DOMAIN l : Len(l) + 1 > i /\ ~(i > Len(l) + 1) /\ i # Len(l) + 1
  BY <1>1
<1> QED
  BY <1>1, <1>2 DEF LastBegin

\* Two last begins are the same.
LEMMA OneLastBegin ==
    ASSUME NEW l, Len(l) \in Nat, DOMAIN l = 1 .. Len(l), NEW f, NEW a, NEW b,
           LastBegin(l, a, f), LastBegin(l, b, f)
    PROVE  a = b
BY DEF LastBegin

-----------------------------------------------------------------------------
(* The rounds.                                                              *)

\* A line that begins or ends no round.
LEMMA RoundsGoOn ==
    ASSUME TypeOK, RoundsInv, NEW line, Grown(log, log', line),
           line.mark \notin {"before-reconcile", "after-reconcile"},
           UNCHANGED <<config, prev_reconcile, cur_reconcile, ongoing_reconciles>>,
           read_keys \subseteq read_keys', read_types \subseteq read_types',
           line.mark = "after-cache-read" =>
             line.keys \subseteq read_keys' /\ line.types \subseteq read_types',
           \A f \in Funs : write_start'[f] # 0 =>
             \/ write_start'[f] = write_start[f]
             \/ f \in ongoing_reconciles /\ write_start'[f] = Len(log) + 1,
           \A f \in Funs : ~cur_reconcile_is_trivial'[f] =>
             ~cur_reconcile_is_trivial[f] \/ WriteIn(log', Len(log) + 1)
    PROVE  RoundsInv'
<1> DEFINE n == Len(log)
<1>1. /\ n \in Nat /\ DOMAIN log = 1 .. n /\ Len(log') = n + 1 /\ log'[n + 1] = line
      /\ DOMAIN log' = 1 .. (n + 1)
  BY DEF Grown
<1>2. \A f : ~BeginIn(log', n + 1, f) /\ ~EndIn(log', n + 1, f)
  BY <1>1 DEF BeginIn, EndIn
<1>3. \A f, b : LastBegin(log', b, f) <=> LastBegin(log, b, f)
  BY <1>2, GrownLastBegin
<1>4. \A f, b : LastBegin(log, b, f) => b \in DOMAIN log
  BY DEF LastBegin
<1>5. CurInv'
  BY <1>3, GrownSame DEF RoundsInv, CurInv
<1>6. OngoingInv'
  <2> SUFFICES ASSUME NEW f \in ongoing_reconciles
               PROVE  /\ cur_reconcile[f] # 0
                      /\ \A b : LastBegin(log', b, f) =>
                           /\ \A j \in DOMAIN log' : j > b => ~EndIn(log', j, f)
                           /\ ReadsWithin(log', b, Len(log') + 1, read_keys', read_types')
    BY DEF OngoingInv
  <2>1. cur_reconcile[f] # 0
    BY DEF RoundsInv, OngoingInv
  <2>2. ASSUME NEW b, LastBegin(log', b, f)
        PROVE  /\ \A j \in DOMAIN log' : j > b => ~EndIn(log', j, f)
               /\ ReadsWithin(log', b, Len(log') + 1, read_keys', read_types')
    <3>1. /\ \A j \in DOMAIN log : j > b => ~EndIn(log, j, f)
          /\ ReadsWithin(log, b, n + 1, read_keys, read_types)
      BY <1>3, <2>2 DEF RoundsInv, OngoingInv
    <3>2. \A j \in DOMAIN log' : j \in DOMAIN log \/ j = n + 1
      BY <1>1
    <3>3. \A j \in DOMAIN log' : j > b => ~EndIn(log', j, f)
      BY <1>2, <3>1, <3>2, GrownSame
    <3>4. ASSUME NEW r \in DOMAIN log', b < r, CacheReadIn(log', r)
          PROVE  log'[r].keys \subseteq read_keys' /\ log'[r].types \subseteq read_types'
      <4>1. CASE r = n + 1
        BY <1>1, <3>4, <4>1 DEF CacheReadIn
      <4>2. CASE r \in DOMAIN log
        <5>1. CacheReadIn(log, r) /\ log'[r].keys = log[r].keys /\ log'[r].types = log[r].types
          BY <3>4, <4>2, GrownSame
        <5>2. r < n + 1
          BY <1>1, <4>2
        <5> QED
          BY <3>1, <3>4, <4>2, <5>1, <5>2 DEF ReadsWithin
      <4> QED
        BY <3>2, <4>1, <4>2
    <3> QED
      BY <3>3, <3>4 DEF ReadsWithin
  <2> QED
    BY <2>1, <2>2
<1>7. StartInv'
  <2> SUFFICES ASSUME NEW f \in Funs, write_start'[f] # 0
               PROVE  /\ f \in ongoing_reconciles /\ write_start'[f] \in DOMAIN log'
                      /\ \A b : LastBegin(log, b, f) => b < write_start'[f]
    BY <1>3 DEF StartInv
  <2>1. CASE write_start'[f] = write_start[f]
    BY <2>1, GrownSame DEF RoundsInv, StartInv
  <2>2. CASE f \in ongoing_reconciles /\ write_start'[f] = n + 1
    BY <1>1, <1>4, <2>2
  <2> QED
    BY <2>1, <2>2
<1>8. PrevInv'
  BY GrownRoundBetween DEF RoundsInv, PrevInv, config
<1>9. TrivialInv'
  <2> SUFFICES ASSUME NEW f \in Funs, ~cur_reconcile_is_trivial'[f], cur_reconcile[f] # 0,
                      NEW b, LastBegin(log, b, f)
               PROVE  \E i \in DOMAIN log' : InRoundOf(log', i, b, f) /\ WriteIn(log', i)
    BY <1>3 DEF TrivialInv
  <2>1. CASE ~cur_reconcile_is_trivial[f]
    <3>1. PICK i \in DOMAIN log : InRoundOf(log, i, b, f) /\ WriteIn(log, i)
      BY <2>1 DEF RoundsInv, TrivialInv
    <3> QED
      BY <1>4, <3>1, GrownSame, GrownRound
  <2>2. CASE WriteIn(log', n + 1)
    <3>1. b \in DOMAIN log' /\ BeginIn(log', b, f)
          /\ \A j \in DOMAIN log' : j > b => ~BeginIn(log', j, f)
      BY <1>3 DEF LastBegin
    <3>2. InRoundOf(log', n + 1, b, f)
      BY <1>1, <1>4, <3>1 DEF InRoundOf
    <3> QED
      BY <1>1, <2>2, <3>2
  <2> QED
    BY <2>1, <2>2
<1> QED
  BY <1>5, <1>6, <1>7, <1>8, <1>9 DEF RoundsInv

\* A round ends.
LEMMA RoundsEnd ==
    ASSUME TypeOK, RoundsInv, NEW f \in Funs, AfterReconcile(f)
    PROVE  RoundsInv'
<1> DEFINE n == Len(log)
           line == [mark |-> "after-reconcile", fun |-> f, keys |-> {}, types |-> {}]
<1>g. Grown(log, log', line)
  BY GrownBy DEF AfterReconcile, Marks, Callers
<1>0. /\ line.mark = "after-reconcile" /\ line.fun = f
      /\ UNCHANGED <<config, prev_reconcile, cur_reconcile, cur_reconcile_is_trivial>>
      /\ ongoing_reconciles' = ongoing_reconciles \ {f}
      /\ ongoing_reconciles' # {} => UNCHANGED readSets
      /\ write_start' = [write_start EXCEPT ![f] = 0]
      /\ ongoing_reconciles \subseteq Funs /\ write_start \in [Funs -> Nat]
  BY DEF AfterReconcile, TypeOK
<1> HIDE DEF line
<1>1. /\ n \in Nat /\ DOMAIN log = 1 .. n /\ Len(log') = n + 1 /\ log'[n + 1] = line
      /\ DOMAIN log' = 1 .. (n + 1)
  BY <1>g DEF Grown
<1>2. \A g : ~BeginIn(log', n + 1, g) /\ (g # f => ~EndIn(log', n + 1, g))
      /\ ~CacheReadIn(log', n + 1)
  BY <1>0, <1>1 DEF BeginIn, EndIn, CacheReadIn
<1>3. \A g, b : LastBegin(log', b, g) <=> LastBegin(log, b, g)
  BY <1>g, <1>2, GrownLastBegin
<1>4. \A g, b : LastBegin(log, b, g) => b \in DOMAIN log
  BY DEF LastBegin
<1>5. CurInv'
  BY <1>g, <1>0, <1>3, GrownSame DEF RoundsInv, CurInv
<1>6. OngoingInv'
  <2> SUFFICES ASSUME NEW g \in ongoing_reconciles, g # f
               PROVE  /\ cur_reconcile[g] # 0
                      /\ \A b : LastBegin(log', b, g) =>
                           /\ \A j \in DOMAIN log' : j > b => ~EndIn(log', j, g)
                           /\ ReadsWithin(log', b, Len(log') + 1, read_keys', read_types')
    BY <1>0 DEF OngoingInv
  <2>1. cur_reconcile[g] # 0 /\ UNCHANGED <<read_keys, read_types>>
    BY <1>0 DEF RoundsInv, OngoingInv, readSets
  <2>2. ASSUME NEW b, LastBegin(log', b, g)
        PROVE  /\ \A j \in DOMAIN log' : j > b => ~EndIn(log', j, g)
               /\ ReadsWithin(log', b, Len(log') + 1, read_keys', read_types')
    <3>1. /\ \A j \in DOMAIN log : j > b => ~EndIn(log, j, g)
          /\ ReadsWithin(log, b, n + 1, read_keys, read_types)
      BY <1>3, <2>2 DEF RoundsInv, OngoingInv
    <3>2. \A j \in DOMAIN log' : j \in DOMAIN log \/ j = n + 1
      BY <1>1
    <3>3. \A j \in DOMAIN log' : j > b => ~EndIn(log', j, g)
      BY <1>g, <1>2, <3>1, <3>2, GrownSame
    <3>4. \A r \in DOMAIN log : r < n + 1
      BY <1>1
    <3>5. ReadsWithin(log', b, Len(log') + 1, read_keys, read_types)
      BY <1>g, <1>2, <3>1, <3>2, <3>4, GrownSame DEF ReadsWithin
    <3> QED
      BY <2>1, <3>3, <3>5
  <2> QED
    BY <2>1, <2>2
<1>7. StartInv'
  <2> SUFFICES ASSUME NEW g \in Funs, write_start'[g] # 0
               PROVE  /\ g \in ongoing_reconciles \ {f} /\ write_start'[g] \in DOMAIN log'
                      /\ \A b : LastBegin(log, b, g) => b < write_start'[g]
    BY <1>0, <1>3 DEF StartInv
  <2>1. g # f /\ write_start'[g] = write_start[g]
    BY <1>0
  <2> QED
    BY <1>g, <2>1, GrownSame DEF RoundsInv, StartInv
<1>8. PrevInv'
  BY <1>g, <1>0, GrownRoundBetween DEF RoundsInv, PrevInv, config
<1>9. TrivialInv'
  BY <1>g, <1>0, <1>3, <1>4, GrownSame, GrownRound DEF RoundsInv, TrivialInv
<1> QED
  BY <1>5, <1>6, <1>7, <1>8, <1>9 DEF RoundsInv

\* A round begins.
LEMMA RoundsBegin ==
    ASSUME TypeOK, RoundsInv, NEW f \in Funs, BeforeReconcile(f)
    PROVE  RoundsInv'
<1> DEFINE n == Len(log)
           line == [mark |-> "before-reconcile", fun |-> f, keys |-> {}, types |-> {}]
           kept == cur_reconcile[f] # 0 /\ compress_trivial_reconcile_enabled
                                        /\ cur_reconcile_is_trivial[f]
<1>g. Grown(log, log', line)
  BY GrownBy DEF BeforeReconcile, Marks, Callers
<1>0. /\ line.mark = "before-reconcile" /\ line.fun = f
      /\ UNCHANGED <<config, readSets, write_start>> /\ f \notin ongoing_reconciles
      /\ ongoing_reconciles' = ongoing_reconciles \cup {f}
      /\ cur_reconcile_is_trivial' = [cur_reconcile_is_trivial EXCEPT ![f] = TRUE]
      /\ kept => UNCHANGED <<prev_reconcile, cur_reconcile>>
      /\ ~kept => /\ prev_reconcile' = [prev_reconcile EXCEPT ![f] = cur_reconcile[f]]
                  /\ cur_reconcile' = [cur_reconcile EXCEPT ![f] = n + 1]
      /\ ongoing_reconciles \subseteq Funs /\ write_start \in [Funs -> Nat]
      /\ prev_reconcile \in [Funs -> Nat] /\ cur_reconcile \in [Funs -> Nat]
      /\ cur_reconcile_is_trivial \in [Funs -> BOOLEAN]
      /\ compress_trivial_reconcile_enabled \in BOOLEAN
  BY DEF BeforeReconcile, TypeOK, Now
<1> HIDE DEF line, kept
<1>1. /\ n \in Nat /\ DOMAIN log = 1 .. n /\ Len(log') = n + 1 /\ log'[n + 1] = line
      /\ DOMAIN log' = 1 .. (n + 1)
  BY <1>g DEF Grown
<1>2. /\ \A g : (BeginIn(log', n + 1, g) <=> g = f) /\ ~EndIn(log', n + 1, g)
      /\ ~CacheReadIn(log', n + 1)
  BY <1>0, <1>1 DEF BeginIn, EndIn, CacheReadIn
<1>3. /\ \A g, b : g # f => (LastBegin(log', b, g) <=> LastBegin(log, b, g))
      /\ \A b : LastBegin(log', b, f) <=> b = n + 1
  BY <1>g, <1>2, GrownLastBegin
<1>4. \A g, b : LastBegin(log, b, g) => b \in DOMAIN log /\ BeginIn(log, b, g)
  BY DEF LastBegin
<1>5. CurInv'
  <2> SUFFICES ASSUME NEW g \in Funs, cur_reconcile'[g] # 0
               PROVE  /\ cur_reconcile'[g] \in DOMAIN log' /\ BeginIn(log', cur_reconcile'[g], g)
                      /\ \E b : LastBegin(log', b, g) /\ cur_reconcile'[g] <= b
    BY DEF CurInv
  <2>1. CASE cur_reconcile'[g] = cur_reconcile[g]
    <3>1. cur_reconcile[g] \in DOMAIN log /\ BeginIn(log, cur_reconcile[g], g)
      BY <2>1 DEF RoundsInv, CurInv
    <3>2. cur_reconcile[g] \in DOMAIN log' /\ BeginIn(log', cur_reconcile[g], g)
      BY <1>g, <3>1, GrownSame
    <3>3. CASE g = f
      BY <1>1, <1>3, <2>1, <3>2, <3>3
    <3>4. CASE g # f
      BY <1>3, <2>1, <3>2, <3>4 DEF RoundsInv, CurInv
    <3> QED
      BY <3>3, <3>4
  <2>2. CASE g = f /\ cur_reconcile'[g] = n + 1
    <3>1. n + 1 \in DOMAIN log' /\ n + 1 <= n + 1
      BY <1>1
    <3>2. BeginIn(log', n + 1, f) /\ LastBegin(log', n + 1, f)
      BY <1>2, <1>3
    <3> QED
      BY <2>2, <3>1, <3>2
  <2> QED
    BY <1>0, <2>1, <2>2
<1>6. OngoingInv'
  <2> SUFFICES ASSUME NEW g \in ongoing_reconciles'
               PROVE  /\ cur_reconcile'[g] # 0
                      /\ \A b : LastBegin(log', b, g) =>
                           /\ \A j \in DOMAIN log' : j > b => ~EndIn(log', j, g)
                           /\ ReadsWithin(log', b, Len(log') + 1, read_keys, read_types)
    BY <1>0 DEF OngoingInv, readSets
  <2>1. CASE g = f
    <3>1. cur_reconcile'[f] # 0
      BY <1>0, <1>1 DEF kept
    <3>2. \A j \in DOMAIN log' : ~(j > n + 1) /\ ~(n + 1 < j)
      BY <1>1
    <3> QED
      BY <1>3, <2>1, <3>1, <3>2 DEF ReadsWithin
  <2>2. CASE g # f
    <3>0. g \in ongoing_reconciles /\ cur_reconcile'[g] = cur_reconcile[g] /\ g \in Funs
      BY <1>0, <2>2
    <3>1. ASSUME NEW b, LastBegin(log', b, g)
          PROVE  /\ \A j \in DOMAIN log' : j > b => ~EndIn(log', j, g)
                 /\ ReadsWithin(log', b, Len(log') + 1, read_keys, read_types)
      <4>1. /\ \A j \in DOMAIN log : j > b => ~EndIn(log, j, g)
            /\ ReadsWithin(log, b, n + 1, read_keys, read_types)
        BY <1>3, <2>2, <3>0, <3>1 DEF RoundsInv, OngoingInv
      <4>2. \A j \in DOMAIN log' : j \in DOMAIN log \/ j = n + 1
        BY <1>1
      <4>3. \A j \in DOMAIN log' : j > b => ~EndIn(log', j, g)
        BY <1>g, <1>2, <4>1, <4>2, GrownSame
      <4>4. \A r \in DOMAIN log : r < n + 1
        BY <1>1
      <4>5. ReadsWithin(log', b, Len(log') + 1, read_keys, read_types)
        BY <1>g, <1>2, <4>1, <4>2, <4>4, GrownSame DEF ReadsWithin
      <4> QED
        BY <4>3, <4>5
    <3> QED
      BY <3>0, <3>1 DEF RoundsInv, OngoingInv
  <2> QED
    BY <2>1, <2>2
<1>7. StartInv'
  <2> SUFFICES ASSUME NEW g \in Funs, write_start[g] # 0
               PROVE  /\ g \in ongoing_reconciles' /\ write_start[g] \in DOMAIN log'
                      /\ \A b : LastBegin(log', b, g) => b < write_start[g]
    BY <1>0 DEF StartInv
  <2>1. /\ g \in ongoing_reconciles /\ write_start[g] \in DOMAIN log
        /\ \A b : LastBegin(log, b, g) => b < write_start[g]
    BY DEF RoundsInv, StartInv
  <2> QED
    BY <1>g, <1>0, <1>3, <2>1, GrownSame
<1>8. PrevInv'
  <2> DEFINE needed == compress_trivial_reconcile_enabled
  <2> SUFFICES ASSUME NEW g \in Funs, prev_reconcile'[g] # 0
               PROVE  RoundBetween(log', g, prev_reconcile'[g], cur_reconcile'[g], needed)
    BY <1>0 DEF PrevInv, config
  <2>1. CASE prev_reconcile'[g] = prev_reconcile[g] /\ cur_reconcile'[g] = cur_reconcile[g]
    BY <1>g, <2>1, GrownRoundBetween DEF RoundsInv, PrevInv
  <2>2. CASE g = f /\ ~kept /\ prev_reconcile'[g] = cur_reconcile[f] /\ cur_reconcile'[g] = n + 1
    <3>1. PICK b : LastBegin(log, b, f) /\ cur_reconcile[f] <= b
      BY <2>2 DEF RoundsInv, CurInv
    <3>2. /\ cur_reconcile[f] \in DOMAIN log /\ BeginIn(log, cur_reconcile[f], f)
          /\ b \in DOMAIN log /\ BeginIn(log, b, f) /\ b < n + 1
      BY <1>1, <1>4, <2>2, <3>1 DEF RoundsInv, CurInv
    <3>3. needed => \E i \in DOMAIN log : InRoundOf(log, i, b, f) /\ WriteIn(log, i)
      BY <2>2, <3>1 DEF RoundsInv, TrivialInv, kept
    <3>4. RoundBetween(log, f, cur_reconcile[f], n + 1, needed)
      BY <3>1, <3>2, <3>3 DEF RoundBetween
    <3> QED
      BY <1>g, <2>2, <3>4, GrownRoundBetween
  <2> QED
    BY <1>0, <2>1, <2>2
<1>9. TrivialInv'
  <2> SUFFICES ASSUME NEW g \in Funs, ~cur_reconcile_is_trivial'[g], cur_reconcile'[g] # 0,
                      NEW b, LastBegin(log', b, g)
               PROVE  \E i \in DOMAIN log' : InRoundOf(log', i, b, g) /\ WriteIn(log', i)
    BY DEF TrivialInv
  <2>1. g # f /\ ~cur_reconcile_is_trivial[g] /\ cur_reconcile'[g] = cur_reconcile[g]
    BY <1>0
  <2>2. LastBegin(log, b, g) /\ b \in DOMAIN log
    BY <1>3, <1>4, <2>1
  <2>3. PICK i \in DOMAIN log : InRoundOf(log, i, b, g) /\ WriteIn(log, i)
    BY <2>1, <2>2 DEF RoundsInv, TrivialInv
  <2> QED
    BY <1>g, <2>2, <2>3, GrownSame, GrownRound
<1> QED
  BY <1>5, <1>6, <1>7, <1>8, <1>9 DEF RoundsInv


\* The rounds are kept by every line.
LEMMA RoundsInductive ==
    ASSUME TypeOK, RoundsInv, [Next]_vars
    PROVE  RoundsInv'
<1>t. /\ write_start \in [Funs -> Nat] /\ cur_reconcile_is_trivial \in [Funs -> BOOLEAN]
      /\ Len(log) \in Nat
  BY DEF TypeOK
<1>1. ASSUME NEW e \in HearInputs, BeforeHear(e)
      PROVE  RoundsInv'
  <2>1. Grown(log, log', [mark |-> "before-hear", fun |-> "unknown", keys |-> {}, types |-> {}])
    BY <1>1, GrownBy DEF BeforeHear, Marks, Callers
  <2> QED
    BY <1>1, <2>1, RoundsGoOn DEF BeforeHear, config, readSets, rounds
<1>2. ASSUME NEW i \in DOMAIN controller_hears, AfterHear(i)
      PROVE  RoundsInv'
  <2>1. Grown(log, log', [mark |-> "after-hear", fun |-> "unknown", keys |-> {}, types |-> {}])
    BY <1>2, GrownBy DEF AfterHear, Marks, Callers
  <2> QED
    BY <1>2, <2>1, RoundsGoOn DEF AfterHear, config, readSets, rounds
<1>3. ASSUME NEW c \in Callers, BeforeAnnotatedAPICall(c)
      PROVE  RoundsInv'
  <2>1. Grown(log, log', [mark |-> "before-call", fun |-> c, keys |-> {}, types |-> {}])
    BY <1>3, GrownBy DEF BeforeAnnotatedAPICall, Marks
  <2> QED
    BY <1>3, <2>1, RoundsGoOn DEF BeforeAnnotatedAPICall, config, readSets, rounds
<1>4. ASSUME NEW c \in Callers, AfterAnnotatedAPICall(c)
      PROVE  RoundsInv'
  <2>1. Grown(log, log', [mark |-> "after-call", fun |-> c, keys |-> {}, types |-> {}])
    BY <1>4, GrownBy DEF AfterAnnotatedAPICall, Marks
  <2>2. WriteIn(log', Len(log) + 1)
    BY <2>1 DEF Grown, WriteIn
  <2> QED
    BY <1>4, <2>1, <2>2, RoundsGoOn DEF AfterAnnotatedAPICall, NotTrivial, config, readSets
<1>5. ASSUME NEW f \in Funs, BeforeReconcile(f) \/ AfterReconcile(f)
      PROVE  RoundsInv'
  BY <1>5, RoundsBegin, RoundsEnd
<1>6. ASSUME NEW f \in Funs, BeforeRestWrite(f)
      PROVE  RoundsInv'
  <2>1. Grown(log, log', [mark |-> "before-rest-write", fun |-> f, keys |-> {}, types |-> {}])
    BY <1>6, GrownBy DEF BeforeRestWrite, Marks, Callers
  <2>2. \A g \in Funs : write_start'[g] # 0 =>
             \/ write_start'[g] = write_start[g]
             \/ g \in ongoing_reconciles /\ write_start'[g] = Len(log) + 1
    BY <1>t, <1>6 DEF BeforeRestWrite, Now
  <2> QED
    BY <1>6, <2>1, <2>2, RoundsGoOn DEF BeforeRestWrite, config, readSets, rounds
<1>7. ASSUME NEW f \in Funs, NEW e \in WriteInputs, AfterRestWrite(f, e)
      PROVE  RoundsInv'
  <2>1. Grown(log, log', [mark |-> "after-rest-write", fun |-> f, keys |-> {}, types |-> {}])
    BY <1>7, GrownBy DEF AfterRestWrite, Marks, Callers
  <2>2. WriteIn(log', Len(log) + 1)
    BY <2>1 DEF Grown, WriteIn
  <2>3. \A g \in Funs : write_start'[g] # 0 => write_start'[g] = write_start[g]
    BY <1>t, <1>7 DEF AfterRestWrite
  <2> QED
    BY <1>7, <2>1, <2>2, <2>3, RoundsGoOn DEF AfterRestWrite, NotTrivial, config, readSets
<1>8. ASSUME NEW f \in Funs, NEW r \in ReadInputs, AfterRestRead(f, r)
      PROVE  RoundsInv'
  <2>1. Grown(log, log', [mark |-> "after-rest-read", fun |-> f, keys |-> {}, types |-> {}])
    BY <1>8, GrownBy DEF AfterRestRead, Marks, Callers
  <2> QED
    BY <1>8, <2>1, RoundsGoOn DEF AfterRestRead, config, readSets, rounds
<1>9. ASSUME NEW f \in Funs, NEW r \in ReadInputs, AfterCacheRead(f, r)
      PROVE  RoundsInv'
  <2> DEFINE keys == IF r.etype = "Get" THEN r.key_set ELSE {}
             types == IF r.etype = "Get" THEN {} ELSE {r.rtype}
  <2>1. keys \in SUBSET Keys /\ types \in SUBSET Types
    BY ReadTypes
  <2>2. /\ Append3("after-cache-read", f, keys, types)
        /\ read_keys' = read_keys \cup keys /\ read_types' = read_types \cup types
        /\ UNCHANGED <<config, prev_reconcile, cur_reconcile, ongoing_reconciles,
                       write_start, cur_reconcile_is_trivial>>
    BY <1>9 DEF AfterCacheRead, rounds
  <2> HIDE DEF keys, types
  <2>3. Grown(log, log', [mark |-> "after-cache-read", fun |-> f, keys |-> keys, types |-> types])
    BY <2>1, <2>2, GrownBy DEF Marks, Callers
  <2> QED
    BY <2>2, <2>3, RoundsGoOn
<1>10. CASE UNCHANGED vars
  BY <1>10 DEF vars, config, rounds, readSets, RoundsInv, CurInv, OngoingInv, StartInv, PrevInv,
     TrivialInv
<1> QED
  BY <1>1, <1>2, <1>3, <1>4, <1>5, <1>6, <1>7, <1>8, <1>9, <1>10 DEF Next
-----------------------------------------------------------------------------
(* The reads and the writes.                                                *)

\* A reconciler whose last round has not ended keeps the controller busy.
LEMMA BusyNow ==
    ASSUME NEW l, Len(l) \in Nat, DOMAIN l = 1 .. Len(l), NEW f \in Funs, NEW b,
           LastBegin(l, b, f), \A j \in DOMAIN l : j > b => ~EndIn(l, j, f)
    PROVE  BusyAt(l, Len(l))
<1>1. b \in 1 .. Len(l) /\ BeginIn(l, b, f)
  BY DEF LastBegin
<1>2. \A k \in (b + 1) .. Len(l) : k \in DOMAIN l /\ k > b
  BY <1>1
<1> QED
  BY <1>1, <1>2 DEF BusyAt

\* The shared sets hold only keys and types that were read while the controller has
\* been busy ever since: the parser of analyze.py clears them when nobody reconciles.
LEMMA ReadSetsInductive ==
    ASSUME TypeOK, TypeOK', RoundsInv', ReadSetsInv, [Next]_vars
    PROVE  ReadSetsInv'
<1> DEFINE n == Len(log)
<1>1. ASSUME ongoing_reconciles' # {}
      PROVE  BusyAt(log', Len(log'))
  <2>1. PICK f \in ongoing_reconciles' : TRUE
    BY <1>1
  <2>2. f \in Funs /\ cur_reconcile'[f] # 0 /\ Len(log') \in Nat /\ DOMAIN log' = 1 .. Len(log')
    BY DEF TypeOK, RoundsInv, OngoingInv
  <2>3. PICK b : LastBegin(log', b, f)
    BY <2>2 DEF RoundsInv, CurInv
  <2>4. \A j \in DOMAIN log' : j > b => ~EndIn(log', j, f)
    BY <2>3 DEF RoundsInv, OngoingInv
  <2> QED
    BY <2>2, <2>3, <2>4, BusyNow
<1>2. ASSUME NEW line, Grown(log, log', line),
             read_keys' \subseteq read_keys, read_types' \subseteq read_types,
             ongoing_reconciles' = {} => read_keys' = {} /\ read_types' = {}
      PROVE  ReadSetsInv'
  <2>1. Len(log') = n + 1
    BY <1>2 DEF Grown
  <2>2. CASE ongoing_reconciles' # {}
    <3>1. BusyAt(log', n + 1)
      BY <1>1, <2>1, <2>2
    <3> QED
      BY <1>2, <2>1, <2>2, <3>1, ReadsGoOn DEF ReadSetsInv
  <2>3. CASE ongoing_reconciles' = {}
    BY <1>2, <2>3 DEF ReadSetsInv
  <2> QED
    BY <2>2, <2>3
<1>3. ASSUME NEW mark \in Marks, NEW fun \in Callers, Append3(mark, fun, {}, {}),
             UNCHANGED readSets, ongoing_reconciles' = {} => ongoing_reconciles = {}
      PROVE  ReadSetsInv'
  <2>1. Grown(log, log', [mark |-> mark, fun |-> fun, keys |-> {}, types |-> {}])
    BY <1>3, GrownBy
  <2> QED
    BY <1>2, <1>3, <2>1 DEF readSets, ReadSetsInv
<1>4. ASSUME NEW f \in Funs, AfterReconcile(f)
      PROVE  ReadSetsInv'
  <2>1. Grown(log, log', [mark |-> "after-reconcile", fun |-> f, keys |-> {}, types |-> {}])
    BY <1>4, GrownBy DEF AfterReconcile, Marks, Callers
  <2> QED
    BY <1>2, <1>4, <2>1 DEF AfterReconcile, readSets
<1>5. ASSUME NEW f \in Funs, NEW r \in ReadInputs, AfterCacheRead(f, r)
      PROVE  ReadSetsInv'
  <2> DEFINE keys == IF r.etype = "Get" THEN r.key_set ELSE {}
             types == IF r.etype = "Get" THEN {} ELSE {r.rtype}
             line == [mark |-> "after-cache-read", fun |-> f, keys |-> keys, types |-> types]
  <2>1. keys \in SUBSET Keys /\ types \in SUBSET Types
    BY ReadTypes
  <2>2. /\ Append3("after-cache-read", f, keys, types) /\ f \in ongoing_reconciles'
        /\ read_keys' = read_keys \cup keys /\ read_types' = read_types \cup types
    BY <1>5 DEF AfterCacheRead, rounds
  <2> HIDE DEF keys, types
  <2>3. Grown(log, log', line)
    BY <2>1, <2>2, GrownBy DEF Marks, Callers
  <2>4. line.mark = "after-cache-read" /\ line.keys = keys /\ line.types = types
    OBVIOUS
  <2> HIDE DEF line
  <2>5. /\ n \in Nat /\ Len(log') = n + 1 /\ DOMAIN log' = 1 .. (n + 1) /\ log'[n + 1] = line
    BY <2>3 DEF Grown
  <2>6. BusyAt(log', n + 1)
    BY <1>1, <2>2, <2>5
  <2>7. CacheReadIn(log', n + 1) /\ BusyFrom(log', n + 1, n + 1) /\ n + 1 \in DOMAIN log'
        /\ n + 1 <= n + 1
    BY <2>4, <2>5, <2>6 DEF CacheReadIn, BusyFrom
  <2>8. /\ \A k \in keys : KeyRead(log', k, n + 1)
        /\ \A t \in types : TypeRead(log', t, n + 1)
    BY <2>4, <2>5, <2>7 DEF KeyRead, TypeRead
  <2>9. /\ \A k \in read_keys : KeyRead(log', k, n + 1)
        /\ \A t \in read_types : TypeRead(log', t, n + 1)
    BY <2>3, <2>6, ReadsGoOn DEF ReadSetsInv
  <2> QED
    BY <2>2, <2>5, <2>8, <2>9 DEF ReadSetsInv
<1>6. CASE UNCHANGED vars
  BY <1>6 DEF vars, readSets, rounds, ReadSetsInv
<1>7. ASSUME NEW c \in Callers, BeforeAnnotatedAPICall(c) \/ AfterAnnotatedAPICall(c)
      PROVE  ReadSetsInv'
  BY <1>3, <1>7 DEF BeforeAnnotatedAPICall, AfterAnnotatedAPICall, NotTrivial, rounds, Marks
<1>8. ASSUME NEW f \in Funs, \/ BeforeReconcile(f) \/ BeforeRestWrite(f)
                             \/ \E e \in WriteInputs : AfterRestWrite(f, e)
                             \/ \E r \in ReadInputs : AfterRestRead(f, r)
      PROVE  ReadSetsInv'
  <2>1. f \in Callers /\ {"before-reconcile", "before-rest-write", "after-rest-write",
                          "after-rest-read"} \subseteq Marks
    BY DEF Callers, Marks
  <2>2. UNCHANGED readSets /\ (ongoing_reconciles' = {} => ongoing_reconciles = {})
    BY <1>8 DEF BeforeReconcile, BeforeRestWrite, AfterRestWrite, AfterRestRead, NotTrivial, rounds
  <2>3. \/ Append3("before-reconcile", f, {}, {}) \/ Append3("before-rest-write", f, {}, {})
        \/ Append3("after-rest-write", f, {}, {}) \/ Append3("after-rest-read", f, {}, {})
    BY <1>8 DEF BeforeReconcile, BeforeRestWrite, AfterRestWrite, AfterRestRead
  <2> QED
    BY <1>3, <2>1, <2>2, <2>3
<1>9. CASE \/ \E e \in HearInputs : BeforeHear(e)
           \/ \E i \in DOMAIN controller_hears : AfterHear(i)
  BY <1>3, <1>9 DEF BeforeHear, AfterHear, rounds, Marks, Callers
<1> QED
  BY <1>4, <1>5, <1>6, <1>7, <1>8, <1>9 DEF Next


\* A write that ends.
LEMMA WriteEnds ==
    ASSUME TypeOK, TypeOK', RoundsInv, RoundsInv', ReadSetsInv,
           NEW f \in Funs, NEW e \in WriteInputs, AfterRestWrite(f, e),
           NEW w, w = [etype |-> e.etype, key |-> e.key, obj |-> e.obj, error |-> e.error,
                       reconcile_fun |-> f, reconcile_id |-> cur_reconcile[f],
                       start |-> write_start[f], end |-> Now,
                       range_start |-> prev_reconcile[f], range_end |-> Now,
                       read_keys |-> read_keys, read_types |-> read_types]
    PROVE  WriteSeen(log', w, compress_trivial_reconcile_enabled)
<1> DEFINE n == Len(log)
           line == [mark |-> "after-rest-write", fun |-> f, keys |-> {}, types |-> {}]
           s == write_start[f]
           needed == compress_trivial_reconcile_enabled
<1>g. Grown(log, log', line) /\ line.mark = "after-rest-write"
  BY GrownBy DEF AfterRestWrite, Marks, Callers
<1> HIDE DEF line
<1>1. /\ w.reconcile_fun = f /\ w.reconcile_id = cur_reconcile[f] /\ w.start = s
      /\ w.end = n + 1 /\ w.range_start = prev_reconcile[f]
      /\ w.read_keys = read_keys /\ w.read_types = read_types
  BY DEF Now
<1>2. /\ n \in Nat /\ DOMAIN log = 1 .. n /\ Len(log') = n + 1 /\ DOMAIN log' = 1 .. (n + 1)
  BY <1>g DEF Grown
<1>3. /\ f \in ongoing_reconciles /\ s \in DOMAIN log /\ cur_reconcile[f] # 0
      /\ \A b : LastBegin(log, b, f) => b < s
  BY DEF AfterRestWrite, RoundsInv, StartInv, OngoingInv
<1>4. PICK b : LastBegin(log, b, f) /\ cur_reconcile[f] <= b
  BY <1>3 DEF RoundsInv, CurInv
<1>5. /\ b \in DOMAIN log /\ b < s /\ BeginIn(log, b, f)
      /\ \A j \in DOMAIN log : j > b => ~BeginIn(log, j, f)
  BY <1>3, <1>4 DEF LastBegin
<1>6. InRoundOf(log', s, b, f) /\ b \in DOMAIN log'
  <2>1. InRoundOf(log, s, b, f)
    BY <1>2, <1>3, <1>5 DEF InRoundOf
  <2> QED
    BY <1>g, <1>3, <1>5, <2>1, GrownRound, GrownSame
<1>7. ReadsWithin(log', b, s, read_keys, read_types)
  <2>1. ReadsWithin(log, b, n + 1, read_keys, read_types)
    BY <1>3, <1>4 DEF RoundsInv, OngoingInv
  <2>2. s \in Nat /\ s <= n + 1 /\ \A r \in DOMAIN log : r < s => r < n + 1
    BY <1>2, <1>3
  <2>3. ReadsWithin(log, b, s, read_keys, read_types)
    BY <2>1, <2>2 DEF ReadsWithin
  <2> QED
    BY <1>g, <2>2, <2>3, GrownReadsWithin
<1>8. prev_reconcile[f] = 0 \/ RoundBetween(log', f, prev_reconcile[f], b, needed)
  <2> SUFFICES ASSUME prev_reconcile[f] # 0
               PROVE  RoundBetween(log', f, prev_reconcile[f], b, needed)
    OBVIOUS
  <2>1. RoundBetween(log, f, prev_reconcile[f], cur_reconcile[f], needed)
    BY DEF RoundsInv, PrevInv
  <2>2. cur_reconcile[f] \in Nat /\ \A d \in DOMAIN log : d < cur_reconcile[f] => d < b
    <3>1. cur_reconcile[f] \in Nat
      BY DEF TypeOK
    <3>2. b \in Nat /\ \A d \in DOMAIN log : d \in Nat
      BY <1>2, <1>5
    <3> QED
      BY <1>4, <3>1, <3>2
  <2>3. RoundBetween(log, f, prev_reconcile[f], b, needed)
    BY <2>1, <2>2 DEF RoundBetween
  <2> QED
    BY <1>g, <2>3, GrownRoundBetween
<1>9. BusyAt(log', n + 1)
  <2>1. f \in ongoing_reconciles'
    BY <1>3 DEF AfterRestWrite, NotTrivial
  <2>2. cur_reconcile'[f] # 0
    BY <2>1 DEF RoundsInv, OngoingInv
  <2>3. PICK a : LastBegin(log', a, f)
    BY <2>2 DEF RoundsInv, CurInv
  <2>4. \A j \in DOMAIN log' : j > a => ~EndIn(log', j, f)
    BY <2>1, <2>3 DEF RoundsInv, OngoingInv
  <2>5. Len(log') \in Nat /\ DOMAIN log' = 1 .. Len(log')
    BY <1>2
  <2>6. BusyAt(log', Len(log'))
    BY <2>3, <2>4, <2>5, BusyNow
  <2> QED
    BY <1>2, <2>6
<1>10. /\ \A k \in read_keys : KeyRead(log', k, n + 1)
       /\ \A t \in read_types : TypeRead(log', t, n + 1)
  BY <1>g, <1>9, ReadsGoOn DEF ReadSetsInv
<1> HIDE DEF needed, s
<1>11. /\ w.reconcile_id # 0
       /\ InRoundOf(log', w.start, b, w.reconcile_fun)
       /\ ReadsWithin(log', b, w.start, w.read_keys, w.read_types)
       /\ w.range_start = 0 \/ RoundBetween(log', w.reconcile_fun, w.range_start, b, needed)
       /\ log'[w.end].mark = "after-rest-write"
  BY <1>g, <1>1, <1>3, <1>6, <1>7, <1>8 DEF Grown
<1>12. WriteSeen(log', w, needed)
  BY <1>1, <1>6, <1>10, <1>11 DEF WriteSeen
<1> QED
  BY <1>12 DEF needed

\* Some line was appended.
LEMMA SomeLine ==
    ASSUME TypeOK, Next
    PROVE  \E line : Grown(log, log', line)
<1>1. ASSUME NEW mark \in Marks, NEW fun \in Callers, Append3(mark, fun, {}, {})
      PROVE  \E line : Grown(log, log', line)
  <2>1. {} \in SUBSET Keys /\ {} \in SUBSET Types
    OBVIOUS
  <2>2. Grown(log, log', [mark |-> mark, fun |-> fun, keys |-> {}, types |-> {}])
    BY <1>1, <2>1, GrownBy
  <2> QED
    BY <2>2
<1>2. ASSUME NEW f \in Funs, NEW r \in ReadInputs, AfterCacheRead(f, r)
      PROVE  \E line : Grown(log, log', line)
  <2> DEFINE keys == IF r.etype = "Get" THEN r.key_set ELSE {}
             types == IF r.etype = "Get" THEN {} ELSE {r.rtype}
  <2>1. keys \in SUBSET Keys /\ types \in SUBSET Types
    BY ReadTypes
  <2>2. Append3("after-cache-read", f, keys, types)
    BY <1>2 DEF AfterCacheRead
  <2> HIDE DEF keys, types
  <2> QED
    BY <2>1, <2>2, GrownBy DEF Marks, Callers
<1>3. \/ \E f \in Funs, r \in ReadInputs : AfterCacheRead(f, r)
      \/ \E mark \in Marks, fun \in Callers : Append3(mark, fun, {}, {})
  BY DEF Next, BeforeHear, AfterHear, BeforeAnnotatedAPICall, AfterAnnotatedAPICall,
     BeforeReconcile, AfterReconcile, BeforeRestWrite, AfterRestWrite, AfterRestRead, Marks, Callers
<1> QED
  BY <1>1, <1>2, <1>3

\* What a write takes out of the sets when it ends (set_read_keys, set_read_types and
\* set_range in analyze.py) is what its round has read.
LEMMA WritesSeenInductive ==
    ASSUME TypeOK, TypeOK', SaneInv, RoundsInv, RoundsInv', ReadSetsInv, WritesSeenInv,
           [Next]_vars
    PROVE  WritesSeenInv'
<1> DEFINE needed == compress_trivial_reconcile_enabled
<1>1. CASE UNCHANGED vars
  BY <1>1 DEF vars, config, WritesSeenInv
<1>2. CASE Next
  <2>1. PICK line : Grown(log, log', line)
    BY <1>2, SomeLine
  <2>2. ASSUME NEW w \in controller_writes
        PROVE  WriteSeen(log', w, needed)
    <3>1. WriteSeen(log, w, needed)
      BY DEF WritesSeenInv
    <3>2. w.start \in Nat /\ w.end \in Nat /\ w.start < w.end /\ w.end <= Len(log)
      BY DEF TypeOK, ControllerWrite, SaneInv, WritesInv
    <3>3. PICK b \in DOMAIN log : InRoundOf(log, w.start, b, w.reconcile_fun)
      BY <3>1 DEF WriteSeen
    <3>4. w.start \in DOMAIN log /\ w.end \in DOMAIN log
      BY <2>1, <3>2, <3>3 DEF Grown, InRoundOf
    <3> QED
      BY <2>1, <3>1, <3>4, GrownWriteSeen
  <2>3. compress_trivial_reconcile_enabled' = needed
    BY <1>2 DEF Next, BeforeHear, AfterHear, BeforeAnnotatedAPICall, AfterAnnotatedAPICall,
       BeforeReconcile, AfterReconcile, BeforeRestWrite, AfterRestWrite, AfterRestRead,
       AfterCacheRead, config
  <2>4. CASE controller_writes' = controller_writes
    BY <2>2, <2>3, <2>4 DEF WritesSeenInv
  <2>5. ASSUME NEW f \in Funs, NEW e \in WriteInputs, AfterRestWrite(f, e)
        PROVE  WritesSeenInv'
    <3>1. PICK w : w = [etype |-> e.etype, key |-> e.key, obj |-> e.obj, error |-> e.error,
                       reconcile_fun |-> f, reconcile_id |-> cur_reconcile[f],
                       start |-> write_start[f], end |-> Now,
                       range_start |-> prev_reconcile[f], range_end |-> Now,
                       read_keys |-> read_keys, read_types |-> read_types]
      OBVIOUS
    <3>2. controller_writes' = controller_writes \cup {w}
      BY <2>5, <3>1 DEF AfterRestWrite
    <3>3. WriteSeen(log', w, needed)
      BY <2>5, <3>1, WriteEnds
    <3> QED
      BY <2>2, <2>3, <3>2, <3>3 DEF WritesSeenInv
  <2>6. \/ controller_writes' = controller_writes
        \/ \E f \in Funs, e \in WriteInputs : AfterRestWrite(f, e)
    BY <1>2 DEF Next, BeforeHear, AfterHear, BeforeAnnotatedAPICall, AfterAnnotatedAPICall,
       BeforeReconcile, AfterReconcile, BeforeRestWrite, AfterRestRead, AfterCacheRead
  <2> QED
    BY <2>4, <2>5, <2>6
<1> QED
  BY <1>1, <1>2

\* The end of an event is the line in which its handler has returned.
LEMMA HearEndsInductive ==
    ASSUME TypeOK, HearEndsInv, [Next]_vars
    PROVE  HearEndsInv'
<1>1. CASE UNCHANGED vars
  BY <1>1 DEF vars, HearEndsInv
<1>2. ASSUME Next, UNCHANGED controller_hears
      PROVE  HearEndsInv'
  <2>1. PICK line : Grown(log, log', line)
    BY <1>2, SomeLine
  <2> QED
    BY <1>2, <2>1 DEF Grown, HearEndsInv
<1>3. ASSUME NEW e \in HearInputs, BeforeHear(e)
      PROVE  HearEndsInv'
  <2>1. PICK line : Grown(log, log', line)
    BY <1>3, SomeLine DEF Next
  <2>2. PICK h : h = [etype |-> e.etype, key |-> e.key, obj |-> e.obj, start |-> Now, end |-> 0]
    OBVIOUS
  <2>3. h.end = 0 /\ controller_hears' = Append(controller_hears, h)
        /\ controller_hears \in Seq(ControllerHear)
    BY <1>3, <2>2 DEF BeforeHear, TypeOK
  <2>4. \A n \in DOMAIN controller_hears' :
          \/ n \in DOMAIN controller_hears /\ controller_hears'[n] = controller_hears[n]
          \/ controller_hears'[n] = h
    BY <2>3
  <2> QED
    BY <2>1, <2>3, <2>4 DEF Grown, HearEndsInv
<1>4. ASSUME NEW i \in DOMAIN controller_hears, AfterHear(i)
      PROVE  HearEndsInv'
  <2> DEFINE line == [mark |-> "after-hear", fun |-> "unknown", keys |-> {}, types |-> {}]
  <2>1. Grown(log, log', line) /\ line.mark = "after-hear"
    BY <1>4, GrownBy DEF AfterHear, Marks, Callers
  <2> HIDE DEF line
  <2>2. controller_hears' = [controller_hears EXCEPT ![i].end = Now]
        /\ controller_hears[i] \in ControllerHear
    BY <1>4 DEF AfterHear, TypeOK
  <2>3. /\ DOMAIN controller_hears' = DOMAIN controller_hears
        /\ \A n \in DOMAIN controller_hears : n # i => controller_hears'[n] = controller_hears[n]
        /\ controller_hears'[i].end = Len(log) + 1
    BY <2>2 DEF ControllerHear, Now
  <2> QED
    BY <2>1, <2>3 DEF Grown, HearEndsInv
<1>5. ASSUME Next
      PROVE  \/ controller_hears' = controller_hears
             \/ \E e \in HearInputs : BeforeHear(e)
             \/ \E i \in DOMAIN controller_hears : AfterHear(i)
  BY <1>5 DEF Next, BeforeAnnotatedAPICall, AfterAnnotatedAPICall, BeforeReconcile,
     AfterReconcile, BeforeRestWrite, AfterRestWrite, AfterRestRead, AfterCacheRead
<1>6. CASE Next
  BY <1>2, <1>3, <1>4, <1>5, <1>6
<1> QED
  BY <1>1, <1>6

\* The invariant of the causality holds whatever the log is.
THEOREM CausesInvariance == Spec => []CausesInv
<1>1. Init => CausesInv
  BY DEF Init, CausesInv, RoundsInv, CurInv, OngoingInv, StartInv, PrevInv, TrivialInv, ReadSetsInv,
     WritesSeenInv, HearEndsInv
<1>2. TypeOK /\ SaneInv /\ TypeOK' /\ CausesInv /\ [Next]_vars => CausesInv'
  <2> SUFFICES ASSUME TypeOK, SaneInv, TypeOK', CausesInv, [Next]_vars PROVE CausesInv'
    OBVIOUS
  <2>1. RoundsInv /\ ReadSetsInv /\ WritesSeenInv /\ HearEndsInv
    BY DEF CausesInv
  <2>2. RoundsInv'
    BY <2>1, RoundsInductive
  <2>3. ReadSetsInv'
    BY <2>1, <2>2, ReadSetsInductive
  <2>4. WritesSeenInv'
    BY <2>1, <2>2, WritesSeenInductive
  <2>5. HearEndsInv'
    BY <2>1, HearEndsInductive
  <2> QED
    BY <2>2, <2>3, <2>4, <2>5 DEF CausesInv
<1> QED
  BY <1>1, <1>2, Parsed, PTL DEF Spec

\* A line lies in at most one round of a reconciler.
LEMMA OneRound ==
    ASSUME NEW l, Len(l) \in Nat, DOMAIN l = 1 .. Len(l), NEW s \in Nat, NEW f,
           NEW a \in DOMAIN l, NEW b \in DOMAIN l,
           InRoundOf(l, s, a, f), InRoundOf(l, s, b, f)
    PROVE  a = b
<1>1. a \in Nat /\ b \in Nat
  OBVIOUS
<1>2. a < s /\ b < s /\ BeginIn(l, a, f) /\ BeginIn(l, b, f)
  BY DEF InRoundOf
<1>3. ~(a < b)
  <2>1. a < b => b \in (a + 1) .. s
    BY <1>1, <1>2
  <2> QED
    BY <1>2, <2>1 DEF InRoundOf
<1>4. ~(b < a)
  <2>1. b < a => a \in (b + 1) .. s
    BY <1>1, <1>2
  <2> QED
    BY <1>2, <2>1 DEF InRoundOf
<1> QED
  BY <1>1, <1>3, <1>4

\* base_pass and hear_read_overlap_filtering_pass lose no cause: an event that the
\* reconciler has read in the round that writes is a cause of the write, unless it had its
\* effect in an earlier round.
THEOREM NoCauseIsLost == Spec => []SeenEventsAreCauses
<1>1. TypeOK /\ SaneInv /\ CausesInv => SeenEventsAreCauses
  <2> SUFFICES ASSUME TypeOK, SaneInv, CausesInv,
                      NEW w \in controller_writes, NEW n \in DOMAIN controller_hears,
                      NEW b \in DOMAIN log, NEW r \in DOMAIN log, NEW h, h = controller_hears[n],
                      NEW f, f = w.reconcile_fun,
                      InRound(w.start, b, f),
                      b < r, r < w.start, h.start < r, log[r].fun = f, Reads(r, h.key),
                      ~HearWrite(h, w)
               PROVE  \E c \in DOMAIN log :
                        /\ EndOf(h) < c /\ c < b /\ IsBegin(c, f)
                        /\ compress_trivial_reconcile_enabled =>
                             \E i \in DOMAIN log : InRound(i, c, f) /\ IsWrite(i)
    BY DEF SeenEventsAreCauses
  <2> DEFINE needed == compress_trivial_reconcile_enabled
  <2>0. /\ Len(log) \in Nat /\ DOMAIN log = 1 .. Len(log)
        /\ w.start \in Nat /\ w.end \in Nat /\ w.start < w.end /\ w.end <= Len(log)
        /\ w.range_start \in Nat /\ w.range_start < w.end
        /\ h.start \in Nat /\ h.end \in Nat /\ h.key \in Keys
    <3>1. controller_hears[n] \in ControllerHear
      BY DEF TypeOK
    <3> QED
      BY <3>1 DEF TypeOK, ControllerHear, ControllerWrite, SaneInv, WritesInv
  <2>1. PICK a \in DOMAIN log :
         /\ InRoundOf(log, w.start, a, f)
         /\ ReadsWithin(log, a, w.start, w.read_keys, w.read_types)
         /\ w.range_start = 0 \/ RoundBetween(log, f, w.range_start, a, needed)
    BY DEF CausesInv, WritesSeenInv, WriteSeen
  <2>2. a = b
    <3>1. InRoundOf(log, w.start, b, f)
      BY DEF InRound, IsBegin, InRoundOf, BeginIn
    <3> QED
      BY <2>0, <2>1, <3>1, OneRound
  <2>3. ReadBefore(h, w)
    BY <2>1, <2>2 DEF ReadsWithin, Reads, CacheReadIn, ReadBefore
  <2>4. w.reconcile_id # 0 /\ w.start > h.start
    <3>1. w.reconcile_id # 0
      BY DEF CausesInv, WritesSeenInv, WriteSeen
    <3>2. r \in Nat
      BY <2>0
    <3>3. w.start > h.start
      BY <2>0, <3>2
    <3> QED
      BY <3>1, <3>3
  <2>5. ~(w.range_start < EndOf(h))
    BY <2>3, <2>4 DEF HearWrite, InScope
  <2>6. h.end # 0 /\ EndOf(h) = h.end /\ h.end <= w.range_start /\ w.range_start # 0
    <3>1. w.range_start < Now
      BY <2>0 DEF Now
    <3>2. h.end # 0 /\ EndOf(h) = h.end
      BY <2>5, <3>1 DEF EndOf
    <3> QED
      BY <2>0, <2>5, <3>2
  <2>7. log[h.end].mark = "after-hear"
    BY <2>6 DEF CausesInv, HearEndsInv
  <2>8. PICK d \in DOMAIN log :
          /\ BeginIn(log, w.range_start, f)
          /\ w.range_start <= d /\ d < b /\ BeginIn(log, d, f)
          /\ needed => \E i \in DOMAIN log : InRoundOf(log, i, d, f) /\ WriteIn(log, i)
    BY <2>1, <2>2, <2>6 DEF RoundBetween
  <2>9. h.end # w.range_start
    BY <2>7, <2>8 DEF BeginIn
  <2>10. EndOf(h) < d
    BY <2>0, <2>6, <2>8, <2>9
  <2>11. IsBegin(d, f) /\ (needed => \E i \in DOMAIN log : InRound(i, d, f) /\ IsWrite(i))
    BY <2>8 DEF BeginIn, IsBegin, InRoundOf, InRound, WriteIn, IsWrite
  <2> QED
    BY <2>8, <2>10, <2>11
<1> QED
  BY <1>1, Parsed, CausesInvariance, PTL

\* And they invent none: an assumed cause was read from the cache, by rounds without a
\* gap before the write.
THEOREM CausesWereReadEver == Spec => []CausesWereRead
<1>1. TypeOK /\ SaneInv /\ CausesInv => CausesWereRead
  <2> SUFFICES ASSUME TypeOK, SaneInv, CausesInv,
                      NEW w \in controller_writes, NEW n \in DOMAIN controller_hears,
                      HearWrite(controller_hears[n], w)
               PROVE  \E r \in DOMAIN log : /\ r < w.end /\ Busy(r, w.end)
                                            /\ Reads(r, controller_hears[n].key)
    BY DEF CausesWereRead
  <2> DEFINE k == controller_hears[n].key
  <2>1. /\ \A x \in w.read_keys : KeyRead(log, x, w.end)
        /\ \A t \in w.read_types : TypeRead(log, t, w.end)
        /\ k \in w.read_keys \/ TypeOf[k] \in w.read_types
    BY DEF CausesInv, WritesSeenInv, WriteSeen, HearWrite, ReadBefore
  <2>2. PICK r \in DOMAIN log :
          /\ r <= w.end /\ CacheReadIn(log, r) /\ BusyFrom(log, r, w.end)
          /\ k \in log[r].keys \/ TypeOf[k] \in log[r].types
    BY <2>1 DEF KeyRead, TypeRead
  <2>3. Reads(r, k)
    BY <2>2 DEF CacheReadIn, Reads
  <2>4. Busy(r, w.end)
    BY <2>2 DEF BusyFrom, BusyAt, Busy, BeginIn, EndIn, IsBegin, IsEnd
  <2>5. log[w.end].mark = "after-rest-write"
    BY DEF CausesInv, WritesSeenInv, WriteSeen
  <2>6. r # w.end
    BY <2>2, <2>5 DEF CacheReadIn
  <2>7. r \in Nat /\ w.end \in Nat
    BY DEF TypeOK, ControllerWrite
  <2>8. r < w.end
    BY <2>2, <2>6, <2>7
  <2> QED
    BY <2>2, <2>3, <2>4, <2>8
<1> QED
  BY <1>1, Parsed, CausesInvariance, PTL
-----------------------------------------------------------------------------
(* The plans.                                                               *)

\* A set of numbers that is not empty has a smallest one.
LEMMA HasLeast ==
    ASSUME NEW S, S \subseteq Nat, S # {}
    PROVE  \E m \in S : \A x \in S : m <= x
  <1> DEFINE R == {p \in Nat \X Nat : p[1] < p[2]}
  <1>1. IsWellFoundedOn(R, Nat)
    BY NatLessThanWellFounded DEF OpToRel
  <1>2. \A x, y \in Nat : x < y => <<x, y>> \in R
    OBVIOUS
  <1> HIDE DEF R
  <1>3. PICK m \in S : \A y \in S : ~(<<y, m>> \in R)
    BY <1>1, WFMin
  <1>4. ASSUME NEW x \in S PROVE m <= x
    <2>1. ~(x < m)
      BY <1>2, <1>3
    <2>2. x \in Nat /\ m \in Nat
      OBVIOUS
    <2> QED
      BY <2>1, <2>2
  <1> QED
    BY <1>4

\* A bounded set of numbers that is not empty has a largest one.
LEMMA HasLargest ==
    ASSUME NEW S, S \subseteq Nat, S # {}, NEW b \in Nat, \A x \in S : x <= b
    PROVE  \E m \in S : \A x \in S : x <= m
  <1> DEFINE T == {n \in Nat : n <= b /\ b - n \in S}
  <1>1. T # {}
    <2>1. PICK x \in S : TRUE
      OBVIOUS
    <2>2. b - x \in T
      OBVIOUS
    <2> QED
      BY <2>2
  <1>2. PICK n \in T : \A y \in T : n <= y
    BY <1>1, HasLeast
  <1>3. ASSUME NEW x \in S PROVE x <= b - n
    <2>1. b - x \in T
      OBVIOUS
    <2> QED
      BY <1>2, <2>1
  <1> QED
    BY <1>2, <1>3

\* A subset of a finite set that lacks one of its elements is smaller.
LEMMA SmallerSet ==
    ASSUME NEW S, IsFiniteSet(S), NEW T, T \subseteq S, NEW x \in S, x \notin T
    PROVE  /\ IsFiniteSet(T) /\ Cardinality(T) \in Nat /\ Cardinality(S) \in Nat
           /\ Cardinality(T) < Cardinality(S)
  <1>1. IsFiniteSet(T) /\ Cardinality(T) <= Cardinality(S)
    BY FS_Subset
  <1>2. Cardinality(S) # Cardinality(T)
    BY FS_Subset
  <1>3. Cardinality(T) \in Nat /\ Cardinality(S) \in Nat
    BY <1>1, FS_CardinalityType
  <1> QED
    BY <1>1, <1>2, <1>3

\* A trigger that counts is satisfied by i, and by nothing before, if its occurrence is
\* the number of the counted events up to i (satisfy of test_plan.go).
LEMMA FiresOnce ==
    ASSUME NEW def, NEW S, NEW note, NEW pos \in [S -> Nat], NEW i \in S,
           def.cond # "onTimeout", ~(TP!IsDiffed(def) /\ def.anyUpdate),
           NEW C, C = {l \in S : TP!Counts(def, note[l]) /\ pos[l] <= pos[i]},
           IsFiniteSet(C), i \in C, \A l \in C : pos[l] = pos[i] => l = i,
           def.occurrence = Cardinality(C)
    PROVE  FiresAt(def, S, note, pos, i)
  <1> DEFINE before(j) == {l \in S : pos[l] < pos[j] /\ TP!Counts(def, note[l])}
             fires(j) == TP!Satisfies("trigger", def, Cardinality(before(j)), note[j])
  <1>1. before(i) = C \ {i}
    OBVIOUS
  <1>2. /\ Cardinality(C) \in Nat /\ Cardinality(before(i)) + 1 = Cardinality(C)
        /\ IsFiniteSet(before(i))
    <2>1. IsFiniteSet(C \ {i}) /\ Cardinality(C \ {i}) = Cardinality(C) - 1
      BY FS_RemoveElement
    <2>2. Cardinality(C) \in Nat
      BY FS_CardinalityType
    <2> QED
      BY <1>1, <2>1, <2>2
  <1>3. fires(i)
    BY <1>2 DEF TP!Satisfies
  <1>4. ASSUME NEW j \in S, pos[j] < pos[i], fires(j) PROVE FALSE
    <2>1. TP!Counts(def, note[j]) /\ Cardinality(before(j)) + 1 = def.occurrence
      BY <1>4 DEF TP!Satisfies
    <2>2. before(j) \subseteq before(i) /\ j \in before(i) /\ j \notin before(j)
      BY <1>4, <2>1
    <2> HIDE DEF before
    <2>3. /\ Cardinality(before(j)) \in Nat /\ Cardinality(before(i)) \in Nat
          /\ Cardinality(before(j)) < Cardinality(before(i))
      BY <1>2, <2>2, SmallerSet
    <2> QED
      BY <1>2, <2>1, <2>3
  <1> QED
    BY <1>3, <1>4 DEF FiresAt
-----------------------------------------------------------------------------
\* The events that were heard, one by one.
LEMMA HearsTyped ==
    ASSUME TypeOK
    PROVE  /\ Len(controller_hears) \in Nat /\ Hears = 1 .. Len(controller_hears)
           /\ \A i \in Hears : /\ controller_hears[i].etype \in HearTypes
                               /\ controller_hears[i].key \in Keys
                               /\ controller_hears[i].obj \in Objects
  <1>1. controller_hears \in Seq(ControllerHear)
    BY DEF TypeOK
  <1>2. Hears = 1 .. Len(controller_hears) /\ Len(controller_hears) \in Nat
    BY <1>1 DEF Hears
  <1>3. ASSUME NEW i \in Hears PROVE controller_hears[i] \in ControllerHear
    BY <1>1, <1>2
  <1> QED
    BY <1>2, <1>3 DEF ControllerHear

\* get_prev_controller_hear_with_key finds the last event of the object before i.
LEMMA PrevHearIs ==
    ASSUME TypeOK, NEW i \in Hears
    PROVE  \/ /\ PrevHear(i) = 0
              /\ \A l \in 1 .. (i - 1) : controller_hears[l].key # controller_hears[i].key
           \/ /\ PrevHear(i) \in 1 .. (i - 1) /\ PrevHear(i) \in Hears /\ PrevHear(i) # 0
              /\ controller_hears[PrevHear(i)].key = controller_hears[i].key
              /\ \A l \in 1 .. (i - 1) :
                   controller_hears[l].key = controller_hears[i].key => l <= PrevHear(i)
  <1> DEFINE before == {j \in 1 .. (i - 1) : controller_hears[j].key = controller_hears[i].key}
  <1>1. i \in Nat /\ 1 .. (i - 1) \subseteq Hears
    BY HearsTyped
  <1>2. CASE before = {}
    <2>1. PrevHear(i) = 0
      BY <1>2 DEF PrevHear
    <2> QED
      BY <1>2, <2>1
  <1>3. CASE before # {}
    <2>1. \E j \in before : \A l \in before : l <= j
      <3>1. before \subseteq Nat /\ i \in Nat /\ \A x \in before : x <= i
        BY <1>1
      <3> HIDE DEF before
      <3> QED
        BY <1>3, <3>1, HasLargest
    <2>2. PrevHear(i) = CHOOSE j \in before : \A l \in before : l <= j
      BY <1>3 DEF PrevHear
    <2>3. PrevHear(i) \in before /\ \A l \in before : l <= PrevHear(i)
      BY <2>1, <2>2
    <2> QED
      BY <1>1, <2>3
  <1> QED
    BY <1>2, <1>3

\* The states between which an event leads are among those that triggers look at.
LEMMA PrevObjTyped ==
    ASSUME TypeOK, NEW i \in Hears
    PROVE  PrevObj(i) \in States /\ controller_hears[i].obj \in States
  BY PrevHearIs, HearsTyped DEF PrevObj, States, ReadStates
-----------------------------------------------------------------------------
\* The plans for unobserved states are those of the events that the passes leave.
LEMMA UnobservedPlans ==
    ASSUME NEW c \in Detected, NEW p \in PlansOf(unobserved_state_analysis(c))
    PROVE  \E i \in Hears : /\ cancelled_by(i) # {} /\ detectable_hear(i)
                            /\ p = generate_unobserved_state_test_plan(i)
  <1>1. c.nondeterministic = TRUE /\ c.causality = FALSE
    BY DEF Detected, PruningOptions
  <1>2. CausalHears(c, OverwrittenHears) = OverwrittenHears
    BY <1>1 DEF CausalHears
  <1> DEFINE final == unobserved_state_detectable_pass(OverwrittenHears)
             made  == {generate_unobserved_state_test_plan(i) : i \in final}
             r     == unobserved_state_analysis(c)
  <1>3. r = AssertionError \/ \E b, n, m : r = Result(made, b, n, n, m)
    BY <1>1, <1>2 DEF unobserved_state_analysis, UnobservedStateResult
  <1>4. r # AssertionError
    BY DEF PlansOf, AssertionError
  <1>5. p \in made
    <2> HIDE DEF made, r
    <2>1. PICK b, n, m : r = Result(made, b, n, n, m)
      BY <1>3, <1>4
    <2>2. PlansOf(r) = made
      BY <2>1 DEF PlansOf, Result
    <2> QED
      BY <2>2 DEF r
  <1> QED
    BY <1>5 DEF unobserved_state_detectable_pass, OverwrittenHears

\* The definition of the first trigger of a plan.
LEMMA HearTriggerIs ==
    ASSUME NEW i \in Hears
    PROVE  LET h   == controller_hears[i]
               def == HearTrigger(i, "beforeControllerRecv", "informer", TRUE)
           IN  /\ def.key = h.key /\ def.when = "beforeControllerRecv" /\ def.by = "informer"
               /\ def.occurrence = HearCounter(i)
               /\ h.etype = "Added" => def.cond = "onObjectCreate"
               /\ h.etype = "Deleted" => def.cond = "onObjectDelete"
               /\ h.etype \notin {"Added", "Deleted"} =>
                    def.cond = "onObjectUpdate" /\ def.anyUpdate = (HearDiff(i) = NoDiff)
  BY DEF HearTrigger, Trigger, UpdateTrigger

\* The updates that it accepts are those that make the same change.
LEMMA HearTriggerDesired ==
    ASSUME NEW i \in Hears, NEW prev \in States, NEW cur \in States,
           controller_hears[i].etype \notin {"Added", "Deleted"}
    PROVE  <<prev, cur>> \in HearTrigger(i, "beforeControllerRecv", "informer", TRUE).desired <=>
             DiffEvent(prev, cur, MaskedKeys(controller_hears[i].key),
                        MaskedPaths(controller_hears[i].key), FALSE, TRUE) = HearDiff(i)
  BY DEF HearTrigger, Trigger, UpdateTrigger, isDesiredUpdate

\* Events of an object have the same signature if they are of one type and, unless
\* that says all, bring the same change.
LEMMA SameHearSignature ==
    ASSUME TypeOK, NEW i \in Hears, NEW l \in Hears
    PROVE  HearSignature(l) = HearSignature(i) <=>
             /\ controller_hears[l].etype = controller_hears[i].etype
             /\ controller_hears[i].etype \notin {"Added", "Deleted"} => HearDiff(l) = HearDiff(i)
  <1>1. controller_hears[l].etype \in HearTypes /\ controller_hears[i].etype \in HearTypes
    BY HearsTyped
  <1> QED
    BY <1>1 DEF HearSignature, get_event_signature, is_creation_or_deletion, HearTypes

\* The coordinator counts an event exactly if the analyzer gave it the signature of
\* the event for which the plan was made, relists apart.
LEMMA HearCounted ==
    ASSUME TypeOK, NEW i \in Hears, NEW l \in Hears, detectable_hear(i),
           NEW def, def = HearTrigger(i, "beforeControllerRecv", "informer", TRUE),
           ~(/\ controller_hears[l].etype \in {"Replaced", "Sync"}
             /\ controller_hears[l].key = controller_hears[i].key
             /\ HearDiff(l) = HearDiff(i))
    PROVE  TP!Counts(def, HearNote(l, "beforeControllerRecv")) <=>
             /\ controller_hears[l].key = controller_hears[i].key
             /\ HearSignature(l) = HearSignature(i)
  <1> DEFINE h == controller_hears[i]
             g == controller_hears[l]
             n == HearNote(l, "beforeControllerRecv")
  <1>1. /\ h.etype \in {"Added", "Updated", "Deleted"}
        /\ h.etype = "Updated" => HearDiff(i) # NoDiff
    BY DEF detectable_hear, Differs
  <1>2. g.etype \in HearTypes
    BY HearsTyped
  <1>3. /\ n.key = g.key /\ n.when = "beforeControllerRecv" /\ n.by = "informer"
        /\ n.prev = PrevObj(l) /\ n.cur = g.obj
        /\ n.op = CASE g.etype = "Added" -> "create" [] g.etype = "Deleted" -> "delete"
                    [] OTHER -> "update"
    BY DEF HearNote
  <1>4. n.prev \in States /\ n.cur \in States
    BY <1>3, PrevObjTyped
  <1>5. /\ def.key = h.key /\ def.when = "beforeControllerRecv" /\ def.by = "informer"
        /\ h.etype = "Added" => def.cond = "onObjectCreate"
        /\ h.etype = "Deleted" => def.cond = "onObjectDelete"
        /\ h.etype = "Updated" =>
             def.cond = "onObjectUpdate" /\ def.anyUpdate = (HearDiff(i) = NoDiff)
    BY HearTriggerIs
  <1>6. HearSignature(l) = HearSignature(i) <=>
          g.etype = h.etype /\ (h.etype \notin {"Added", "Deleted"} => HearDiff(l) = HearDiff(i))
    BY SameHearSignature
  <1>7. h.etype = "Updated" /\ g.key = h.key =>
          (<<n.prev, n.cur>> \in def.desired <=> HearDiff(l) = HearDiff(i))
    BY <1>3, <1>4, HearTriggerDesired DEF HearDiff
  <1> HIDE DEF n, h, g
  <1>8. CASE h.etype = "Added"
    BY <1>2, <1>3, <1>5, <1>6, <1>8
       DEF TP!Counts, TP!Observes, TP!OpOf, TP!IsDiffed, HearTypes, n, h, g
  <1>9. CASE h.etype = "Deleted"
    BY <1>2, <1>3, <1>5, <1>6, <1>9
       DEF TP!Counts, TP!Observes, TP!OpOf, TP!IsDiffed, HearTypes, n, h, g
  <1>10. CASE h.etype = "Updated"
    BY <1>1, <1>2, <1>3, <1>5, <1>6, <1>7, <1>10
       DEF TP!Counts, TP!Observes, TP!OpOf, TP!IsDiffed, HearTypes, n, h, g
  <1> QED
    BY <1>1, <1>8, <1>9, <1>10

\* The pauseController action is triggered by the event it was made from.
LEMMA PausedAtSource ==
    ASSUME TypeOK, NEW i \in Hears, detectable_hear(i)
    PROVE  PausesAtSource(generate_unobserved_state_test_plan(i))
  <1> DEFINE p    == generate_unobserved_state_test_plan(i)
             def  == HearTrigger(i, "beforeControllerRecv", "informer", TRUE)
             note == [l \in Hears |-> HearNote(l, "beforeControllerRecv")]
             pos  == [l \in Hears |-> l]
             C    == {l \in Hears : TP!Counts(def, note[l]) /\ pos[l] <= pos[i]}
             D    == {j \in 1 .. i : /\ controller_hears[j].key = controller_hears[i].key
                                     /\ HearSignature(j) = HearSignature(i)}
  <1>1. p.source = i /\ p.actions[1].triggers[1] = def
    BY DEF generate_unobserved_state_test_plan
  <1>2. SUFFICES ASSUME \A l \in 1 .. (i - 1) :
                          ~(/\ controller_hears[l].etype \in {"Replaced", "Sync"}
                            /\ controller_hears[l].key = controller_hears[i].key
                            /\ HearDiff(l) = HearDiff(i))
                 PROVE  FiresAt(def, Hears, note, pos, i)
    BY <1>1 DEF PausesAtSource
  <1>3. i \in Nat /\ 1 .. i \subseteq Hears /\ Hears \subseteq Nat
    BY HearsTyped
  <1>4. controller_hears[i].etype \notin {"Replaced", "Sync"}
    BY DEF detectable_hear
  <1>5. ASSUME NEW l \in 1 .. i
        PROVE  TP!Counts(def, note[l]) <=> /\ controller_hears[l].key = controller_hears[i].key
                                           /\ HearSignature(l) = HearSignature(i)
    <2>1. l \in Hears /\ (l = i \/ l \in 1 .. (i - 1))
      BY <1>3
    <2>2. ~(/\ controller_hears[l].etype \in {"Replaced", "Sync"}
            /\ controller_hears[l].key = controller_hears[i].key
            /\ HearDiff(l) = HearDiff(i))
      BY <1>2, <1>4, <2>1
    <2> QED
      BY <2>1, <2>2, HearCounted
  <1>6. C = D
    <2>1. \A l \in Hears : pos[l] <= pos[i] <=> l \in 1 .. i
      BY <1>3, HearsTyped
    <2> HIDE DEF pos, note, def
    <2> QED
      BY <1>3, <1>5, <2>1
  <1>7. IsFiniteSet(C)
    <2>1. IsFiniteSet(1 .. i)
      BY <1>3, FS_Interval
    <2> QED
      BY <1>6, <2>1, FS_Subset
  <1>8. def.occurrence = Cardinality(C)
    <2>1. def.occurrence = HearCounter(i)
      BY HearTriggerIs
    <2>2. HearCounter(i) = Cardinality(D)
      BY DEF HearCounter
    <2> QED
      BY <1>6, <2>1, <2>2
  <1>9. i \in C
    <2>1. i \in 1 .. i
      BY HearsTyped
    <2> QED
      BY <1>6, <2>1
  <1>10. def.cond # "onTimeout" /\ ~(TP!IsDiffed(def) /\ def.anyUpdate)
    <2>1. /\ controller_hears[i].etype \in {"Added", "Updated", "Deleted"}
          /\ controller_hears[i].etype = "Updated" => HearDiff(i) # NoDiff
      BY DEF detectable_hear, Differs
    <2> QED
      BY <2>1, HearTriggerIs DEF TP!IsDiffed
  <1>11. pos \in [Hears -> Nat] /\ \A l \in C : pos[l] = pos[i] => l = i
    BY <1>3
  <1> HIDE DEF pos, note, def, C
  <1> QED
    BY <1>7, <1>8, <1>9, <1>10, <1>11, FiresOnce DEF C

\* For every learn run, whatever its objects and masks are and however long it is: the
\* coordinator pauses the controller at the very event for which the plan was made,
\* unless a relist has brought the same change before (signature_counter of
\* event_graph.py, satisfy of test_plan.go).
THEOREM PauseIsAtSourceEver == Spec => []PauseIsAtSource
  <1>1. TypeOK => PauseIsAtSource
    BY UnobservedPlans, PausedAtSource DEF PauseIsAtSource
  <1> QED
    BY <1>1, TypesCorrect, PTL
-----------------------------------------------------------------------------
\* The comparison that the coordinator makes with an update that was heard, and the one
\* that the analyzer made, agree (DeltaAssumption).
LEMMA HearDelta ==
    ASSUME TypeOK, NEW i \in Hears, NEW j \in Hears, HearDiff(i) # NoDiff,
           controller_hears[j].key = controller_hears[i].key
    PROVE  LET k     == controller_hears[i].key
               slim  == slim_cur(HearDiff(i))
               conflicts(o) == conflicting_event_payload(slim, o, MaskedKeys(k), MaskedPaths(k))
           IN  /\ ~conflicts(controller_hears[i].obj)
               /\ conflicts(controller_hears[j].obj)
                    <=> isAnyFieldModified(controller_hears[j].obj, slim, MaskedKeys(k),
                                           MaskedPaths(k))
  <1>1. /\ controller_hears[i].key \in Keys /\ PrevObj(i) \in States
        /\ controller_hears[i].obj \in States /\ controller_hears[j].obj \in States
    BY HearsTyped, PrevObjTyped
  <1> QED
    BY <1>1, DeltaAssumption DEF DeltaAssumption, HearDiff

\* The trigger of one condition, without a difference, accepts what the condition names.
LEMMA OnAccepts ==
    ASSUME TypeOK, NEW j \in Hears, NEW key,
           NEW cond \in {"onObjectCreate", "onObjectDelete", "onObjectUpdate"}
    PROVE  TP!Satisfies("trigger", Trigger(cond, key, "afterControllerRecv", "informer", 1), 0,
                        HearNote(j, "afterControllerRecv"))
             <=> /\ controller_hears[j].key = key
                 /\ TP!OpOf(cond) = HearNote(j, "afterControllerRecv").op
  <1> DEFINE def == Trigger(cond, key, "afterControllerRecv", "informer", 1)
             n == HearNote(j, "afterControllerRecv")
  <1>1. /\ def.cond = cond /\ def.key = key /\ def.when = "afterControllerRecv"
        /\ def.by = "informer" /\ def.occurrence = 1 /\ def.anyUpdate = TRUE
    BY DEF Trigger
  <1>2. /\ n.key = controller_hears[j].key /\ n.when = "afterControllerRecv"
        /\ n.by = "informer" /\ n.op \in {"create", "delete", "update"}
    BY DEF HearNote
  <1> HIDE DEF def, n
  <1> QED
    BY <1>1, <1>2 DEF TP!Satisfies, TP!Counts, TP!Observes, TP!IsDiffed, def, n

\* The trigger on a field of a difference accepts the updates that change one.
LEMMA AnyFieldAccepts ==
    ASSUME TypeOK, NEW j \in Hears, NEW key, NEW slim
    PROVE  TP!Satisfies("trigger", AnyFieldTrigger(key, "afterControllerRecv", "informer", slim),
                        0, HearNote(j, "afterControllerRecv"))
             <=> /\ controller_hears[j].key = key
                 /\ HearNote(j, "afterControllerRecv").op = "update"
                 /\ slim # NoDiff
                 /\ isAnyFieldModified(controller_hears[j].obj, slim, MaskedKeys(key),
                                       MaskedPaths(key))
  <1> DEFINE def == AnyFieldTrigger(key, "afterControllerRecv", "informer", slim)
             n == HearNote(j, "afterControllerRecv")
             D == IF slim = NoDiff THEN {}
                  ELSE {u \in States \X States :
                          isAnyFieldModified(u[2], slim, MaskedKeys(key), MaskedPaths(key))}
  <1>1. /\ def.cond = "onAnyFieldModification" /\ def.key = key
        /\ def.when = "afterControllerRecv"
        /\ def.by = "informer" /\ def.occurrence = 1 /\ def.anyUpdate = FALSE
        /\ def.desired = D
    BY DEF AnyFieldTrigger, Trigger
  <1>2. /\ n.key = controller_hears[j].key /\ n.when = "afterControllerRecv"
        /\ n.by = "informer" /\ n.prev = PrevObj(j) /\ n.cur = controller_hears[j].obj
        /\ n.op \in {"create", "delete", "update"}
    BY DEF HearNote
  <1>3. n.prev \in States /\ n.cur \in States
    BY <1>2, PrevObjTyped
  <1>4. <<n.prev, n.cur>> \in D <=>
          slim # NoDiff /\ isAnyFieldModified(n.cur, slim, MaskedKeys(key), MaskedPaths(key))
    BY <1>3
  <1> HIDE DEF def, n, D
  <1> QED
    BY <1>1, <1>2, <1>4
       DEF TP!Satisfies, TP!Counts, TP!Observes, TP!OpOf, TP!IsDiffed, def, n

\* What resumes the controller after it was paused for event i.
LEMMA AcceptedIs ==
    ASSUME TypeOK, NEW i \in Hears, NEW j \in Hears, detectable_hear(i)
    PROVE  LET h == controller_hears[i]
               g == controller_hears[j]
           IN  Accepts(ResumeTriggers(i), j) <=>
                 /\ g.key = h.key
                 /\ h.etype = "Added" => g.etype # "Added"
                 /\ h.etype = "Deleted" => g.etype # "Deleted"
                 /\ h.etype = "Updated" =>
                      \/ g.etype = "Deleted"
                      \/ /\ g.etype \notin {"Added", "Deleted"}
                         /\ conflicting_event_payload(slim_cur(HearDiff(i)), g.obj,
                                                      MaskedKeys(h.key), MaskedPaths(h.key))
  <1> DEFINE h == controller_hears[i]
             g == controller_hears[j]
             T == ResumeTriggers(i)
             note == HearNote(j, "afterControllerRecv")
             on(cond) == Trigger(cond, h.key, "afterControllerRecv", "informer", 1)
             any == AnyFieldTrigger(h.key, "afterControllerRecv", "informer",
                                    slim_cur(HearDiff(i)))
             sat(def) == TP!Satisfies("trigger", def, 0, note)
  <1>1. /\ h.etype \in {"Added", "Updated", "Deleted"}
        /\ h.etype = "Updated" => HearDiff(i) # NoDiff
    BY DEF detectable_hear, Differs
  <1>2. /\ g.etype = "Added" <=> note.op = "create"
        /\ g.etype = "Deleted" <=> note.op = "delete"
        /\ g.etype \notin {"Added", "Deleted"} <=> note.op = "update"
    BY DEF HearNote
  <1>3. /\ sat(on("onObjectCreate")) <=> g.key = h.key /\ note.op = "create"
        /\ sat(on("onObjectDelete")) <=> g.key = h.key /\ note.op = "delete"
        /\ sat(on("onObjectUpdate")) <=> g.key = h.key /\ note.op = "update"
    BY OnAccepts DEF TP!OpOf
  <1>4. CASE h.etype = "Added"
    <2>1. Accepts(T, j) <=> sat(on("onObjectUpdate")) \/ sat(on("onObjectDelete"))
      BY <1>4 DEF Accepts, ResumeTriggers
    <2> QED
      BY <1>2, <1>3, <1>4, <2>1
  <1>5. CASE h.etype = "Deleted"
    <2>1. Accepts(T, j) <=> sat(on("onObjectCreate")) \/ sat(on("onObjectUpdate"))
      BY <1>5 DEF Accepts, ResumeTriggers
    <2> QED
      BY <1>2, <1>3, <1>5, <2>1
  <1>6. CASE h.etype = "Updated"
    <2>1. Accepts(T, j) <=> sat(any) \/ sat(on("onObjectDelete"))
      BY <1>6 DEF Accepts, ResumeTriggers
    <2>2. sat(any) <=> /\ g.key = h.key /\ note.op = "update" /\ slim_cur(HearDiff(i)) # NoDiff
                       /\ isAnyFieldModified(g.obj, slim_cur(HearDiff(i)), MaskedKeys(h.key),
                                             MaskedPaths(h.key))
      BY AnyFieldAccepts
    <2>3. g.key = h.key =>
            (conflicting_event_payload(slim_cur(HearDiff(i)), g.obj, MaskedKeys(h.key),
                                       MaskedPaths(h.key))
               <=> isAnyFieldModified(g.obj, slim_cur(HearDiff(i)), MaskedKeys(h.key),
                                      MaskedPaths(h.key)))
      BY <1>1, <1>6, HearDelta
    <2>4. conflicting_event_payload(slim_cur(HearDiff(i)), g.obj, MaskedKeys(h.key),
                                    MaskedPaths(h.key)) => slim_cur(HearDiff(i)) # NoDiff
      BY DEF conflicting_event_payload
    <2> QED
      BY <1>2, <1>3, <1>6, <2>1, <2>2, <2>3, <2>4
  <1> QED
    BY <1>1, <1>4, <1>5, <1>6

\* An event is added again only after its deletion was heard.
LEMMA AddedAgain ==
    ASSUME TypeOK, Emitted, NEW i \in Hears, NEW j \in Hears, i < j,
           controller_hears[j].key = controller_hears[i].key, controller_hears[j].etype = "Added"
    PROVE  \E l \in Hears : /\ i <= l /\ controller_hears[l].key = controller_hears[i].key
                            /\ controller_hears[l].etype = "Deleted"
  <1>1. i \in 1 .. (j - 1)
    BY HearsTyped
  <1>2. /\ PrevHear(j) \in Hears /\ PrevHear(j) # 0 /\ i <= PrevHear(j)
        /\ controller_hears[PrevHear(j)].key = controller_hears[i].key
    BY <1>1, PrevHearIs
  <1>3. PrevEtype(j) \in {"NONE_TYPE", "Deleted"}
    BY DEF Emitted
  <1>4. controller_hears[PrevHear(j)].etype \in HearTypes
    BY <1>2, HearsTyped
  <1>5. controller_hears[PrevHear(j)].etype = "Deleted"
    BY <1>2, <1>3, <1>4 DEF PrevEtype, HearTypes
  <1> QED
    BY <1>2, <1>5

\* The resumeController action is triggered after the event for which the controller
\* was paused, and by one that overwrites it.
LEMMA ResumedAfterSource ==
    ASSUME TypeOK, Emitted, NEW i \in Hears, detectable_hear(i), cancelled_by(i) # {}
    PROVE  ResumesAfterSource(generate_unobserved_state_test_plan(i))
  <1> DEFINE p == generate_unobserved_state_test_plan(i)
             h == controller_hears[i]
             A == {j \in Hears : j >= i /\ Accepts(ResumeTriggers(i), j)}
             first == CHOOSE j \in A : \A l \in A : j <= l
             conflicts(o) == conflicting_event_payload(slim_cur(HearDiff(i)), o,
                                                       MaskedKeys(h.key), MaskedPaths(h.key))
  <1>1. p.source = i /\ p.actions[2].triggers = ResumeTriggers(i)
    BY DEF generate_unobserved_state_test_plan
  <1>2. SUFFICES A # {} /\ first > i /\ (h.etype # "Added" => first \in cancelled_by(i))
    BY <1>1 DEF ResumesAfterSource
  <1>3. /\ h.etype \in {"Added", "Updated", "Deleted"}
        /\ h.etype = "Updated" => HearDiff(i) # NoDiff
        /\ PrevHear(i) = 0 => h.etype = "Added"
    BY DEF detectable_hear, Differs
  <1>4. i \in Nat /\ Hears \subseteq Nat /\ Hears = 1 .. Len(controller_hears)
    BY HearsTyped
  <1>5. i \notin A
    <2>1. h.etype = "Updated" => ~conflicts(h.obj)
      BY <1>3, HearDelta
    <2> QED
      BY <1>3, <2>1, AcceptedIs
  <1>6. PICK j \in cancelled_by(i) : TRUE
    OBVIOUS
  <1>7. /\ j \in Hears /\ i < j /\ controller_hears[j].key = h.key
        /\ PrevHear(i) = 0 \/ conflicting_event(i, j)
    BY <1>4, <1>6 DEF cancelled_by
  <1>8. ASSUME NEW l \in Hears, i <= l, controller_hears[l].key = h.key,
               controller_hears[l].etype = "Deleted", h.etype # "Deleted"
        PROVE  l \in A
    BY <1>3, <1>4, <1>8, AcceptedIs
  <1>9. A # {}
    <2>1. CASE h.etype = "Deleted"
      <3>1. controller_hears[j].etype # "Deleted"
        BY <1>3, <1>7, <2>1 DEF conflicting_event, conflicting_event_type
      <3>2. j \in A
        BY <1>4, <1>7, <2>1, <3>1, AcceptedIs
      <3> QED
        BY <3>2
    <2>2. CASE h.etype # "Deleted" /\ controller_hears[j].etype = "Added"
      BY <1>7, <1>8, <2>2, AddedAgain
    <2>3. CASE h.etype # "Deleted" /\ controller_hears[j].etype # "Added"
      <3>1. controller_hears[j].etype = "Deleted" => j \in A
        BY <1>4, <1>7, <1>8, <2>3
      <3>2. controller_hears[j].etype # "Deleted" /\ h.etype = "Updated" =>
              conflicts(controller_hears[j].obj)
        BY <1>3, <1>7 DEF conflicting_event, conflicting_event_type
      <3>3. controller_hears[j].etype # "Deleted" => j \in A
        BY <1>3, <1>4, <1>7, <2>3, <3>2, AcceptedIs
      <3> QED
        BY <3>1, <3>3
    <2> QED
      BY <2>1, <2>2, <2>3
  <1>10. first \in A
    <2>1. A \subseteq Nat
      BY <1>4
    <2> HIDE DEF A
    <2>2. \E m \in A : \A l \in A : m <= l
      BY <1>9, <2>1, HasLeast
    <2> QED
      BY <2>2
  <1> HIDE DEF first
  <1>11. first \in Hears /\ first > i
    BY <1>4, <1>5, <1>10
  <1>12. ASSUME h.etype # "Added" PROVE first \in cancelled_by(i)
    <2>1. controller_hears[first].key = h.key
      BY <1>10, <1>11, AcceptedIs
    <2>2. conflicting_event(i, first)
      <3>1. CASE h.etype = "Deleted"
        <4>1. controller_hears[first].etype # "Deleted"
          BY <1>10, <1>11, <3>1, AcceptedIs
        <4> QED
          BY <3>1, <4>1 DEF conflicting_event, conflicting_event_type
      <3>2. CASE h.etype = "Updated"
        <4>1. controller_hears[first].etype = "Deleted" \/ conflicts(controller_hears[first].obj)
          BY <1>10, <1>11, <3>2, AcceptedIs
        <4> QED
          BY <2>1, <3>2, <4>1 DEF conflicting_event, conflicting_event_type
      <3> QED
        BY <1>3, <1>12, <3>1, <3>2
    <2>3. first \in (i + 1) .. Len(controller_hears)
      BY <1>4, <1>11
    <2> QED
      BY <2>1, <2>2, <2>3 DEF cancelled_by
  <1> QED
    BY <1>9, <1>11, <1>12

\* For every learn run in which the informer emits the events of an object in order:
\* the controller that such a plan has paused is resumed, by a later event and not by
\* the one for which it was paused, and after an update or a deletion by an event that
\* cancelled_by of event_graph.py knows to overwrite it.
THEOREM ResumeComesEver == Spec => [](Emitted => ResumeComes)
  <1>1. TypeOK => (Emitted => ResumeComes)
    BY UnobservedPlans, ResumedAfterSource DEF ResumeComes
  <1> QED
    BY <1>1, TypesCorrect, PTL
-----------------------------------------------------------------------------
\* There are finitely many events of the reconcilers.
EventsFinite ==
    /\ IsFiniteSet(controller_writes) /\ IsFiniteSet(controller_non_k8s_writes)
    /\ IsFiniteSet(controller_reads)
    /\ IsFiniteSet(reconcile_begins) /\ IsFiniteSet(reconcile_ends)

\* Every line adds at most one of each kind.
LEMMA EventsFiniteInductive ==
    ASSUME EventsFinite, [Next]_vars
    PROVE  EventsFinite'
  <1> DEFINE OneMore(S, T) == T = S \/ \E x : T = S \cup {x}
  <1>1. ASSUME NEW S, NEW T, OneMore(S, T), IsFiniteSet(S) PROVE IsFiniteSet(T)
    BY <1>1, FS_AddElement
  <1> DEFINE AllOneMore ==
               /\ OneMore(controller_writes, controller_writes')
               /\ OneMore(controller_non_k8s_writes, controller_non_k8s_writes')
               /\ OneMore(controller_reads, controller_reads')
               /\ OneMore(reconcile_begins, reconcile_begins')
               /\ OneMore(reconcile_ends, reconcile_ends')
  <1>2. AllOneMore
    <2>1. ASSUME NEW e \in HearInputs, BeforeHear(e) PROVE AllOneMore
      BY <2>1 DEF BeforeHear, rounds
    <2>2. ASSUME NEW i \in DOMAIN controller_hears, AfterHear(i) PROVE AllOneMore
      BY <2>2 DEF AfterHear, rounds
    <2>3. ASSUME NEW c \in Callers, BeforeAnnotatedAPICall(c) PROVE AllOneMore
      BY <2>3 DEF BeforeAnnotatedAPICall, rounds
    <2>4. ASSUME NEW c \in Callers, AfterAnnotatedAPICall(c) PROVE AllOneMore
      BY <2>4 DEF AfterAnnotatedAPICall, NotTrivial
    <2>5. ASSUME NEW f \in Funs, BeforeReconcile(f) PROVE AllOneMore
      BY <2>5 DEF BeforeReconcile
    <2>6. ASSUME NEW f \in Funs, AfterReconcile(f) PROVE AllOneMore
      BY <2>6 DEF AfterReconcile
    <2>7. ASSUME NEW f \in Funs, BeforeRestWrite(f) PROVE AllOneMore
      BY <2>7 DEF BeforeRestWrite, rounds
    <2>8. ASSUME NEW f \in Funs, NEW e \in WriteInputs, AfterRestWrite(f, e) PROVE AllOneMore
      BY <2>8 DEF AfterRestWrite, NotTrivial
    <2>9. ASSUME NEW f \in Funs, NEW r \in ReadInputs, AfterRestRead(f, r) PROVE AllOneMore
      BY <2>9 DEF AfterRestRead, rounds
    <2>10. ASSUME NEW f \in Funs, NEW r \in ReadInputs, AfterCacheRead(f, r) PROVE AllOneMore
      BY <2>10 DEF AfterCacheRead, rounds
    <2>11. CASE UNCHANGED vars
      BY <2>11 DEF vars, rounds
    <2> HIDE DEF AllOneMore
    <2> QED
      BY <2>1, <2>2, <2>3, <2>4, <2>5, <2>6, <2>7, <2>8, <2>9, <2>10, <2>11 DEF Next
  <1> HIDE DEF OneMore
  <1> QED
    BY <1>1, <1>2 DEF EventsFinite

\* The parse has seen finitely many events at any time.
THEOREM EventsAreFinite == Spec => []EventsFinite
  <1>1. Init => EventsFinite
    BY FS_EmptySet DEF Init, EventsFinite
  <1>2. EventsFinite /\ [Next]_vars => EventsFinite'
    BY EventsFiniteInductive
  <1> QED
    BY <1>1, <1>2, PTL DEF Spec

\* The writes of one reconciler come one after the other, and the one that it is in comes
\* last.  The reads are in the log.
WriteOrder ==
    /\ \A r \in controller_reads : r.end <= Len(log)
    /\ \A v \in controller_writes :
          write_start[v.reconcile_fun] # 0 => v.end < write_start[v.reconcile_fun]
    /\ \A v, w \in controller_writes :
          v.reconcile_fun = w.reconcile_fun /\ v.start < w.start => v.end < w.start

\* The order of the writes is kept by every line.
LEMMA WriteOrderInductive ==
    ASSUME TypeOK, SaneInv, WriteOrder, [Next]_vars
    PROVE  WriteOrder'
  <1>t. /\ \A w \in controller_writes : /\ w.start \in Nat /\ w.end \in Nat
                                        /\ w.start < w.end /\ w.end <= Len(log)
                                        /\ w.reconcile_fun \in Funs
        /\ \A r \in controller_reads : r.end \in Nat
        /\ write_start \in [Funs -> Nat] /\ Len(log) \in Nat
    BY DEF TypeOK, ControllerWrite, ControllerRead, SaneInv, WritesInv
  <1>g. ASSUME NEW mark, NEW fun, NEW keys, NEW types, Append3(mark, fun, keys, types)
        PROVE  Len(log') = Len(log) + 1
    <2>1. log' = Append(log, [mark |-> mark, fun |-> fun, keys |-> keys, types |-> types])
      BY <1>g DEF Append3
    <2>2. log \in Seq(Line)
      BY DEF TypeOK
    <2> HIDE DEF TypeOK
    <2> QED
      BY <2>1, <2>2
  <1>1. ASSUME UNCHANGED <<controller_writes, controller_reads, write_start>>,
               Len(log') \in Nat, Len(log) <= Len(log')
        PROVE  WriteOrder'
    BY <1>t, <1>1 DEF WriteOrder
  <1>2. ASSUME NEW f \in Funs, NEW r, controller_reads' = controller_reads \cup {r},
               r.end = Now, UNCHANGED <<controller_writes, write_start>>,
               Len(log') = Len(log) + 1
        PROVE  WriteOrder'
    BY <1>t, <1>2 DEF WriteOrder, Now
  <1>3. ASSUME NEW f \in Funs, BeforeRestWrite(f) PROVE WriteOrder'
    <2>1. /\ UNCHANGED <<controller_writes, controller_reads>>
          /\ write_start' = [write_start EXCEPT ![f] = Now] /\ Len(log') = Len(log) + 1
      BY <1>3, <1>g DEF BeforeRestWrite
    <2> QED
      BY <1>t, <2>1 DEF WriteOrder, Now
  <1>4. ASSUME NEW f \in Funs, AfterReconcile(f) PROVE WriteOrder'
    <2>1. /\ UNCHANGED <<controller_writes, controller_reads>>
          /\ write_start' = [write_start EXCEPT ![f] = 0] /\ Len(log') = Len(log) + 1
      BY <1>4, <1>g DEF AfterReconcile
    <2> QED
      BY <1>t, <2>1 DEF WriteOrder
  <1>5. ASSUME NEW f \in Funs, NEW e \in WriteInputs, AfterRestWrite(f, e) PROVE WriteOrder'
    <2> DEFINE new == [etype |-> e.etype, key |-> e.key, obj |-> e.obj, error |-> e.error,
                       reconcile_fun |-> f, reconcile_id |-> cur_reconcile[f],
                       start |-> write_start[f], end |-> Now,
                       range_start |-> prev_reconcile[f], range_end |-> Now,
                       read_keys |-> read_keys, read_types |-> read_types]
    <2>1. /\ controller_writes' = controller_writes \cup {new}
          /\ UNCHANGED controller_reads /\ write_start[f] # 0
          /\ write_start' = [write_start EXCEPT ![f] = 0] /\ Len(log') = Len(log) + 1
      BY <1>5, <1>g DEF AfterRestWrite
    <2>2. new.reconcile_fun = f /\ new.start = write_start[f] /\ new.end = Now
      OBVIOUS
    <2> HIDE DEF new
    <2>4. \A v \in controller_writes : v.reconcile_fun = f => v.end < write_start[f]
      BY <2>1 DEF WriteOrder
    <2>5. ASSUME NEW v \in controller_writes', write_start'[v.reconcile_fun] # 0
          PROVE  v.end < write_start'[v.reconcile_fun]
      <3>1. v.reconcile_fun # f
        BY <1>t, <2>1, <2>5
      <3>2. v \in controller_writes /\ v.reconcile_fun \in Funs
        BY <1>t, <2>1, <2>2, <3>1
      <3> QED
        BY <1>t, <2>1, <2>5, <3>1, <3>2 DEF WriteOrder
    <2>6. ASSUME NEW v \in controller_writes', NEW w \in controller_writes',
                 v.reconcile_fun = w.reconcile_fun, v.start < w.start
          PROVE  v.end < w.start
      <3>1. CASE v = new
        <4>1. w \in controller_writes /\ w.reconcile_fun = f
          BY <1>t, <2>1, <2>2, <2>6, <3>1
        <4> QED
          BY <1>t, <2>2, <2>4, <2>6, <3>1, <4>1
      <3>2. CASE v # new /\ w = new
        BY <2>1, <2>2, <2>4, <2>6, <3>2
      <3>3. CASE v # new /\ w # new
        BY <2>1, <2>6, <3>3 DEF WriteOrder
      <3> QED
        BY <3>1, <3>2, <3>3
    <2>7. \A r \in controller_reads' : r.end <= Len(log')
      BY <1>t, <2>1 DEF WriteOrder
    <2> QED
      BY <2>5, <2>6, <2>7 DEF WriteOrder
  <1>6. ASSUME NEW f \in Funs, NEW r \in ReadInputs, AfterRestRead(f, r) \/ AfterCacheRead(f, r)
        PROVE  WriteOrder'
    <2>1. CASE AfterRestRead(f, r)
      <3> DEFINE read == [input |-> r, from_cache |-> FALSE, reconcile_fun |-> f,
                          reconcile_id |-> cur_reconcile[f], end |-> Now]
      <3>1. /\ controller_reads' = controller_reads \cup {read} /\ Len(log') = Len(log) + 1
            /\ UNCHANGED <<controller_writes, write_start>>
        BY <1>g, <2>1 DEF AfterRestRead
      <3>2. read.end = Now
        OBVIOUS
      <3> HIDE DEF read
      <3> QED
        BY <1>2, <3>1, <3>2
    <2>2. CASE AfterCacheRead(f, r)
      <3> DEFINE read == [input |-> r, from_cache |-> TRUE, reconcile_fun |-> f,
                          reconcile_id |-> cur_reconcile[f], end |-> Now]
      <3>1. /\ controller_reads' = controller_reads \cup {read} /\ Len(log') = Len(log) + 1
            /\ UNCHANGED <<controller_writes, write_start>>
        BY <1>g, <2>2 DEF AfterCacheRead
      <3>2. read.end = Now
        OBVIOUS
      <3> HIDE DEF read
      <3> QED
        BY <1>2, <3>1, <3>2
    <2> QED
      BY <1>6, <2>1, <2>2
  <1>7. ASSUME NEW e \in HearInputs, BeforeHear(e) PROVE WriteOrder'
    BY <1>t, <1>g, <1>1, <1>7 DEF BeforeHear
  <1>8. ASSUME NEW i \in DOMAIN controller_hears, AfterHear(i) PROVE WriteOrder'
    BY <1>t, <1>g, <1>1, <1>8 DEF AfterHear
  <1>9. ASSUME NEW c \in Callers, BeforeAnnotatedAPICall(c) \/ AfterAnnotatedAPICall(c)
        PROVE  WriteOrder'
    BY <1>t, <1>g, <1>1, <1>9 DEF BeforeAnnotatedAPICall, AfterAnnotatedAPICall
  <1>10. ASSUME NEW f \in Funs, BeforeReconcile(f) PROVE WriteOrder'
    BY <1>t, <1>g, <1>1, <1>10 DEF BeforeReconcile
  <1>11. CASE UNCHANGED vars
    BY <1>t, <1>1, <1>11 DEF vars
  <1> QED
    BY <1>3, <1>4, <1>5, <1>6, <1>7, <1>8, <1>9, <1>10, <1>11 DEF Next

\* The fields of a write.
LEMMA WriteTyped ==
    ASSUME TypeOK, NEW w \in controller_writes
    PROVE  /\ w.etype \in WriteTypes /\ w.key \in Keys /\ w.obj \in Objects
           /\ w.start \in Nat /\ w.end \in Nat /\ w.reconcile_fun \in Funs
  BY DEF TypeOK, ControllerWrite

\* The state that a write starts from is one of the object, or none.
LEMMA WritePrevObjTyped ==
    ASSUME TypeOK, WriteOrder, NEW w \in controller_writes
    PROVE  WritePrevObj(w) \in ReadStates
  <1>1. CASE ReadsOf(w) = {}
    BY <1>1 DEF WritePrevObj, ReadStates
  <1>2. CASE ReadsOf(w) # {}
    <2> DEFINE E == {r.end : r \in ReadsOf(w)}
    <2>1. /\ ReadsOf(w) \subseteq controller_reads
          /\ \A r \in ReadsOf(w) : w.key \in r.input.key_set
      BY DEF ReadsOf
    <2>2. \A r \in controller_reads : r.end \in Nat /\ r.end <= Len(log) /\ r.input \in ReadInputs
      BY DEF TypeOK, ControllerRead, WriteOrder
    <2>3. Len(log) \in Nat
      BY DEF TypeOK
    <2>4. E \subseteq Nat /\ E # {} /\ \A x \in E : x <= Len(log)
      BY <1>2, <2>1, <2>2
    <2>5. PICK m \in E : \A x \in E : x <= m
      <3> HIDE DEF E
      <3> QED
        BY <2>3, <2>4, HasLargest
    <2>6. PICK r \in ReadsOf(w) : \A q \in ReadsOf(w) : q.end <= r.end
      BY <2>5
    <2> DEFINE last == CHOOSE r_1 \in ReadsOf(w) : \A q \in ReadsOf(w) : q.end <= r_1.end
    <2>7. last \in ReadsOf(w)
      BY <2>6
    <2>8. WritePrevObj(w) = last.input.objs[w.key]
      BY <1>2 DEF WritePrevObj
    <2> HIDE DEF last
    <2>9. last.input \in ReadInputs /\ w.key \in last.input.key_set
      BY <2>1, <2>2, <2>7
    <2>10. last.input.objs[w.key] \in Objects
      BY <2>9, AnalyzerAssumption DEF AnalyzerAssumption
    <2> QED
      BY <2>8, <2>10 DEF ReadStates
  <1> QED
    BY <1>1, <1>2

\* So is the state that the coordinator knows, and what is left of both when kind and
\* apiVersion are trimmed is a state that triggers look at.
LEMMA LastReadTyped ==
    ASSUME TypeOK, WriteOrder, NEW w \in controller_writes
    PROVE  /\ LastRead(w) \in ReadStates
           /\ WriteNote(w).prev \in States /\ WriteNote(w).cur \in States
  <1> DEFINE reads == {r \in controller_reads : /\ w.key \in r.input.key_set /\ r.end < w.end
                                                /\ r.reconcile_fun = w.reconcile_fun}
             E == {r.end : r \in reads}
             last == CHOOSE r \in reads : \A q \in reads : q.end <= r.end
  <1>1. ASSUME reads = {} PROVE LastRead(w) \in ReadStates
    BY <1>1 DEF LastRead, ReadStates
  <1>2. ASSUME reads # {} PROVE LastRead(w) \in ReadStates
    <2>1. \A r \in controller_reads : r.end \in Nat /\ r.end <= Len(log) /\ r.input \in ReadInputs
      BY DEF TypeOK, ControllerRead, WriteOrder
    <2>2. Len(log) \in Nat
      BY DEF TypeOK
    <2>3. E \subseteq Nat /\ E # {} /\ \A x \in E : x <= Len(log)
      BY <1>2, <2>1
    <2>4. PICK m \in E : \A x \in E : x <= m
      <3> HIDE DEF E
      <3> QED
        BY <2>2, <2>3, HasLargest
    <2>5. PICK r \in reads : \A q \in reads : q.end <= r.end
      BY <2>4
    <2>6. last \in reads
      BY <2>5
    <2>7. LastRead(w) = last.input.objs[w.key]
      BY <1>2 DEF LastRead
    <2> HIDE DEF last
    <2>8. last.input \in ReadInputs /\ w.key \in last.input.key_set
      BY <2>1, <2>6
    <2>9. last.input.objs[w.key] \in Objects
      BY <2>8, AnalyzerAssumption DEF AnalyzerAssumption
    <2> QED
      BY <2>7, <2>9 DEF ReadStates
  <1>3. LastRead(w) \in ReadStates
    BY <1>1, <1>2
  <1>4. w.obj \in ReadStates
    BY WriteTyped DEF ReadStates
  <1> QED
    BY <1>3, <1>4 DEF WriteNote, States

\* The plans for intermediate states are those of the writes that the passes leave, and
\* of the annotated calls.
LEMMA IntermediatePlans ==
    ASSUME TypeOK, NEW c \in Detected, NEW p \in PlansOf(intermediate_state_analysis(c)),
           p.source \in controller_writes
    PROVE  \E w \in controller_writes :
              /\ detectable_write(w)
              /\ p = generate_intermediate_state_test_plan_for_controller_write(w)
  <1> DEFINE final == intermediate_state_detectable_pass(controller_writes)
             made  == {generate_intermediate_state_test_plan_for_controller_write(w) : w \in final}
             calls == {generate_intermediate_state_test_plan_for_annotated_api_invocation(w) :
                         w \in controller_non_k8s_writes}
             r     == intermediate_state_analysis(c)
  <1>1. c.nondeterministic = TRUE /\ c.effective_updates = FALSE
    BY DEF Detected, PruningOptions
  <1>2. \E b, n, m, l : r = Result(made \cup calls, b, n, m, l)
    BY <1>1 DEF intermediate_state_analysis
  <1>3. p \in made \cup calls
    <2> HIDE DEF made, calls, r
    <2>1. PICK b, n, m, l : r = Result(made \cup calls, b, n, m, l)
      BY <1>2
    <2>2. PlansOf(r) = made \cup calls
      BY <2>1 DEF PlansOf, Result
    <2> QED
      BY <2>2 DEF r
  <1>4. ASSUME NEW w \in controller_non_k8s_writes PROVE w \notin controller_writes
    <2>1. w \in ControllerNonK8sWrite
      BY DEF TypeOK
    <2>2. "etype" \notin DOMAIN w
      BY <2>1 DEF ControllerNonK8sWrite
    <2>3. ASSUME NEW v \in ControllerWrite PROVE "etype" \in DOMAIN v
      BY DEF ControllerWrite
    <2> QED
      BY <2>2, <2>3 DEF TypeOK
  <1>5. p \notin calls
    BY <1>4 DEF generate_intermediate_state_test_plan_for_annotated_api_invocation
  <1> QED
    BY <1>3, <1>5 DEF intermediate_state_detectable_pass

\* The trigger of the plan of a write.
LEMMA WriteTriggerIs ==
    ASSUME TypeOK, NEW w \in controller_writes
    PROVE  LET p   == generate_intermediate_state_test_plan_for_controller_write(w)
               def == p.actions[1].triggers[1]
           IN  /\ p.source = w
               /\ def.key = w.key /\ def.when = "afterControllerWrite"
               /\ def.by = w.reconcile_fun /\ def.occurrence = WriteCounter(w)
               /\ w.etype = "Create" => def.cond = "onObjectCreate"
               /\ w.etype = "Delete" => def.cond = "onObjectDelete"
               /\ w.etype \in UpdateWrites =>
                    /\ def.cond = "onObjectUpdate" /\ def.anyUpdate = (WriteDiff(w) = NoDiff)
                    /\ \A prev, cur \in States :
                         <<prev, cur>> \in def.desired <=>
                           DiffEvent(prev, cur, MaskedKeys(w.key), MaskedPaths(w.key),
                                      FALSE, TRUE) = WriteDiff(w)
  <1> DEFINE p   == generate_intermediate_state_test_plan_for_controller_write(w)
             def == p.actions[1].triggers[1]
             up  == UpdateTrigger(w.key, "afterControllerWrite", w.reconcile_fun,
                                  WriteCounter(w), WriteDiff(w), TRUE)
             on(cond) == Trigger(cond, w.key, "afterControllerWrite", w.reconcile_fun,
                                 WriteCounter(w))
  <1>1. /\ p.source = w
        /\ def = CASE w.etype = "Create" -> on("onObjectCreate")
                   [] w.etype = "Delete" -> on("onObjectDelete")
                   [] OTHER -> up
    BY DEF generate_intermediate_state_test_plan_for_controller_write
  <1>2. ASSUME NEW cond
        PROVE  /\ on(cond).key = w.key /\ on(cond).when = "afterControllerWrite"
               /\ on(cond).by = w.reconcile_fun /\ on(cond).occurrence = WriteCounter(w)
               /\ on(cond).cond = cond
    BY DEF Trigger
  <1>3. /\ up.key = w.key /\ up.when = "afterControllerWrite" /\ up.by = w.reconcile_fun
        /\ up.occurrence = WriteCounter(w) /\ up.cond = "onObjectUpdate"
        /\ up.anyUpdate = (WriteDiff(w) = NoDiff)
    BY DEF UpdateTrigger, Trigger
  <1>4. ASSUME NEW prev \in States, NEW cur \in States
        PROVE  <<prev, cur>> \in up.desired <=>
                 DiffEvent(prev, cur, MaskedKeys(w.key), MaskedPaths(w.key), FALSE, TRUE)
                   = WriteDiff(w)
    BY DEF UpdateTrigger, Trigger, isDesiredUpdate
  <1> HIDE DEF p, def, up, on
  <1>5. w.etype = "Create" => def = on("onObjectCreate")
    BY <1>1
  <1>6. w.etype = "Delete" => def = on("onObjectDelete")
    BY <1>1
  <1>7. w.etype \in UpdateWrites => def = up
    BY <1>1 DEF UpdateWrites, StatusWrites
  <1>8. w.etype \in {"Create", "Delete"} \cup UpdateWrites
    BY WriteTyped DEF WriteTypes, UpdateWrites, StatusWrites
  <1>9. CASE w.etype = "Create"
    BY <1>1, <1>2, <1>5, <1>9 DEF UpdateWrites, StatusWrites, p, def
  <1>10. CASE w.etype = "Delete"
    BY <1>1, <1>2, <1>6, <1>10 DEF UpdateWrites, StatusWrites, p, def
  <1>11. CASE w.etype \in UpdateWrites
    BY <1>1, <1>3, <1>4, <1>7, <1>11 DEF UpdateWrites, StatusWrites, p, def
  <1> QED
    BY <1>8, <1>9, <1>10, <1>11

\* Writes have the same signature if they are of one type and, unless that says all,
\* make the same change.
LEMMA SameWriteSignature ==
    ASSUME TypeOK, NEW w \in controller_writes, NEW v \in controller_writes
    PROVE  WriteSignature(v) = WriteSignature(w) <=>
             /\ v.etype = w.etype
             /\ w.etype \in UpdateWrites => WriteDiff(v) = WriteDiff(w)
  <1>1. v.etype \in WriteTypes /\ w.etype \in WriteTypes
    BY WriteTyped
  <1> QED
    BY <1>1 DEF WriteSignature, get_event_signature, is_creation_or_deletion, WriteTypes,
         UpdateWrites, StatusWrites

\* The writes of one reconciler end in the order in which they start.
LEMMA SameOrder ==
    ASSUME TypeOK, StartsInv, WritesInv, WriteOrder, NEW v \in controller_writes,
           NEW w \in controller_writes, v.reconcile_fun = w.reconcile_fun
    PROVE  v.end <= w.end <=> v.start <= w.start
  <1>1. \A u \in controller_writes : u.start \in Nat /\ u.end \in Nat /\ u.start < u.end
    BY WriteTyped DEF WritesInv
  <1>2. CASE v.start < w.start
    BY <1>1, <1>2 DEF WriteOrder
  <1>3. CASE v.start = w.start
    BY <1>1, <1>3 DEF StartsInv
  <1>4. CASE w.start < v.start
    BY <1>1, <1>4 DEF WriteOrder
  <1> QED
    BY <1>1, <1>2, <1>3, <1>4

\* What the coordinator counts for the plan of the write w: the reported writes of the
\* object by the reconciler of w, of the kind that the condition names, and for an
\* update those that make the difference of w, taken from the state it knows.
LEMMA WriteCounted ==
    ASSUME TypeOK, WriteOrder, NEW w \in controller_writes, NEW v \in controller_writes,
           detectable_write(w)
    PROVE  LET p == generate_intermediate_state_test_plan_for_controller_write(w)
           IN  TP!Counts(p.actions[1].triggers[1], WriteNote(v)) <=>
                 /\ v.key = w.key /\ v.reconcile_fun = w.reconcile_fun
                 /\ \/ v.etype = w.etype /\ w.etype \notin UpdateWrites
                    \/ /\ v.etype \in UpdateWrites /\ w.etype \in UpdateWrites
                       /\ DiffEvent(LastRead(v), v.obj, MaskedKeys(w.key), MaskedPaths(w.key),
                                    TRUE, TRUE) = WriteDiff(w)
  <1> DEFINE p   == generate_intermediate_state_test_plan_for_controller_write(w)
             def == p.actions[1].triggers[1]
             n   == WriteNote(v)
  <1>1. /\ n.key = v.key /\ n.when = "afterControllerWrite" /\ n.by = v.reconcile_fun
        /\ n.prev = TrimKindApiversion(LastRead(v)) /\ n.cur = TrimKindApiversion(v.obj)
        /\ n.op = CASE v.etype = "Create" -> "create" [] v.etype = "Delete" -> "delete"
                    [] OTHER -> "update"
    BY DEF WriteNote
  <1>2. n.prev \in States /\ n.cur \in States
    BY LastReadTyped
  <1>3. /\ v.etype \in {"Create", "Delete"} \cup UpdateWrites
        /\ w.etype \in {"Create", "Delete"} \cup UpdateWrites
    BY WriteTyped DEF WriteTypes, UpdateWrites, StatusWrites
  <1>4. DiffEvent(LastRead(v), v.obj, MaskedKeys(w.key), MaskedPaths(w.key), TRUE, TRUE)
          = DiffEvent(n.prev, n.cur, MaskedKeys(w.key), MaskedPaths(w.key), FALSE, TRUE)
    <2>1. LastRead(v) \in ReadStates /\ v.obj \in ReadStates /\ w.key \in Keys
      BY LastReadTyped, WriteTyped DEF ReadStates
    <2>2. \A k \in Keys : \A q, c \in ReadStates :
            DiffEvent(q, c, MaskedKeys(k), MaskedPaths(k), TRUE, TRUE) =
              DiffEvent(TrimKindApiversion(q), TrimKindApiversion(c), MaskedKeys(k),
                        MaskedPaths(k), FALSE, TRUE)
      BY TrimAssumption DEF TrimAssumption
    <2>3. DiffEvent(LastRead(v), v.obj, MaskedKeys(w.key), MaskedPaths(w.key), TRUE, TRUE) =
            DiffEvent(TrimKindApiversion(LastRead(v)), TrimKindApiversion(v.obj),
                      MaskedKeys(w.key), MaskedPaths(w.key), FALSE, TRUE)
      BY <2>1, <2>2, Zenon
    <2>4. n.prev = TrimKindApiversion(LastRead(v)) /\ n.cur = TrimKindApiversion(v.obj)
      BY <1>1
    <2> HIDE DEF n
    <2> QED
      BY <2>3, <2>4
  <1>5. /\ def.key = w.key /\ def.when = "afterControllerWrite" /\ def.by = w.reconcile_fun
        /\ w.etype = "Create" => def.cond = "onObjectCreate"
        /\ w.etype = "Delete" => def.cond = "onObjectDelete"
        /\ w.etype \in UpdateWrites =>
             def.cond = "onObjectUpdate" /\ def.anyUpdate = (WriteDiff(w) = NoDiff)
    BY WriteTriggerIs
  <1>6. w.etype \in UpdateWrites =>
          (<<n.prev, n.cur>> \in def.desired <=>
             DiffEvent(LastRead(v), v.obj, MaskedKeys(w.key), MaskedPaths(w.key), TRUE, TRUE)
               = WriteDiff(w))
    <2>1. w.etype \in UpdateWrites =>
            \A prev, cur \in States :
              <<prev, cur>> \in def.desired <=>
                DiffEvent(prev, cur, MaskedKeys(w.key), MaskedPaths(w.key), FALSE, TRUE)
                  = WriteDiff(w)
      BY WriteTriggerIs
    <2> HIDE DEF def, n
    <2> QED
      BY <1>2, <1>4, <2>1
  <1>7. w.etype \in UpdateWrites => WriteDiff(w) # NoDiff
    BY DEF detectable_write, EmptyWrite
  <1>8. /\ "Create" \notin UpdateWrites /\ "Delete" \notin UpdateWrites
    BY DEF UpdateWrites, StatusWrites
  <1> HIDE DEF n, p, def
  <1>9. CASE w.etype = "Create"
    BY <1>1, <1>3, <1>5, <1>8, <1>9
       DEF TP!Counts, TP!Observes, TP!OpOf, TP!IsDiffed, n, p, def
  <1>10. CASE w.etype = "Delete"
    BY <1>1, <1>3, <1>5, <1>8, <1>10
       DEF TP!Counts, TP!Observes, TP!OpOf, TP!IsDiffed, n, p, def
  <1>11. CASE w.etype \in UpdateWrites
    BY <1>1, <1>3, <1>5, <1>6, <1>7, <1>8, <1>11
       DEF TP!Counts, TP!Observes, TP!OpOf, TP!IsDiffed, n, p, def
  <1> QED
    BY <1>3, <1>9, <1>10, <1>11

\* The writes that one side counts and the other does not.
LEMMA CountsDiffer ==
    ASSUME TypeOK, StartsInv, WritesInv, WriteOrder,
           NEW w \in controller_writes, detectable_write(w), NEW v \in controller_writes
    PROVE  LET A == CountedByAnalyzer(w)
               C == CountedByCoordinator(
                      generate_intermediate_state_test_plan_for_controller_write(w))
           IN  /\ v \in A /\ (v.error # "NoError" \/ v.reconcile_fun # w.reconcile_fun)
                    => v \notin C
               /\ v \in A /\ v \notin C
                    => \/ v.error # "NoError" \/ v.reconcile_fun # w.reconcile_fun
                       \/ OtherStateKnown(v)
               /\ v \in C /\ v \notin A
                    => \/ v.etype # w.etype /\ {v.etype, w.etype} \subseteq UpdateWrites
                       \/ OtherStateKnown(v)
  <1> DEFINE p   == generate_intermediate_state_test_plan_for_controller_write(w)
             def == p.actions[1].triggers[1]
             counts == TP!Counts(def, WriteNote(v))
             known == DiffEvent(LastRead(v), v.obj, MaskedKeys(w.key), MaskedPaths(w.key),
                                TRUE, TRUE)
  <1>1. p.source = w
    BY WriteTriggerIs
  <1>2. counts <=> /\ v.key = w.key /\ v.reconcile_fun = w.reconcile_fun
                   /\ \/ v.etype = w.etype /\ w.etype \notin UpdateWrites
                      \/ /\ v.etype \in UpdateWrites /\ w.etype \in UpdateWrites
                         /\ known = WriteDiff(w)
    BY WriteCounted
  <1>3. v \in CountedByCoordinator(p) <=> v.error = "NoError" /\ v.end <= w.end /\ counts
    BY <1>1 DEF CountedByCoordinator, Reported
  <1>4. v \in CountedByAnalyzer(w) <=>
          /\ v.key = w.key /\ v.start <= w.start /\ v.etype = w.etype
          /\ w.etype \in UpdateWrites => WriteDiff(v) = WriteDiff(w)
    BY SameWriteSignature DEF CountedByAnalyzer
  <1>5. v.reconcile_fun = w.reconcile_fun => (v.end <= w.end <=> v.start <= w.start)
    BY SameOrder
  <1>6. v.key = w.key /\ LastRead(v) = WritePrevObj(v) => known = WriteDiff(v)
    BY DEF WriteDiff
  <1> HIDE DEF p, counts, known
  <1>7. OtherStateKnown(v) <=> v.etype \in UpdateWrites /\ LastRead(v) # WritePrevObj(v)
    BY DEF OtherStateKnown
  <1>8. ASSUME v \in CountedByAnalyzer(w),
               v.error # "NoError" \/ v.reconcile_fun # w.reconcile_fun
        PROVE  v \notin CountedByCoordinator(p)
    BY <1>2, <1>3, <1>8
  <1>9. ASSUME v \in CountedByAnalyzer(w), v \notin CountedByCoordinator(p),
               v.error = "NoError", v.reconcile_fun = w.reconcile_fun
        PROVE  OtherStateKnown(v)
    BY <1>2, <1>3, <1>4, <1>5, <1>6, <1>7, <1>9
  <1>10. ASSUME v \in CountedByCoordinator(p), v \notin CountedByAnalyzer(w),
                ~OtherStateKnown(v)
         PROVE  v.etype # w.etype /\ {v.etype, w.etype} \subseteq UpdateWrites
    BY <1>2, <1>3, <1>4, <1>5, <1>6, <1>7, <1>10
  <1> QED
    BY <1>8, <1>9, <1>10 DEF p

\* The restartController action is triggered by the write it was made from exactly if
\* the coordinator counts that write, and as many as the analyzer.
LEMMA RestartedAtSource ==
    ASSUME TypeOK, StartsInv, WritesInv, WriteOrder, EventsFinite,
           NEW w \in controller_writes, detectable_write(w)
    PROVE  LET p == generate_intermediate_state_test_plan_for_controller_write(w)
           IN  RestartsAtSource(p) <=>
                 /\ w \in CountedByCoordinator(p)
                 /\ Cardinality(CountedByCoordinator(p)) = Cardinality(CountedByAnalyzer(w))
  <1> DEFINE p    == generate_intermediate_state_test_plan_for_controller_write(w)
             def  == p.actions[1].triggers[1]
             note == [v \in Reported |-> WriteNote(v)]
             pos  == [v \in Reported |-> v.end]
             C    == {v \in Reported : TP!Counts(def, note[v]) /\ pos[v] <= pos[w]}
             before == {v \in Reported : pos[v] < pos[w] /\ TP!Counts(def, note[v])}
  <1>1. p.source = w
    BY WriteTriggerIs
  <1>2. def.occurrence = Cardinality(CountedByAnalyzer(w))
    BY WriteTriggerIs DEF WriteCounter, CountedByAnalyzer
  <1>3. def.cond # "onTimeout" /\ ~(TP!IsDiffed(def) /\ def.anyUpdate)
    <2>1. w.etype \in {"Create", "Delete"} \cup UpdateWrites
      BY WriteTyped DEF WriteTypes, UpdateWrites, StatusWrites
    <2>2. w.etype \in UpdateWrites => WriteDiff(w) # NoDiff
      BY DEF detectable_write, EmptyWrite
    <2>3. /\ w.etype = "Create" => def.cond = "onObjectCreate"
          /\ w.etype = "Delete" => def.cond = "onObjectDelete"
          /\ w.etype \in UpdateWrites =>
               def.cond = "onObjectUpdate" /\ def.anyUpdate = (WriteDiff(w) = NoDiff)
      BY WriteTriggerIs
    <2> HIDE DEF def
    <2> QED
      BY <2>1, <2>2, <2>3 DEF TP!IsDiffed
  <1>4. \A v \in controller_writes : v.start \in Nat /\ v.end \in Nat
    BY WriteTyped
  <1>5. Reported \subseteq controller_writes
    BY DEF Reported
  <1>6. \A v \in Reported : note[v] = WriteNote(v) /\ pos[v] = v.end
    OBVIOUS
  <1>7. pos \in [Reported -> Nat]
    BY <1>4, <1>5
  <1>8. RestartsAtSource(p) <=> FiresAt(def, Reported, note, pos, w)
    BY <1>1 DEF RestartsAtSource
  <1>9. IsFiniteSet(CountedByCoordinator(p))
    BY <1>5, FS_Subset DEF EventsFinite, CountedByCoordinator
  <1>10. ASSUME NEW v \in Reported, TP!Counts(def, WriteNote(v))
         PROVE  v.reconcile_fun = w.reconcile_fun
    BY <1>5, <1>10, WriteCounted
  <1>11. w \in Reported => C = CountedByCoordinator(p)
    BY <1>1, <1>6 DEF CountedByCoordinator
  <1>12. ASSUME w \in Reported, NEW v \in C, pos[v] = pos[w] PROVE v = w
    <2>1. v \in controller_writes /\ v.end = w.end /\ v.reconcile_fun = w.reconcile_fun
      BY <1>5, <1>6, <1>10, <1>12
    <2>2. v.start <= w.start /\ w.start <= v.start
      BY <1>4, <2>1, SameOrder
    <2>3. v.start = w.start
      BY <1>4, <2>1, <2>2
    <2> QED
      BY <2>1, <2>3 DEF StartsInv
  <1> HIDE DEF def, note, pos, p
  <1>13. ASSUME w \in CountedByCoordinator(p),
                Cardinality(CountedByCoordinator(p)) = Cardinality(CountedByAnalyzer(w))
         PROVE  FiresAt(def, Reported, note, pos, w)
    <2>1. w \in Reported
      BY <1>13 DEF CountedByCoordinator
    <2>2. C = CountedByCoordinator(p) /\ \A v \in C : pos[v] = pos[w] => v = w
      BY <1>11, <1>12, <2>1
    <2> QED
      BY <1>2, <1>3, <1>7, <1>9, <1>13, <2>1, <2>2, FiresOnce
  <1>14. ASSUME FiresAt(def, Reported, note, pos, w)
         PROVE  /\ w \in CountedByCoordinator(p)
                /\ Cardinality(CountedByCoordinator(p)) = Cardinality(CountedByAnalyzer(w))
    <2>1. /\ w \in Reported
          /\ TP!Satisfies("trigger", def, Cardinality(before), note[w])
      BY <1>14 DEF FiresAt
    <2>2. TP!Counts(def, note[w]) /\ Cardinality(before) + 1 = def.occurrence
      <3> HIDE DEF before
      <3> QED
        BY <1>3, <2>1 DEF TP!Satisfies
    <2>3. pos[w] \in Nat
      BY <1>7, <2>1
    <2>4. w \in C
      BY <2>1, <2>2, <2>3
    <2>5. before = C \ {w}
      <3>1. ASSUME NEW v \in before PROVE v \in C /\ v # w
        BY <1>7, <2>1
      <3>2. ASSUME NEW v \in C, v # w PROVE v \in before
        <4>1. pos[v] # pos[w] /\ pos[v] \in Nat
          BY <1>7, <1>12, <2>1, <3>2
        <4> QED
          BY <2>3, <3>2, <4>1
      <3> QED
        BY <3>1, <3>2
    <2>6. C = CountedByCoordinator(p) /\ IsFiniteSet(C)
      BY <1>9, <1>11, <2>1
    <2> HIDE DEF before, C
    <2>7. Cardinality(before) = Cardinality(C) - 1 /\ Cardinality(C) \in Nat
      BY <2>4, <2>5, <2>6, FS_RemoveElement, FS_CardinalityType
    <2> QED
      BY <1>2, <2>2, <2>4, <2>6, <2>7
  <1> QED
    BY <1>8, <1>13, <1>14 DEF p

\* For every learn run: the coordinator restarts the controller at the very write for
\* which the plan was made exactly if it counts as many writes up to it as the
\* analyzer did (signature_counter and satisfy), and the writes that only one of them
\* counts are failed ones, those of another reconciler or of another type of update,
\* and those whose object was last read in an earlier round.
THEOREM RestartCountIsExactEver == Spec => []RestartCountIsExact
  <1>1. Init => WriteOrder
    BY DEF Init, WriteOrder
  <1>2. TypeOK /\ SaneInv /\ WriteOrder /\ [Next]_vars => WriteOrder'
    BY WriteOrderInductive
  <1>3. TypeOK /\ SaneInv /\ WriteOrder /\ EventsFinite => RestartCountIsExact
    <2> SUFFICES ASSUME TypeOK, SaneInv, WriteOrder, EventsFinite,
                        NEW c \in Detected, NEW p \in PlansOf(intermediate_state_analysis(c)),
                        p.source \in controller_writes
                 PROVE  LET w == p.source
                            analyzer == CountedByAnalyzer(w)
                            coordinator == CountedByCoordinator(p)
                        IN  /\ RestartsAtSource(p) <=>
                                 /\ w \in coordinator
                                 /\ Cardinality(coordinator) = Cardinality(analyzer)
                            /\ \A v \in analyzer :
                                  /\ v.error # "NoError" \/ v.reconcile_fun # w.reconcile_fun
                                       => v \notin coordinator
                                  /\ v \notin coordinator
                                       => \/ v.error # "NoError"
                                          \/ v.reconcile_fun # w.reconcile_fun
                                          \/ OtherStateKnown(v)
                            /\ \A v \in coordinator \ analyzer :
                                  \/ /\ v.etype # w.etype
                                     /\ {v.etype, w.etype} \subseteq UpdateWrites
                                  \/ OtherStateKnown(v)
      BY DEF RestartCountIsExact
    <2>1. PICK w \in controller_writes :
            /\ detectable_write(w)
            /\ p = generate_intermediate_state_test_plan_for_controller_write(w)
      BY IntermediatePlans
    <2>2. p.source = w
      BY <2>1, WriteTriggerIs
    <2>3. /\ CountedByAnalyzer(w) \subseteq controller_writes
          /\ CountedByCoordinator(p) \subseteq controller_writes
      BY DEF CountedByAnalyzer, CountedByCoordinator, Reported
    <2>4. StartsInv /\ WritesInv
      BY DEF SaneInv
    <2>5. RestartsAtSource(p) <=>
            /\ w \in CountedByCoordinator(p)
            /\ Cardinality(CountedByCoordinator(p)) = Cardinality(CountedByAnalyzer(w))
      BY <2>1, <2>4, RestartedAtSource
    <2>6. ASSUME NEW v \in controller_writes
          PROVE  /\ v \in CountedByAnalyzer(w)
                      /\ (v.error # "NoError" \/ v.reconcile_fun # w.reconcile_fun)
                      => v \notin CountedByCoordinator(p)
                 /\ v \in CountedByAnalyzer(w) /\ v \notin CountedByCoordinator(p)
                      => \/ v.error # "NoError" \/ v.reconcile_fun # w.reconcile_fun
                         \/ OtherStateKnown(v)
                 /\ v \in CountedByCoordinator(p) /\ v \notin CountedByAnalyzer(w)
                      => \/ v.etype # w.etype /\ {v.etype, w.etype} \subseteq UpdateWrites
                         \/ OtherStateKnown(v)
      BY <2>1, <2>4, CountsDiffer
    <2> QED
      BY <2>2, <2>3, <2>5, <2>6
  <1> QED
    BY <1>1, <1>2, <1>3, Parsed, EventsAreFinite, PTL DEF Spec
-----------------------------------------------------------------------------
(* When to pause the API server (decide_stale_state_timing).                *)

\* What comes after position p of a list: the object of the key is created before a
\* round ends, or after one has ended and before the next does; a round ends, or two.
Ends(events, j) == events[j].kind = "end"
After(events, p) == (p + 1) .. Len(events)
CreatedFirst(events, key, p) ==
    \E j \in After(events, p) : /\ Creates(events[j], key)
                                /\ \A k \in (p + 1) .. (j - 1) : ~Ends(events, k)
CreatedSecond(events, key, p) ==
    \E j \in After(events, p) : \E k \in (p + 1) .. (j - 1) :
        /\ Creates(events[j], key) /\ Ends(events, k)
        /\ \A m \in (p + 1) .. (j - 1) : Ends(events, m) => m = k
OneEnds(events, p) == \E k \in After(events, p) : Ends(events, k)
TwoEnd(events, p) == \E k, m \in After(events, p) : k # m /\ Ends(events, k) /\ Ends(events, m)

\* What the walk returns from position p with n more ends of rounds to see.
Decided(events, sink, key, p, n) ==
    IF CreatedFirst(events, key, p) THEN IF n = 2 THEN "before" ELSE "both"
    ELSE IF n = 2 /\ CreatedSecond(events, key, p) THEN "both"
    ELSE IF (n = 1 /\ OneEnds(events, p)) \/ (n = 2 /\ TwoEnd(events, p)) THEN "after"
    ELSE IF sink = Len(events) THEN "after" ELSE "AssertionError"

\* At the end of the list nothing comes any more.
LEMMA NothingLeft ==
    ASSUME NEW events, Len(events) \in Nat, NEW key
    PROVE  LET p == Len(events)
           IN  /\ ~CreatedFirst(events, key, p) /\ ~CreatedSecond(events, key, p)
               /\ ~OneEnds(events, p) /\ ~TwoEnd(events, p)
  <1>1. After(events, Len(events)) = {}
    BY DEF After
  <1> QED
    BY <1>1 DEF CreatedFirst, CreatedSecond, OneEnds, TwoEnd

\* One position further: a round ends there.
LEMMA EndNext ==
    ASSUME NEW events, Len(events) \in Nat, NEW key, NEW p \in 1 .. Len(events),
           p # Len(events), Ends(events, p + 1)
    PROVE  /\ ~CreatedFirst(events, key, p)
           /\ CreatedSecond(events, key, p) <=> CreatedFirst(events, key, p + 1)
           /\ OneEnds(events, p)
           /\ TwoEnd(events, p) <=> OneEnds(events, p + 1)
  <1> DEFINE q == p + 1
             len == Len(events)
  <1>1. p \in Nat /\ len \in Nat /\ q \in Nat /\ q <= len /\ q = p + 1
    OBVIOUS
  <1>2. After(events, p) = q .. len /\ After(events, q) = (q + 1) .. len
    BY <1>1 DEF After
  <1>3. \A j \in q .. len : Creates(events[j], key) => j # q /\ j \in (q + 1) .. len
    BY <1>1 DEF Ends, Creates
  <1>4. \A j \in (q + 1) .. len : /\ q \in q .. (j - 1)
                                  /\ \A k \in q .. (j - 1) : k = q \/ k \in (q + 1) .. (j - 1)
                                  /\ (q + 1) .. (j - 1) \subseteq q .. (j - 1)
                                  /\ q \notin (q + 1) .. (j - 1)
    BY <1>1
  <1>5. \A j \in q .. len : j = q \/ j \in (q + 1) .. len
    BY <1>1
  <1>6. (q + 1) .. len \subseteq q .. len /\ q \in q .. len /\ q \notin (q + 1) .. len
    BY <1>1
  <1>7. Ends(events, q)
    OBVIOUS
  <1> HIDE DEF q, len
  <1>8. ~CreatedFirst(events, key, p)
    BY <1>1, <1>2, <1>3, <1>4, <1>7 DEF CreatedFirst
  <1>9. ASSUME CreatedSecond(events, key, p) PROVE CreatedFirst(events, key, q)
    <2>1. PICK j \in q .. len : \E k \in q .. (j - 1) :
            /\ Creates(events[j], key) /\ Ends(events, k)
            /\ \A m \in q .. (j - 1) : Ends(events, m) => m = k
      BY <1>1, <1>2, <1>9 DEF CreatedSecond
    <2>2. j \in (q + 1) .. len
      BY <1>3, <2>1
    <2>3. \A m \in q .. (j - 1) : Ends(events, m) => m = q
      BY <1>4, <1>7, <2>1, <2>2
    <2>4. \A m \in (q + 1) .. (j - 1) : ~Ends(events, m)
      BY <1>4, <2>2, <2>3
    <2> QED
      BY <1>2, <2>1, <2>2, <2>4 DEF CreatedFirst
  <1>10. ASSUME CreatedFirst(events, key, q) PROVE CreatedSecond(events, key, p)
    <2>1. PICK j \in (q + 1) .. len : /\ Creates(events[j], key)
                                      /\ \A k \in (q + 1) .. (j - 1) : ~Ends(events, k)
      BY <1>2, <1>10 DEF CreatedFirst
    <2>2. \A m \in q .. (j - 1) : Ends(events, m) => m = q
      BY <1>4, <2>1
    <2>3. j \in q .. len /\ q \in q .. (j - 1)
      BY <1>4, <1>6, <2>1
    <2> QED
      BY <1>1, <1>2, <1>7, <2>1, <2>2, <2>3 DEF CreatedSecond
  <1>11. OneEnds(events, p)
    BY <1>2, <1>6, <1>7 DEF OneEnds
  <1>12. TwoEnd(events, p) <=> OneEnds(events, q)
    BY <1>2, <1>5, <1>6, <1>7 DEF TwoEnd, OneEnds
  <1> QED
    BY <1>8, <1>9, <1>10, <1>11, <1>12 DEF q

\* The object is created there.
LEMMA CreationNext ==
    ASSUME NEW events, Len(events) \in Nat, NEW key, NEW p \in 1 .. Len(events),
           p # Len(events), Creates(events[p + 1], key)
    PROVE  CreatedFirst(events, key, p)
  <1>1. p + 1 \in After(events, p) /\ (p + 1) .. ((p + 1) - 1) = {}
    BY DEF After
  <1> QED
    BY <1>1 DEF CreatedFirst

\* Neither.
LEMMA OtherNext ==
    ASSUME NEW events, Len(events) \in Nat, NEW key, NEW p \in 1 .. Len(events),
           p # Len(events), ~Ends(events, p + 1), ~Creates(events[p + 1], key)
    PROVE  /\ CreatedFirst(events, key, p) <=> CreatedFirst(events, key, p + 1)
           /\ CreatedSecond(events, key, p) <=> CreatedSecond(events, key, p + 1)
           /\ OneEnds(events, p) <=> OneEnds(events, p + 1)
           /\ TwoEnd(events, p) <=> TwoEnd(events, p + 1)
  <1> DEFINE q == p + 1
             len == Len(events)
  <1>1. p \in Nat /\ len \in Nat /\ q \in Nat /\ q <= len /\ q = p + 1
    OBVIOUS
  <1>2. After(events, p) = q .. len /\ After(events, q) = (q + 1) .. len
    BY <1>1 DEF After
  <1>3. \A j \in (q + 1) .. len : /\ \A k \in q .. (j - 1) : k = q \/ k \in (q + 1) .. (j - 1)
                                  /\ (q + 1) .. (j - 1) \subseteq q .. (j - 1)
    BY <1>1
  <1>4. /\ \A j \in q .. len : j = q \/ j \in (q + 1) .. len
        /\ (q + 1) .. len \subseteq q .. len
    BY <1>1
  <1>5. ~Ends(events, q) /\ ~Creates(events[q], key)
    OBVIOUS
  <1> HIDE DEF q, len
  <1>6. CreatedFirst(events, key, p) <=>
          \E j \in (q + 1) .. len : /\ Creates(events[j], key)
                                    /\ \A k \in (q + 1) .. (j - 1) : ~Ends(events, k)
    BY <1>1, <1>2, <1>3, <1>4, <1>5 DEF CreatedFirst
  <1>7. CreatedSecond(events, key, p) <=>
          \E j \in (q + 1) .. len : \E k \in (q + 1) .. (j - 1) :
             /\ Creates(events[j], key) /\ Ends(events, k)
             /\ \A m \in (q + 1) .. (j - 1) : Ends(events, m) => m = k
    <2>1. CreatedSecond(events, key, p) <=>
            \E j \in q .. len : \E k \in q .. (j - 1) :
               /\ Creates(events[j], key) /\ Ends(events, k)
               /\ \A m \in q .. (j - 1) : Ends(events, m) => m = k
      BY <1>1, <1>2 DEF CreatedSecond
    <2> QED
      BY <1>3, <1>4, <1>5, <2>1
  <1>8. OneEnds(events, p) <=> OneEnds(events, q)
    BY <1>2, <1>4, <1>5 DEF OneEnds
  <1>9. TwoEnd(events, p) <=> TwoEnd(events, q)
    BY <1>2, <1>4, <1>5 DEF TwoEnd
  <1> QED
    BY <1>2, <1>6, <1>7, <1>8, <1>9 DEF q, CreatedFirst, CreatedSecond

\* The loop of decide_stale_state_timing, one position after the other, decides by what
\* comes after the deletion.
LEMMA WalkDecides ==
    ASSUME NEW events, Len(events) \in Nat, NEW sink \in 1 .. Len(events), NEW key
    PROVE  WalkFrom(events, sink, key, 2) = Decided(events, sink, key, sink, 2)
  <1> DEFINE len == Len(events)
             P == 1 .. len
             step(f, p, n) ==
               IF p = len THEN IF sink = len THEN "after" ELSE "AssertionError"
               ELSE IF events[p + 1].kind = "end"
                    THEN IF n = 1 THEN "after" ELSE f[p + 1][n - 1]
               ELSE IF Creates(events[p + 1], key)
                    THEN IF n = 2 THEN "before" ELSE "both"
               ELSE f[p + 1][n]
             G == [p \in P |-> [n \in 1 .. 2 |-> Decided(events, sink, key, p, n)]]
             W == CHOOSE f : f = [p \in P |-> [n \in 1 .. 2 |-> step(f, p, n)]]
  <1>1. ASSUME NEW p \in P, NEW n \in 1 .. 2
        PROVE  Decided(events, sink, key, p, n) = step(G, p, n)
    <2>1. CASE p = len
      BY <2>1, NothingLeft DEF Decided
    <2>2. CASE p # len
      <3>1. p + 1 \in P /\ n \in {1, 2} /\ (n = 2 => n - 1 \in 1 .. 2 /\ n - 1 = 1)
        BY <2>2
      <3>2. \A m \in 1 .. 2 : G[p + 1][m] = Decided(events, sink, key, p + 1, m)
        BY <3>1
      <3> HIDE DEF G
      <3>3. CASE Ends(events, p + 1)
        <4>1. /\ ~CreatedFirst(events, key, p)
              /\ CreatedSecond(events, key, p) <=> CreatedFirst(events, key, p + 1)
              /\ OneEnds(events, p)
              /\ TwoEnd(events, p) <=> OneEnds(events, p + 1)
          BY <2>2, <3>3, EndNext
        <4>2. step(G, p, n) = IF n = 1 THEN "after" ELSE Decided(events, sink, key, p + 1, 1)
          BY <2>2, <3>1, <3>2, <3>3 DEF Ends
        <4> HIDE DEF step
        <4> QED
          BY <3>1, <4>1, <4>2 DEF Decided
      <3>4. CASE ~Ends(events, p + 1) /\ Creates(events[p + 1], key)
        <4>1. CreatedFirst(events, key, p)
          BY <2>2, <3>4, CreationNext
        <4>2. step(G, p, n) = IF n = 2 THEN "before" ELSE "both"
          BY <2>2, <3>4 DEF Ends
        <4> HIDE DEF step
        <4> QED
          BY <3>1, <4>1, <4>2 DEF Decided
      <3>5. CASE ~Ends(events, p + 1) /\ ~Creates(events[p + 1], key)
        <4>1. /\ CreatedFirst(events, key, p) <=> CreatedFirst(events, key, p + 1)
              /\ CreatedSecond(events, key, p) <=> CreatedSecond(events, key, p + 1)
              /\ OneEnds(events, p) <=> OneEnds(events, p + 1)
              /\ TwoEnd(events, p) <=> TwoEnd(events, p + 1)
          BY <2>2, <3>5, OtherNext
        <4>2. step(G, p, n) = Decided(events, sink, key, p + 1, n)
          BY <2>2, <3>2, <3>5 DEF Ends
        <4> HIDE DEF step
        <4> QED
          BY <4>1, <4>2 DEF Decided
      <3> QED
        BY <3>3, <3>4, <3>5
    <2> QED
      BY <2>1, <2>2
  <1>2. G = [p \in P |-> [n \in 1 .. 2 |-> step(G, p, n)]]
    <2> HIDE DEF step
    <2> QED
      BY <1>1
  <1>3. W = [p \in P |-> [n \in 1 .. 2 |-> step(W, p, n)]]
    <2> DEFINE Q(f) == f = [p \in P |-> [n \in 1 .. 2 |-> step(f, p, n)]]
    <2>1. Q(G)
      BY <1>2
    <2> HIDE DEF Q
    <2>2. Q(CHOOSE f : Q(f))
      BY <2>1
    <2> QED
      BY <2>2 DEF Q
  <1>4. WalkFrom(events, sink, key, 2) = W[sink][2]
    BY DEF WalkFrom
  <1> HIDE DEF W
  <1>5. ASSUME NEW p \in P, NEW n \in 1 .. 2 PROVE W[p][n] = step(W, p, n)
    <2> HIDE DEF step
    <2> DEFINE F == [p_1 \in P |-> [n_1 \in 1 .. 2 |-> step(W, p_1, n_1)]]
    <2>1. W = F
      BY <1>3
    <2>2. F[p][n] = step(W, p, n)
      OBVIOUS
    <2> HIDE DEF F
    <2> QED
      BY <2>1, <2>2
  <1>6. ASSUME NEW p \in P, NEW n \in 1 .. 2 PROVE G[p][n] = step(G, p, n)
    <2> HIDE DEF step
    <2> QED
      BY <1>1
  <1> DEFINE Bad == {p \in P : \E n \in 1 .. 2 : W[p][n] # G[p][n]}
  <1>7. Bad = {}
    <2>1. SUFFICES ASSUME Bad # {} PROVE FALSE
      OBVIOUS
    <2>2. Bad \subseteq Nat /\ len \in Nat /\ \A x \in Bad : x <= len
      OBVIOUS
    <2>3. PICK p \in Bad : \A x \in Bad : x <= p
      <3> HIDE DEF Bad
      <3> QED
        BY <2>1, <2>2, HasLargest
    <2>4. PICK n \in 1 .. 2 : W[p][n] # G[p][n]
      BY <2>3
    <2>5. p # len => p + 1 \in P /\ \A m \in 1 .. 2 : W[p + 1][m] = G[p + 1][m]
      <3>1. p \in P /\ p + 1 \notin Bad
        BY <2>3
      <3> QED
        BY <3>1
    <2>6. step(W, p, n) = step(G, p, n)
      <3>1. n = 1 \/ (n - 1 \in 1 .. 2)
        OBVIOUS
      <3> HIDE DEF G, Bad
      <3> QED
        BY <2>5, <3>1
    <2>7. p \in P
      OBVIOUS
    <2> HIDE DEF step, G
    <2> QED
      BY <1>5, <1>6, <2>4, <2>6, <2>7
  <1>8. W[sink][2] = G[sink][2]
    <2>1. sink \in P /\ 2 \in 1 .. 2
      OBVIOUS
    <2> HIDE DEF P, G
    <2> QED
      BY <1>7, <2>1
  <1>9. G[sink][2] = Decided(events, sink, key, sink, 2)
    OBVIOUS
  <1> QED
    BY <1>4, <1>8, <1>9

\* The times at which a plan pauses the API server.
TimesOf(t) == IF t = "both" THEN {"after", "before"} ELSE {t}

\* A finite set with none, one, or more than one element.
LEMMA FewElements ==
    ASSUME NEW S, IsFiniteSet(S)
    PROVE  /\ Cardinality(S) = 0 <=> \A x \in S : FALSE
           /\ Cardinality(S) = 1 <=> \E x \in S : \A y \in S : y = x
           /\ Cardinality(S) >= 2 <=> \E x, y \in S : x # y
  <1>1. Cardinality(S) \in Nat
    BY FS_CardinalityType
  <1>2. Cardinality(S) = 0 <=> S = {}
    BY FS_EmptySet
  <1>3. Cardinality(S) = 1 <=> \E x : S = {x}
    BY FS_Singleton
  <1>4. (\E x : S = {x}) <=> \E x \in S : \A y \in S : y = x
    OBVIOUS
  <1>5. S = {} <=> \A x \in S : FALSE
    OBVIOUS
  <1>6. Cardinality(S) >= 2 <=> Cardinality(S) # 0 /\ Cardinality(S) # 1
    BY <1>1
  <1>7. (\E x, y \in S : x # y) <=> S # {} /\ ~(\E x \in S : \A y \in S : y = x)
    OBVIOUS
  <1> QED
    BY <1>2, <1>3, <1>4, <1>5, <1>6, <1>7

\* decide_stale_state_timing decides as the reference does, for every list of events in
\* which the deletion is.
LEMMA TimingDecided ==
    ASSUME NEW events, Len(events) \in Nat, DOMAIN events = 1 .. Len(events),
           NEW w, NEW i, Position(events, w) \in DOMAIN events
    PROVE  LET t == decide_stale_state_timing(i, w, events)
               T == Timings(HearDiff(i), w, events)
           IN  /\ t = "AssertionError" <=> T = {}
               /\ t # "AssertionError" => TimesOf(t) = T
  <1> DEFINE sink == Position(events, w)
             d == HearDiff(i)
             t == decide_stale_state_timing(i, w, events)
             T == Timings(d, w, events)
             len == Len(events)
             later(kind) == {j \in DOMAIN events : j > sink /\ events[j].kind = kind}
             upto(j) == {k \in later("end") : k < j}
             ends(j) == Cardinality(upto(j))
             creations(n) == {j \in later("write") : /\ events[j].etype = "Create"
                                                     /\ events[j].key = w.key /\ ends(j) = n}
  <1>1. CASE ~SameFields(d)
    <2>1. t = "after"
      BY <1>1 DEF decide_stale_state_timing
    <2>2. T = {"after"}
      BY <1>1 DEF Timings
    <2> QED
      BY <2>1, <2>2 DEF TimesOf
  <1>2. CASE SameFields(d)
    <2>1. sink \in 1 .. len /\ len \in Nat /\ sink \in Nat
      OBVIOUS
    <2>2. t = Decided(events, sink, w.key, sink, 2)
      BY <1>2, <2>1, WalkDecides DEF decide_stale_state_timing
    <2>3. T = IF creations(0) # {} THEN {"before"}
              ELSE IF creations(1) # {} THEN {"before", "after"}
              ELSE IF Cardinality(later("end")) >= 2 \/ sink = len THEN {"after"}
              ELSE {}
      BY <1>2 DEF Timings
    <2> HIDE DEF sink, T, t, d
    <2>4. IsFiniteSet(1 .. len)
      BY <2>1, FS_Interval
    <2>5. /\ IsFiniteSet(later("end"))
          /\ \A j \in 1 .. len : IsFiniteSet(upto(j))
      BY <2>4, FS_Subset
    <2>6. \A j \in 1 .. len : j > sink <=> j \in After(events, sink)
      BY <2>1 DEF After
    <2>7. After(events, sink) \subseteq 1 .. len
      BY <2>1 DEF After
    <2>8. ASSUME NEW j \in After(events, sink), NEW k
          PROVE  k \in upto(j) <=> k \in (sink + 1) .. (j - 1) /\ Ends(events, k)
      BY <2>1, <2>7 DEF Ends, After
    <2>9. ASSUME NEW n, NEW j
          PROVE  j \in creations(n) <=>
                   j \in After(events, sink) /\ Creates(events[j], w.key) /\ ends(j) = n
      BY <2>6, <2>7 DEF Creates
    <2>10. ASSUME NEW k
           PROVE  k \in later("end") <=> k \in After(events, sink) /\ Ends(events, k)
      BY <2>6, <2>7 DEF Ends
    <2> HIDE DEF later, upto, creations
    <2>11. ASSUME NEW j \in After(events, sink)
           PROVE  /\ ends(j) = 0 <=> \A k \in (sink + 1) .. (j - 1) : ~Ends(events, k)
                  /\ ends(j) = 1 <=> \E k \in (sink + 1) .. (j - 1) :
                       /\ Ends(events, k)
                       /\ \A m \in (sink + 1) .. (j - 1) : Ends(events, m) => m = k
      <3>1. IsFiniteSet(upto(j))
        BY <2>5, <2>7
      <3>2. /\ ends(j) = 0 <=> \A x \in upto(j) : FALSE
            /\ ends(j) = 1 <=> \E x \in upto(j) : \A y \in upto(j) : y = x
        BY <3>1, FewElements
      <3> HIDE DEF ends
      <3> QED
        BY <2>8, <3>2
    <2> HIDE DEF ends
    <2>12. creations(0) # {} <=> CreatedFirst(events, w.key, sink)
      BY <2>9, <2>11 DEF CreatedFirst
    <2>13. creations(1) # {} <=> CreatedSecond(events, w.key, sink)
      BY <2>9, <2>11 DEF CreatedSecond
    <2>14. Cardinality(later("end")) >= 2 <=> TwoEnd(events, sink)
      <3>1. Cardinality(later("end")) >= 2 <=> \E x, y \in later("end") : x # y
        BY <2>5, FewElements
      <3> QED
        BY <2>10, <3>1 DEF TwoEnd
    <2> QED
      BY <2>2, <2>3, <2>12, <2>13, <2>14 DEF Decided, TimesOf, t, T, d
  <1> QED
    BY <1>1, <1>2
-----------------------------------------------------------------------------
\* The image of a finite set is finite.
LEMMA FiniteImage ==
    ASSUME NEW S, IsFiniteSet(S), NEW f
    PROVE  IsFiniteSet({f[x] : x \in S})
  <1> DEFINE T == {f[x] : x \in S}
             g == [x \in S |-> f[x]]
  <1>1. g \in Surjection(S, T)
    BY DEF Surjection
  <1> HIDE DEF g, T
  <1>2. IsFiniteSet(T)
    BY <1>1, FS_Surjection
  <1> QED
    BY <1>2 DEF T

\* So there are finitely many to be put into a list.
LEMMA ReconcilerEventsFinite ==
    ASSUME EventsFinite
    PROVE  IsFiniteSet(ReconcilerEvents)
  <1> DEFINE a == [w \in controller_writes |->
                     [kind |-> "write", ts |-> w.start, etype |-> w.etype, key |-> w.key]]
             b == [w \in controller_non_k8s_writes |-> [kind |-> "call", ts |-> w.start]]
             c == [r \in controller_reads |-> [kind |-> "read", ts |-> r.end]]
             d == [r \in reconcile_begins |-> [kind |-> "begin", ts |-> r.end]]
             e == [r \in reconcile_ends |-> [kind |-> "end", ts |-> r.end]]
             A == {a[x] : x \in controller_writes}
             B == {b[x] : x \in controller_non_k8s_writes}
             C == {c[x] : x \in controller_reads}
             D == {d[x] : x \in reconcile_begins}
             E == {e[x] : x \in reconcile_ends}
  <1>1. ReconcilerEvents = A \cup B \cup C \cup D \cup E
    BY DEF ReconcilerEvents
  <1> HIDE DEF a, b, c, d, e
  <1>2. /\ IsFiniteSet(A) /\ IsFiniteSet(B) /\ IsFiniteSet(C) /\ IsFiniteSet(D)
        /\ IsFiniteSet(E)
    BY FiniteImage DEF EventsFinite
  <1> HIDE DEF A, B, C, D, E
  <1>3. IsFiniteSet(A \cup B)
    BY <1>2, FS_Union
  <1>4. IsFiniteSet((A \cup B) \cup C)
    BY <1>2, <1>3, FS_Union
  <1>5. IsFiniteSet(((A \cup B) \cup C) \cup D)
    BY <1>2, <1>4, FS_Union
  <1> QED
    BY <1>1, <1>2, <1>5, FS_Union

\* Every event of the reconcilers is at its place in the list.
LEMMA EventsListed ==
    ASSUME TypeOK, EventsFinite
    PROVE  LET list == reconciler_event_list
           IN  /\ Len(list) \in Nat /\ DOMAIN list = 1 .. Len(list)
               /\ \A e \in ReconcilerEvents : \E p \in DOMAIN list : list[p].ts = e.ts
  <1> DEFINE S == ReconcilerEvents
             N == Cardinality(S)
             before(e) == {d \in S : d.ts < e.ts}
             at(n) == CHOOSE e \in S : Cardinality(before(e)) = n - 1
             list == [n \in 1 .. N |-> at(n)]
  <1>1. reconciler_event_list = list
    BY DEF reconciler_event_list
  <1>2. IsFiniteSet(S) /\ N \in Nat
    BY ReconcilerEventsFinite, FS_CardinalityType
  <1>3. \A e \in S : e.ts \in Nat
    BY DEF ReconcilerEvents, TypeOK, ControllerWrite, ControllerNonK8sWrite, ControllerRead,
         Reconcile
  <1> HIDE DEF S
  <1>4. DOMAIN list = 1 .. N /\ Len(list) = N
    <2> HIDE DEF at
    <2>1. list \in Seq({at(n) : n \in 1 .. N})
      BY <1>2
    <2>2. DOMAIN list = 1 .. N
      OBVIOUS
    <2> HIDE DEF list
    <2>3. DOMAIN list = 1 .. Len(list) /\ Len(list) \in Nat
      BY <2>1
    <2> HIDE DEF N
    <2> QED
      BY <1>2, <2>2, <2>3
  <1>5. ASSUME NEW e \in S PROVE \E p \in 1 .. N : list[p].ts = e.ts
    <2> DEFINE rank == Cardinality(before(e))
    <2>1. rank \in Nat /\ rank < N
      <3>1. before(e) \subseteq S /\ e \notin before(e)
        BY <1>3
      <3> HIDE DEF before
      <3> QED
        BY <1>2, <3>1, SmallerSet
    <2>2. rank + 1 \in 1 .. N /\ (rank + 1) - 1 = rank
      <3> HIDE DEF rank, N
      <3> QED
        BY <1>2, <2>1
    <2> DEFINE f == CHOOSE g \in S : Cardinality(before(g)) = rank
    <2>3. list[rank + 1] = f
      <3>1. list[rank + 1] = at(rank + 1)
        BY <2>2
      <3> QED
        BY <2>2, <3>1
    <2>4. f \in S /\ Cardinality(before(f)) = rank
      <3> HIDE DEF before
      <3> QED
        OBVIOUS
    <2> HIDE DEF f
    <2>5. ASSUME NEW x \in S, NEW y \in S, x.ts < y.ts
          PROVE  Cardinality(before(x)) # Cardinality(before(y))
      <3>1. before(x) \subseteq before(y) /\ x \in before(y) /\ x \notin before(x)
        BY <1>3, <2>5
      <3>2. IsFiniteSet(before(y))
        BY <1>2, FS_Subset
      <3> HIDE DEF before
      <3>3. /\ Cardinality(before(x)) \in Nat /\ Cardinality(before(y)) \in Nat
            /\ Cardinality(before(x)) < Cardinality(before(y))
        BY <3>1, <3>2, SmallerSet
      <3> QED
        BY <3>3
    <2>6. f.ts \in Nat /\ e.ts \in Nat /\ ~(f.ts < e.ts) /\ ~(e.ts < f.ts)
      <3> HIDE DEF before
      <3> QED
        BY <1>3, <2>4, <2>5
    <2>7. f.ts = e.ts
      BY <2>6
    <2> QED
      BY <2>2, <2>3, <2>7
  <1> HIDE DEF list, N
  <1> QED
    BY <1>1, <1>2, <1>4, <1>5 DEF S

\* The fields of a plan for a stale state.
LEMMA StalePlanIs ==
    ASSUME NEW i, NEW w, NEW t
    PROVE  LET q == generate_stale_state_test_plan(i, w, t)
           IN  q.source = i /\ q.sink = w /\ q.timing = t
  BY DEF generate_stale_state_test_plan

\* The plans of the decided pairs have their times, and each pair has its plans.
LEMMA PlansHaveTimes ==
    ASSUME NEW final, NEW decide,
           \A p \in final : p = <<p[1], p[2]>>,
           NEW x \in final
    PROVE  LET decided == {<<p[1], p[2], decide[p]>> : p \in final}
               plans == UNION {{generate_stale_state_test_plan(q[1], q[2], t) :
                                  t \in TimesOf(q[3])} : q \in decided}
           IN  {q.timing : q \in {q \in plans : q.source = x[1] /\ q.sink = x[2]}}
                 = TimesOf(decide[x])
  <1> DEFINE decided == {<<p[1], p[2], decide[p]>> : p \in final}
             plans == UNION {{generate_stale_state_test_plan(q[1], q[2], t) :
                                t \in TimesOf(q[3])} : q \in decided}
             mine == {q \in plans : q.source = x[1] /\ q.sink = x[2]}
  <1>1. ASSUME NEW q \in mine PROVE q.timing \in TimesOf(decide[x])
    <2>1. PICK e \in decided : \E t \in TimesOf(e[3]) :
            q = generate_stale_state_test_plan(e[1], e[2], t)
      OBVIOUS
    <2>2. PICK t \in TimesOf(e[3]) : q = generate_stale_state_test_plan(e[1], e[2], t)
      BY <2>1
    <2>3. PICK p \in final : e = <<p[1], p[2], decide[p]>>
      BY <2>1
    <2>4. q.source = p[1] /\ q.sink = p[2] /\ q.timing = t /\ e[3] = decide[p]
      BY <2>2, <2>3, StalePlanIs
    <2>5. p = x
      BY <2>4
    <2> QED
      BY <2>2, <2>4, <2>5
  <1>2. ASSUME NEW t \in TimesOf(decide[x]) PROVE \E q \in mine : q.timing = t
    <2> DEFINE e == <<x[1], x[2], decide[x]>>
               q == generate_stale_state_test_plan(x[1], x[2], t)
    <2>1. e \in decided /\ e[1] = x[1] /\ e[2] = x[2] /\ e[3] = decide[x]
      OBVIOUS
    <2>2. q \in plans
      <3>1. q \in {generate_stale_state_test_plan(e[1], e[2], s) : s \in TimesOf(e[3])}
        BY <2>1
      <3> HIDE DEF e, q, decided
      <3> QED
        BY <2>1, <3>1
    <2>3. q.source = x[1] /\ q.sink = x[2] /\ q.timing = t
      BY StalePlanIs
    <2> QED
      BY <2>2, <2>3
  <1> HIDE DEF mine
  <1>3. {q.timing : q \in mine} = TimesOf(decide[x])
    BY <1>1, <1>2
  <1> QED
    BY <1>3 DEF mine

\* The plans for stale states have the timings of the reference.
LEMMA StaleTimings ==
    ASSUME TypeOK, EventsFinite, NEW c \in Detected
    PROVE  HasTimings(stale_state_analysis(c),
                      {[source |-> p[1], sink |-> p[2],
                        timings |-> Timings(HearDiff(p[1]), p[2], reconciler_event_list)] :
                         p \in stale_state_detectable_pass(DeletionPairs)})
  <1> DEFINE L == reconciler_event_list
             final == stale_state_detectable_pass(DeletionPairs)
             detected == {p \in DeletionPairs : ~nondeterministic_key(p[2].key)}
             decide == [p \in final |-> decide_stale_state_timing(p[1], p[2], L)]
             tim(p) == Timings(HearDiff(p[1]), p[2], L)
             timings == {[source |-> p[1], sink |-> p[2], timings |-> tim(p)] : p \in final}
             decided == {<<p[1], p[2], decide[p]>> : p \in final}
             plans == UNION {{generate_stale_state_test_plan(q[1], q[2], t) :
                                t \in TimesOf(q[3])} : q \in decided}
             r == stale_state_analysis(c)
  <1>1. c.causality = FALSE /\ c.effective_updates = FALSE /\ c.nondeterministic = TRUE
    BY DEF Detected, PruningOptions
  <1>2. \E b, m, n : r = IF ValidationFails({p[1] : p \in detected}) THEN AssertionError
                         ELSE StaleStateResult(decided, b, m, n)
    <2>1. decided = {<<p[1], p[2], decide_stale_state_timing(p[1], p[2], L)>> : p \in final}
      OBVIOUS
    <2> HIDE DEF decided
    <2> QED
      BY <1>1, <2>1 DEF stale_state_analysis
  <1>3. \A b, m, n : \E k, l, o, s :
          StaleStateResult(decided, b, m, n) =
            IF \E q \in decided : q[3] = "AssertionError" THEN AssertionError
            ELSE Result(plans, k, l, o, s)
    <2> HIDE DEF decided
    <2> QED
      BY DEF StaleStateResult, TimesOf
  <1>4. \A p \in final : p = <<p[1], p[2]>> /\ p[2] \in controller_writes
    BY DEF stale_state_detectable_pass, DeletionPairs
  <1>5. ASSUME NEW p \in final
        PROVE  /\ decide[p] = "AssertionError" <=> tim(p) = {}
               /\ decide[p] # "AssertionError" => TimesOf(decide[p]) = tim(p)
    <2>1. /\ Len(L) \in Nat /\ DOMAIN L = 1 .. Len(L)
          /\ \A e \in ReconcilerEvents : \E n \in DOMAIN L : L[n].ts = e.ts
      BY EventsListed
    <2> DEFINE w == p[2]
               e == [kind |-> "write", ts |-> w.start, etype |-> w.etype, key |-> w.key]
    <2>2. e \in ReconcilerEvents /\ e.ts = w.start
      BY <1>4 DEF ReconcilerEvents
    <2> HIDE DEF e
    <2>3. \E n \in DOMAIN L : L[n].ts = w.start
      BY <2>1, <2>2
    <2> HIDE DEF L
    <2>4. Position(L, w) \in DOMAIN L
      BY <2>3 DEF Position
    <2>5. LET t == decide_stale_state_timing(p[1], w, L)
              T == Timings(HearDiff(p[1]), w, L)
          IN  /\ t = "AssertionError" <=> T = {}
              /\ t # "AssertionError" => TimesOf(t) = T
      BY <2>1, <2>4, TimingDecided
    <2> QED
      BY <2>5
  <1> HIDE DEF L, decide, tim, final
  <1>6. ASSUME ValidationFails({p[1] : p \in detected}) PROVE HasTimings(r, timings)
    <2>1. r = AssertionError
      BY <1>2, <1>6
    <2>2. ValidationFails({p[1] : p \in DeletionPairs})
      BY <1>6 DEF ValidationFails
    <2> HIDE DEF r
    <2> QED
      BY <2>1, <2>2 DEF HasTimings, AssertionError
  <1>7. ASSUME ~ValidationFails({p[1] : p \in detected}),
               NEW x \in final, decide[x] = "AssertionError"
        PROVE  HasTimings(r, timings)
    <2>1. \E q \in decided : q[3] = "AssertionError"
      <3> DEFINE e == <<x[1], x[2], decide[x]>>
      <3>1. e \in decided /\ e[3] = "AssertionError"
        BY <1>7
      <3> HIDE DEF e, decided
      <3> QED
        BY <3>1
    <2>2. r = AssertionError
      <3> HIDE DEF decided, plans, r, detected
      <3> QED
        BY <1>2, <1>3, <1>7, <2>1
    <2>3. \E q \in timings : q.timings = {}
      <3> DEFINE e == [source |-> x[1], sink |-> x[2], timings |-> tim(x)]
      <3>1. e \in timings /\ e.timings = {}
        BY <1>5, <1>7
      <3> HIDE DEF e, timings
      <3> QED
        BY <3>1
    <2> HIDE DEF r, timings
    <2> QED
      BY <2>2, <2>3 DEF HasTimings, AssertionError
  <1>8. ASSUME ~ValidationFails({p[1] : p \in detected}),
               \A p \in final : decide[p] # "AssertionError"
        PROVE  HasTimings(r, timings)
    <2>1. ~\E q \in decided : q[3] = "AssertionError"
      BY <1>8
    <2>2. \E k, l, o, s : r = Result(plans, k, l, o, s)
      <3> HIDE DEF decided, plans, r, detected
      <3> QED
        BY <1>2, <1>3, <1>8, <2>1
    <2>3. r.raised = "none" /\ r.plans = plans
      <3> HIDE DEF plans, r
      <3> QED
        BY <2>2 DEF Result
    <2>4. ASSUME NEW q \in timings
          PROVE  /\ q.timings # {}
                 /\ {o.timing : o \in {o \in plans : o.source = q.source /\ o.sink = q.sink}}
                      = q.timings
      <3>1. PICK p \in final : q = [source |-> p[1], sink |-> p[2], timings |-> tim(p)]
        OBVIOUS
      <3>2. q.source = p[1] /\ q.sink = p[2] /\ q.timings = tim(p)
        BY <3>1
      <3>3. {o.timing : o \in {o \in plans : o.source = p[1] /\ o.sink = p[2]}}
              = TimesOf(decide[p])
        BY <1>4, PlansHaveTimes
      <3>4. TimesOf(decide[p]) = tim(p) /\ tim(p) # {}
        BY <1>5, <1>8
      <3> HIDE DEF plans, timings
      <3> QED
        BY <3>2, <3>3, <3>4
    <2> HIDE DEF r, plans, timings
    <2> QED
      BY <2>3, <2>4 DEF HasTimings
  <1>9. HasTimings(r, timings)
    BY <1>6, <1>7, <1>8
  <1> QED
    BY <1>9 DEF tim, final, L

\* For every learn run: every pair of an event and a deletion that the passes leave has
\* its plans for a stale state, with the timings that follow from how many rounds ended
\* before the object was created again; the assertion of decide_stale_state_timing
\* fails only if the log ends too early for some pair.
THEOREM TimingIsDecidedEver == Spec => []TimingIsDecided
  <1>1. TypeOK /\ EventsFinite => TimingIsDecided
    BY StaleTimings DEF TimingIsDecided
  <1> QED
    BY <1>1, TypesCorrect, EventsAreFinite, PTL
=============================================================================
