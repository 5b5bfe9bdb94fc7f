---------------------------- MODULE OracleProofs ----------------------------
(***************************************************************************)
(* What the oracles promise, for every set of objects, contents and masks  *)
(* and for logs of any length: the end state is the one that was left, the *)
(* first learning run is accepted, no alarm means agreement, and the       *)
(* customized checker is reported exactly when it failed.  The family of   *)
(* the controller is the least closed set around it.                       *)
(***************************************************************************)
EXTENDS Oracle, SequenceTheorems, WellFoundedInduction, TLAPS

-----------------------------------------------------------------------------
(* Numbers.                                                                 *)

\* A set with 0 that is closed under successor has all the natural numbers.
LEMMA NatClosed ==
    ASSUME NEW S, 0 \in S, \A n \in Nat : n \in S => n + 1 \in S
    PROVE  \A n \in Nat : n \in S
<1> DEFINE T == {n \in Nat : n \notin S}
           R == {p \in Nat \X Nat : p[1] < p[2]}
<1>1. IsWellFoundedOn(R, Nat)
  BY NatLessThanWellFounded DEF OpToRel
<1>2. SUFFICES ASSUME T # {} PROVE FALSE
  OBVIOUS
<1> HIDE DEF R
<1>3. PICK x \in T : \A y \in T : ~(<<y, x>> \in R)
  BY <1>1, <1>2, WFMin
<1>4. x \in Nat /\ x - 1 \in Nat /\ (x - 1) + 1 = x
  OBVIOUS
<1>5. <<x - 1, x>> \in R
  BY <1>4 DEF R
<1>6. x - 1 \in S
  BY <1>3, <1>4, <1>5
<1> QED
  BY <1>4, <1>6

Greatest(m, S) == m \in S /\ \A x \in S : x <= m

\* A set of numbers up to n that is not empty has a greatest one.
LEMMA GreatestExists ==
    ASSUME NEW n \in Nat, NEW S, S \subseteq 1 .. n, S # {}
    PROVE  \E m : Greatest(m, S)
<1> DEFINE P == {i \in Nat : \A U : U \subseteq 1 .. i /\ U # {} => \E m : Greatest(m, U)}
<1>1. 0 \in P
  OBVIOUS
<1>2. ASSUME NEW i \in Nat, i \in P
      PROVE  i + 1 \in P
  <2> SUFFICES ASSUME NEW U, U \subseteq 1 .. (i + 1), U # {}
               PROVE  \E m : Greatest(m, U)
    OBVIOUS
  <2>1. CASE i + 1 \in U
    <3>1. Greatest(i + 1, U)
      BY <2>1 DEF Greatest
    <3> QED
      BY <3>1
  <2>2. CASE i + 1 \notin U
    <3>1. U \subseteq 1 .. i
      BY <2>2
    <3> QED
      BY <1>2, <3>1
  <2> QED
    BY <2>1, <2>2
<1> HIDE DEF P
<1>3. n \in P
  BY <1>1, <1>2, NatClosed
<1> QED
  BY <1>3 DEF P

\* There is only one.
LEMMA GreatestIs ==
    ASSUME NEW S, S \subseteq Int, NEW m, Greatest(m, S)
    PROVE  (CHOOSE j \in S : \A x \in S : x <= j) = m
<1>1. \A j \in S : (\A x \in S : x <= j) => j = m
  BY DEF Greatest
<1>2. m \in S /\ \A x \in S : x <= m
  BY DEF Greatest
<1> QED
  BY <1>1, <1>2

-----------------------------------------------------------------------------
(* The log of a run, and generate_state.                                    *)

LogEvents ==
    {e \in [key : Keys, etype : EventTypes, obj : UNION {ObjectsOf[k] : k \in Keys},
            uid : Keys \X Nat, owners : SUBSET (Keys \X Nat), tagged : BOOLEAN] :
       e.obj \in ObjectsOf[e.key]}

\* What an event of the log is made of.
LEMMA LogEvent ==
    ASSUME NEW e \in LogEvents
    PROVE  e.key \in Keys /\ e.obj \in ObjectsOf[e.key] /\ e.etype \in EventTypes
BY DEF LogEvents

\* The events of an object, and its last one.
EventsOf(list, k) == {j \in DOMAIN list : list[j].key = k}
LastOf(list, k, j) == Greatest(j, EventsOf(list, k))

\* Event j is the first one of its object in r.
FirstOf(r, j) == \A n \in 1 .. (j - 1) : r[n].key # r[j].key

\* What the recursive function of FirstSeen(r) is, as far as position n.
SeenScan(f, r, n) ==
    f = [i \in 0 .. n |-> IF i = 0 THEN [end_state |-> <<>>, deleted |-> {}]
                          ELSE AddSeen(f[i - 1], r[i])]

\* The fold of FirstSeen, step by step.
LEMMA SeenSteps ==
    ASSUME NEW f, NEW r, NEW n \in Nat, SeenScan(f, r, n)
    PROVE  /\ f[0] = [end_state |-> <<>>, deleted |-> {}]
           /\ \A i \in 0 .. (n - 1) : f[i + 1] = AddSeen(f[i], r[i + 1])
<1>1. \A i \in 0 .. n : f[i] = IF i = 0 THEN [end_state |-> <<>>, deleted |-> {}]
                               ELSE AddSeen(f[i - 1], r[i])
  BY DEF SeenScan
<1>2. ASSUME NEW i \in 0 .. (n - 1)
      PROVE  f[i + 1] = AddSeen(f[i], r[i + 1])
  <2>1. i + 1 \in 0 .. n /\ i + 1 # 0 /\ (i + 1) - 1 = i
    OBVIOUS
  <2> QED
    BY <1>1, <2>1
<1> QED
  BY <1>1, <1>2

\* The recursive function of FirstSeen exists.
LEMMA SeenExists ==
    ASSUME NEW r
    PROVE  \A n \in Nat : \E f : SeenScan(f, r, n)
<1> DEFINE S == {n \in Nat : \E f : SeenScan(f, r, n)}
           start == [end_state |-> <<>>, deleted |-> {}]
<1>1. 0 \in S
  <2> DEFINE f == [i \in 0 .. 0 |-> start]
  <2>1. SeenScan(f, r, 0)
    BY DEF SeenScan
  <2> QED
    BY <2>1
<1>2. ASSUME NEW n \in Nat, n \in S
      PROVE  n + 1 \in S
  <2>1. PICK f : SeenScan(f, r, n)
    BY <1>2
  <2> DEFINE g == [i \in 0 .. (n + 1) |-> IF i = n + 1 THEN AddSeen(f[n], r[n + 1]) ELSE f[i]]
             body(i) == IF i = 0 THEN start ELSE AddSeen(g[i - 1], r[i])
  <2>2. \A i \in 0 .. n : f[i] = IF i = 0 THEN start ELSE AddSeen(f[i - 1], r[i])
    BY <2>1 DEF SeenScan
  <2>3. \A i \in 0 .. n : g[i] = f[i]
    OBVIOUS
  <2>4. g[n + 1] = AddSeen(f[n], r[n + 1])
    OBVIOUS
  <2>g. g = [i \in 0 .. (n + 1) |-> g[i]]
    OBVIOUS
  <2> HIDE DEF g
  <2>5. ASSUME NEW i \in 0 .. (n + 1)
        PROVE  g[i] = body(i)
    <3>1. CASE i = n + 1
      <4>1. i # 0 /\ i - 1 = n /\ n \in 0 .. n
        BY <3>1
      <4> QED
        BY <2>3, <2>4, <3>1, <4>1
    <3>2. CASE i # n + 1
      <4>1. i \in 0 .. n
        BY <3>2
      <4>2. i # 0 => i - 1 \in 0 .. n
        BY <4>1
      <4> QED
        BY <2>2, <2>3, <4>1, <4>2
    <3> QED
      BY <3>1, <3>2
  <2>6. g = [i \in 0 .. (n + 1) |-> body(i)]
    BY <2>5, <2>g
  <2>7. SeenScan(g, r, n + 1)
    BY <2>6 DEF SeenScan
  <2> QED
    BY <2>7
<1> HIDE DEF S
<1>3. \A n \in Nat : n \in S
  BY <1>1, <1>2, NatClosed
<1> QED
  BY <1>3 DEF S

Function(f) == f = [x \in DOMAIN f |-> f[x]]

\* What FirstSeen knows after i events of r.
SeenInv(s, r, i) ==
    /\ s = [end_state |-> s.end_state, deleted |-> s.deleted]
    /\ Function(s.end_state)
    /\ \A j \in 1 .. i : r[j].key \in s.deleted \/ r[j].key \in DOMAIN s.end_state
    /\ \A k \in DOMAIN s.end_state : \E j \in 1 .. i :
         /\ r[j].key = k /\ FirstOf(r, j) /\ r[j].etype # "DELETED"
         /\ s.end_state[k] = r[j].obj
    /\ \A k \in s.deleted : \E j \in 1 .. i :
         r[j].key = k /\ FirstOf(r, j) /\ r[j].etype = "DELETED"

\* Before the first event nothing has been seen.
LEMMA SeenStart ==
    ASSUME NEW r
    PROVE  SeenInv([end_state |-> <<>>, deleted |-> {}], r, 0)
<1> DEFINE s == [end_state |-> <<>>, deleted |-> {}]
<1>1. s.end_state = <<>> /\ s.deleted = {} /\ DOMAIN <<>> = {}
  OBVIOUS
<1>2. Function(<<>>)
  BY DEF Function
<1> QED
  BY <1>1, <1>2 DEF SeenInv

\* An event is added to what has been seen only if it is the first one of its object.
LEMMA SeenStep ==
    ASSUME NEW s, NEW r, NEW i \in Nat, SeenInv(s, r, i)
    PROVE  SeenInv(AddSeen(s, r[i + 1]), r, i + 1)
<1> DEFINE e == r[i + 1]
           t == AddSeen(s, e)
<1>1. \A j : j \in 1 .. (i + 1) <=> j \in 1 .. i \/ j = i + 1
  OBVIOUS
<1>2. CASE e.key \in s.deleted \/ e.key \in DOMAIN s.end_state
  <2>1. t = s
    BY <1>2 DEF AddSeen
  <2> QED
    BY <1>1, <1>2, <2>1 DEF SeenInv
<1>3. CASE ~(e.key \in s.deleted \/ e.key \in DOMAIN s.end_state)
  <2>1. FirstOf(r, i + 1)
    BY <1>3 DEF SeenInv, FirstOf
  <2>2. CASE e.etype = "DELETED"
    <3>1. t = [s EXCEPT !.deleted = s.deleted \cup {e.key}]
      BY <1>3, <2>2 DEF AddSeen
    <3>2. t = [end_state |-> s.end_state, deleted |-> s.deleted \cup {e.key}]
      BY <3>1 DEF SeenInv
    <3>3. t.end_state = s.end_state /\ t.deleted = s.deleted \cup {e.key}
      BY <3>2
    <3> HIDE DEF t
    <3>4. t = [end_state |-> t.end_state, deleted |-> t.deleted]
          /\ Function(t.end_state)
      BY <3>2, <3>3 DEF SeenInv
    <3>5. \A j \in 1 .. (i + 1) : r[j].key \in t.deleted \/ r[j].key \in DOMAIN t.end_state
      BY <1>1, <3>3 DEF SeenInv
    <3>6. \A k \in DOMAIN t.end_state : \E j \in 1 .. (i + 1) :
            /\ r[j].key = k /\ FirstOf(r, j) /\ r[j].etype # "DELETED"
            /\ t.end_state[k] = r[j].obj
      BY <1>1, <3>3 DEF SeenInv
    <3>7. \A k \in t.deleted : \E j \in 1 .. (i + 1) :
            r[j].key = k /\ FirstOf(r, j) /\ r[j].etype = "DELETED"
      BY <1>1, <2>1, <2>2, <3>3 DEF SeenInv
    <3>8. SeenInv(t, r, i + 1)
      BY <3>4, <3>5, <3>6, <3>7 DEF SeenInv
    <3> QED
      BY <3>8 DEF t
  <2>3. CASE e.etype # "DELETED"
    <3> DEFINE es == [k \in DOMAIN s.end_state \cup {e.key} |->
                        IF k = e.key THEN e.obj ELSE s.end_state[k]]
    <3>1. t = [s EXCEPT !.end_state = es]
      BY <1>3, <2>3 DEF AddSeen
    <3>2. t = [end_state |-> es, deleted |-> s.deleted]
      BY <3>1 DEF SeenInv
    <3>3. t.end_state = es /\ t.deleted = s.deleted
      BY <3>2
    <3>4. /\ DOMAIN es = DOMAIN s.end_state \cup {e.key} /\ es[e.key] = e.obj
          /\ \A k \in DOMAIN s.end_state : es[k] = s.end_state[k]
          /\ Function(es)
      BY <1>3 DEF Function
    <3> HIDE DEF t, es
    <3>5. t = [end_state |-> t.end_state, deleted |-> t.deleted]
          /\ Function(t.end_state)
      <4>1. Function(t.end_state)
        BY <3>3, <3>4
      <4>2. t = [end_state |-> t.end_state, deleted |-> t.deleted]
        BY <3>2, <3>3
      <4> QED
        BY <4>1, <4>2
    <3>6. \A j \in 1 .. (i + 1) : r[j].key \in t.deleted \/ r[j].key \in DOMAIN t.end_state
      BY <1>1, <3>3, <3>4 DEF SeenInv
    <3>7. ASSUME NEW k \in DOMAIN t.end_state
          PROVE  \E j \in 1 .. (i + 1) : /\ r[j].key = k /\ FirstOf(r, j)
                     /\ r[j].etype # "DELETED" /\ t.end_state[k] = r[j].obj
      <4>1. CASE k = e.key
        BY <1>1, <2>1, <2>3, <3>3, <3>4, <4>1
      <4>2. CASE k \in DOMAIN s.end_state
        BY <1>1, <3>3, <3>4, <4>2 DEF SeenInv
      <4> QED
        BY <3>3, <3>4, <4>1, <4>2
    <3>8. \A k \in t.deleted : \E j \in 1 .. (i + 1) :
            r[j].key = k /\ FirstOf(r, j) /\ r[j].etype = "DELETED"
      BY <1>1, <3>3 DEF SeenInv
    <3>9. SeenInv(t, r, i + 1)
      BY <3>5, <3>6, <3>7, <3>8 DEF SeenInv
    <3> QED
      BY <3>9 DEF t
  <2> QED
    BY <2>2, <2>3
<1> QED
  BY <1>2, <1>3

\* FirstSeen has the contents in the first event of each object, without those that
\* this event deletes (generate_state of liveness_checker.py).
LEMMA FirstSeenIs ==
    ASSUME NEW r, Len(r) \in Nat
    PROVE  \E s : FirstSeen(r) = s.end_state /\ SeenInv(s, r, Len(r))
<1>1. FirstSeen(r) = (CHOOSE f : SeenScan(f, r, Len(r)))[Len(r)].end_state
  BY DEF FirstSeen, SeenScan
<1>2. PICK f : SeenScan(f, r, Len(r)) /\ FirstSeen(r) = f[Len(r)].end_state
  BY <1>1, SeenExists
<1>3. /\ f[0] = [end_state |-> <<>>, deleted |-> {}]
      /\ \A i \in 0 .. (Len(r) - 1) : f[i + 1] = AddSeen(f[i], r[i + 1])
  BY <1>2, SeenSteps
<1> DEFINE S == {i \in Nat : i <= Len(r) => SeenInv(f[i], r, i)}
<1>4. 0 \in S
  BY <1>3, SeenStart
<1>5. ASSUME NEW i \in Nat, i \in S PROVE i + 1 \in S
  <2> SUFFICES ASSUME i + 1 <= Len(r) PROVE SeenInv(f[i + 1], r, i + 1)
    OBVIOUS
  <2>1. i \in 0 .. (Len(r) - 1) /\ i <= Len(r)
    OBVIOUS
  <2>2. f[i + 1] = AddSeen(f[i], r[i + 1]) /\ SeenInv(f[i], r, i)
    BY <1>3, <1>5, <2>1
  <2> QED
    BY <2>2, SeenStep
<1> HIDE DEF S
<1>6. Len(r) \in S
  BY <1>4, <1>5, NatClosed
<1> QED
  BY <1>2, <1>6 DEF S

\* The first event of an object in the reversed log is the last one in the log.
LEMMA FirstIsLast ==
    ASSUME NEW list \in Seq(LogEvents), NEW r, r = Reverse(list),
           NEW j \in 1 .. Len(list), FirstOf(r, j)
    PROVE  /\ LastOf(list, r[j].key, (Len(list) - j) + 1)
           /\ list[(Len(list) - j) + 1] = r[j]
<1> DEFINE n == Len(list)
           l == (n - j) + 1
<1>1. /\ n \in Nat /\ DOMAIN list = 1 .. n
      /\ \A i \in 1 .. n : r[i] = list[(n - i) + 1]
  BY DEF Reverse
<1>2. l \in 1 .. n /\ list[l] = r[j]
  BY <1>1
<1>3. ASSUME NEW x \in EventsOf(list, r[j].key)
      PROVE  x <= l
  <2>1. x \in 1 .. n /\ list[x].key = r[j].key
    BY <1>1 DEF EventsOf
  <2> SUFFICES ASSUME x > l PROVE FALSE
    BY <1>1, <2>1
  <2> DEFINE y == (n - x) + 1
  <2>2. y \in 1 .. (j - 1) /\ y \in 1 .. n /\ (n - y) + 1 = x
    BY <1>1, <2>1
  <2>3. r[y] = list[x]
    BY <1>1, <2>2
  <2> QED
    BY <2>1, <2>2, <2>3 DEF FirstOf
<1> QED
  BY <1>1, <1>2, <1>3 DEF LastOf, Greatest, EventsOf

\* generate_state: the objects whose last event is no deletion, with its contents.
LEMMA StateOf ==
    ASSUME NEW list \in Seq(LogEvents)
    PROVE  /\ Function(generate_state(list))
           /\ \A k \in DOMAIN generate_state(list) : \E j \in DOMAIN list :
                /\ LastOf(list, k, j) /\ list[j].etype # "DELETED"
                /\ generate_state(list)[k] = list[j].obj
           /\ \A k : \A j \in DOMAIN list : LastOf(list, k, j) /\ list[j].etype # "DELETED" =>
                k \in DOMAIN generate_state(list)
<1>r. PICK r : r = Reverse(list)
  OBVIOUS
<1> DEFINE n == Len(list)
<1>1. /\ n \in Nat /\ DOMAIN list = 1 .. n /\ Len(r) = n
      /\ \A i \in 1 .. n : r[i] = list[(n - i) + 1]
  BY <1>r DEF Reverse
<1>2. PICK s : generate_state(list) = s.end_state /\ SeenInv(s, r, n)
  BY <1>r, <1>1, FirstSeenIs DEF generate_state
<1>3. ASSUME NEW k \in DOMAIN s.end_state
      PROVE  \E j \in DOMAIN list : /\ LastOf(list, k, j) /\ list[j].etype # "DELETED"
                                    /\ s.end_state[k] = list[j].obj
  <2>1. PICK j \in 1 .. n : /\ r[j].key = k /\ FirstOf(r, j) /\ r[j].etype # "DELETED"
                            /\ s.end_state[k] = r[j].obj
    BY <1>2 DEF SeenInv
  <2>2. LastOf(list, k, (n - j) + 1) /\ list[(n - j) + 1] = r[j]
    BY <1>r, <2>1, FirstIsLast
  <2>3. (n - j) + 1 \in DOMAIN list
    BY <1>1
  <2> QED
    BY <2>1, <2>2, <2>3
<1>4. ASSUME NEW k, NEW j \in DOMAIN list, LastOf(list, k, j), list[j].etype # "DELETED"
      PROVE  k \in DOMAIN s.end_state
  <2>1. (n - j) + 1 \in 1 .. n /\ r[(n - j) + 1] = list[j] /\ list[j].key = k
    <3>1. (n - j) + 1 \in 1 .. n /\ (n - ((n - j) + 1)) + 1 = j
      BY <1>1
    <3> QED
      BY <1>1, <1>4, <3>1 DEF LastOf, Greatest, EventsOf
  <2> SUFFICES ASSUME k \in s.deleted PROVE FALSE
    BY <1>2, <2>1 DEF SeenInv
  <2>2. PICK i \in 1 .. n : r[i].key = k /\ FirstOf(r, i) /\ r[i].etype = "DELETED"
    BY <1>2 DEF SeenInv
  <2>3. LastOf(list, k, (n - i) + 1) /\ list[(n - i) + 1] = r[i]
    BY <1>r, <2>2, FirstIsLast
  <2>4. (n - i) + 1 = j
    BY <1>1, <1>4, <2>3 DEF LastOf, Greatest, EventsOf
  <2> QED
    BY <1>4, <2>2, <2>3, <2>4
<1> QED
  BY <1>2, <1>3, <1>4 DEF SeenInv
-----------------------------------------------------------------------------
(* The inductive invariant.                                                 *)

Runs == {"first", "second", "test"}

OracleTypes ==
    /\ run \in Runs /\ phase \in {"running", "tainting", "checked"}
    /\ phase = "checked" => run = "test"
    /\ created \in [Keys -> Nat]
    /\ DOMAIN store = Keys
    /\ api_event_list \in Seq(LogEvents)
    /\ DOMAIN result = Runs
    /\ unsafe \in BOOLEAN

\* The store has what the last event of each object left.
StoreOf(list, s) ==
    \A k \in Keys :
        \/ EventsOf(list, k) = {} /\ s[k] = NoObject
        \/ \E j \in DOMAIN list :
             /\ LastOf(list, k, j)
             /\ s[k] = IF list[j].etype = "DELETED" THEN NoObject ELSE list[j].obj

StoreInv == StoreOf(api_event_list, store)

\* The results of a learning run have the shape that the comparisons rely on.
Saved(res) ==
    /\ DOMAIN res.state \subseteq Keys
    /\ \A k \in DOMAIN res.state : res.state[k] \in ObjectsOf[k]
    /\ \A d \in DOMAIN res.event : DOMAIN res.event[d] = CheckedTypes

\* What the runs have left, and what the check has made of it.
ResultInv ==
    /\ run # "first" => Saved(result["first"])
    /\ run = "test" => /\ Saved(result["second"])
                       /\ oracle = create_differential_oracles(result["first"], result["second"])
    /\ phase # "checked" => errors = NoFile
    /\ phase = "checked" =>
         /\ Saved(result["test"])
         /\ result["test"].state = generate_state(api_event_list)
         /\ errors.safety = apply_safety_checker(generate_history(api_event_list))
         /\ errors.checked => errors.endState = compare_states(oracle, result["test"])

\* What the safety checker would report if the run ended now.
SafetyInv ==
    IF run = "test" THEN unsafe <=> apply_safety_checker(generate_history(api_event_list)) # {}
    ELSE ~unsafe

OracleInv == OracleTypes /\ StoreInv /\ ResultInv /\ SafetyInv

\* The event that is added to the log.
LEMMA EventAdded ==
    ASSUME OracleTypes, NEW k \in Keys, NEW etype \in EventTypes, NEW obj \in ObjectsOf[k],
           APIEvent(k, etype, obj)
    PROVE  \E e \in LogEvents : /\ e.key = k /\ e.etype = etype /\ e.obj = obj
                                /\ api_event_list' = Append(api_event_list, e)
<1> DEFINE e == [key |-> k, etype |-> etype, obj |-> obj, uid |-> <<k, created'[k]>>,
                 owners |-> {<<o, created[o]>> : o \in OwnerKeys[k]},
                 tagged |-> k \in TaggedKeys]
<1>1. created' \in [Keys -> Nat]
  BY DEF APIEvent, OracleTypes
<1>2. {<<o, created[o]>> : o \in OwnerKeys[k]} \in SUBSET (Keys \X Nat)
  BY OracleAssumption DEF OracleTypes
<1>3. <<k, created'[k]>> \in Keys \X Nat
  BY <1>1
<1>4. obj \in UNION {ObjectsOf[x] : x \in Keys}
  OBVIOUS
<1>5. e \in LogEvents
  BY <1>2, <1>3, <1>4 DEF LogEvents
<1>6. api_event_list' = Append(api_event_list, e)
  BY DEF APIEvent
<1>7. e.key = k /\ e.etype = etype /\ e.obj = obj
  OBVIOUS
<1> QED
  BY <1>5, <1>6, <1>7

\* Every step keeps the types.
LEMMA OracleTypesInductive ==
    ASSUME OracleTypes, [Next]_vars
    PROVE  OracleTypes'
<1> USE DEF OracleTypes, Runs
<1>1. ASSUME NEW k \in Keys, NEW etype \in EventTypes, NEW obj \in ObjectsOf[k],
             APIEvent(k, etype, obj)
      PROVE  OracleTypes'
  <2>1. api_event_list' \in Seq(LogEvents)
    <3>1. PICK e \in LogEvents : api_event_list' = Append(api_event_list, e)
      BY <1>1, EventAdded
    <3>2. api_event_list \in Seq(LogEvents)
      OBVIOUS
    <3> QED
      BY <3>1, <3>2
  <2>2. unsafe' \in BOOLEAN
    BY <1>1, Zenon DEF APIEvent
  <2>3. created' \in [Keys -> Nat]
    BY <1>1 DEF APIEvent
  <2> QED
    BY <1>1, <2>1, <2>2, <2>3 DEF APIEvent
<1>2. CASE EndOfRun
  BY <1>2 DEF EndOfRun
<1>3. CASE Taint
  BY <1>3 DEF Taint, oracleVars, TaintStep, NextPass
<1>4. CASE FirstRunSaved
  BY <1>4 DEF FirstRunSaved, StartRun, save_history_and_end_state
<1>5. CASE SecondRunSaved
  BY <1>5 DEF SecondRunSaved, StartRun, save_history_and_end_state
<1>6. ASSUME NEW made \in Settings, check(made)
      PROVE  OracleTypes'
  BY <1>6 DEF check, save_history_and_end_state, familyVars
<1>7. CASE UNCHANGED vars
  BY <1>7 DEF vars, familyVars, oracleVars
<1> QED
  BY <1>1, <1>2, <1>3, <1>4, <1>5, <1>6, <1>7 DEF Next, Done

\* An event is added to the log; the events of an object.
LEMMA EventsGrow ==
    ASSUME NEW list \in Seq(LogEvents), NEW e \in LogEvents, NEW longer,
           longer = Append(list, e)
    PROVE  /\ longer \in Seq(LogEvents) /\ Len(longer) = Len(list) + 1
           /\ DOMAIN longer = DOMAIN list \cup {Len(list) + 1}
           /\ longer[Len(list) + 1] = e /\ \A i \in DOMAIN list : longer[i] = list[i]
           /\ Len(list) + 1 \notin DOMAIN list
OBVIOUS

\* An event at the end of the log is one more event of its object.
LEMMA EventsOfGrow ==
    ASSUME NEW list \in Seq(LogEvents), NEW e \in LogEvents, NEW k
    PROVE  EventsOf(Append(list, e), k) =
             IF e.key = k THEN EventsOf(list, k) \cup {Len(list) + 1} ELSE EventsOf(list, k)
<1>l. PICK longer : longer = Append(list, e)
  OBVIOUS
<1>1. /\ DOMAIN longer = DOMAIN list \cup {Len(list) + 1}
      /\ longer[Len(list) + 1] = e /\ \A i \in DOMAIN list : longer[i] = list[i]
      /\ Len(list) + 1 \notin DOMAIN list
  BY <1>l, EventsGrow
<1>2. EventsOf(longer, k) =
        IF e.key = k THEN EventsOf(list, k) \cup {Len(list) + 1} ELSE EventsOf(list, k)
  BY <1>1 DEF EventsOf
<1> QED
  BY <1>l, <1>2

\* The last event of an object in the log says what the API server holds.
LEMMA StoreInductive ==
    ASSUME OracleTypes, StoreInv, [Next]_vars
    PROVE  StoreInv'
<1>1. ASSUME NEW k \in Keys, NEW etype \in EventTypes, NEW obj \in ObjectsOf[k],
             APIEvent(k, etype, obj)
      PROVE  StoreInv'
  <2>1. PICK e \in LogEvents : /\ e.key = k /\ e.etype = etype /\ e.obj = obj
                               /\ api_event_list' = Append(api_event_list, e)
    BY <1>1, EventAdded
  <2>2. api_event_list \in Seq(LogEvents) /\ DOMAIN store = Keys
    BY DEF OracleTypes
  <2>3. store' = [store EXCEPT ![k] = IF etype = "DELETED" THEN NoObject ELSE obj]
    BY <1>1 DEF APIEvent
  <2> DEFINE n == Len(api_event_list)
  <2>4. /\ n \in Nat /\ DOMAIN api_event_list = 1 .. n
        /\ DOMAIN api_event_list' = DOMAIN api_event_list \cup {n + 1}
        /\ api_event_list'[n + 1] = e
        /\ \A i \in DOMAIN api_event_list : api_event_list'[i] = api_event_list[i]
    BY <2>1, <2>2, EventsGrow
  <2>5. ASSUME NEW x \in Keys
        PROVE  \/ EventsOf(api_event_list', x) = {} /\ store'[x] = NoObject
               \/ \E j \in DOMAIN api_event_list' :
                    /\ LastOf(api_event_list', x, j)
                    /\ store'[x] = IF api_event_list'[j].etype = "DELETED" THEN NoObject
                                   ELSE api_event_list'[j].obj
    <3>2. CASE x = k
      <4>1. EventsOf(api_event_list', x) = EventsOf(api_event_list, x) \cup {n + 1}
        <5>1. PICK l : l = api_event_list'
          OBVIOUS
        <5>2. EventsOf(l, x) = EventsOf(api_event_list, x) \cup {n + 1}
          BY <2>1, <2>2, <3>2, <5>1, EventsOfGrow
        <5> QED
          BY <5>1, <5>2
      <4>2. \A i \in EventsOf(api_event_list, x) : i \in 1 .. n
        BY <2>4 DEF EventsOf
      <4>3. LastOf(api_event_list', x, n + 1)
        BY <2>4, <4>1, <4>2 DEF LastOf, Greatest
      <4>4. store'[x] = IF e.etype = "DELETED" THEN NoObject ELSE e.obj
        BY <2>1, <2>2, <2>3, <3>2
      <4> QED
        BY <2>4, <4>3, <4>4
    <3>3. CASE x # k
      <4>1. EventsOf(api_event_list', x) = EventsOf(api_event_list, x)
        <5>1. PICK l : l = api_event_list'
          OBVIOUS
        <5>2. EventsOf(l, x) = EventsOf(api_event_list, x)
          BY <2>1, <2>2, <3>3, <5>1, EventsOfGrow
        <5> QED
          BY <5>1, <5>2
      <4>2. store'[x] = store[x]
        BY <2>2, <2>3, <3>3
      <4>3. \A j : LastOf(api_event_list', x, j) <=> LastOf(api_event_list, x, j)
        BY <4>1 DEF LastOf
      <4>4. CASE EventsOf(api_event_list, x) = {} /\ store[x] = NoObject
        BY <4>1, <4>2, <4>4
      <4>5. CASE \E j \in DOMAIN api_event_list :
             /\ LastOf(api_event_list, x, j)
             /\ store[x] = IF api_event_list[j].etype = "DELETED" THEN NoObject
                           ELSE api_event_list[j].obj
        BY <2>4, <4>2, <4>3, <4>5
      <4> QED
        BY <4>4, <4>5 DEF StoreInv, StoreOf
    <3> QED
      BY <3>2, <3>3
  <2> QED
    BY <2>5 DEF StoreInv, StoreOf
<1>2. CASE api_event_list' = <<>> /\ store' = [k \in Keys |-> NoObject]
  BY <1>2 DEF StoreInv, StoreOf, EventsOf
<1>3. CASE UNCHANGED <<api_event_list, store>>
  BY <1>3 DEF StoreInv
<1>4. (\E k \in Keys, etype \in EventTypes : \E obj \in ObjectsOf[k] : APIEvent(k, etype, obj))
      \/ (api_event_list' = <<>> /\ store' = [k \in Keys |-> NoObject])
      \/ UNCHANGED <<api_event_list, store>>
  BY DEF Next, EndOfRun, Taint, TaintStep, NextPass, oracleVars, FirstRunSaved, SecondRunSaved,
     StartRun, check, familyVars, Done, vars
<1> QED
  BY <1>1, <1>2, <1>3, <1>4

\* The end state is what exists.
LEMMA StateIsStore ==
    ASSUME OracleTypes, StoreInv
    PROVE  generate_state(api_event_list) = Live(store)
<1>g. PICK g : g = generate_state(api_event_list)
  OBVIOUS
<1>0. /\ api_event_list \in Seq(LogEvents)
      /\ \A j \in DOMAIN api_event_list : api_event_list[j] \in LogEvents
  BY DEF OracleTypes
<1>1. /\ Function(g)
      /\ \A k \in DOMAIN g : \E j \in DOMAIN api_event_list :
           /\ LastOf(api_event_list, k, j) /\ api_event_list[j].etype # "DELETED"
           /\ g[k] = api_event_list[j].obj
      /\ \A k : \A j \in DOMAIN api_event_list :
           LastOf(api_event_list, k, j) /\ api_event_list[j].etype # "DELETED" => k \in DOMAIN g
  BY <1>g, <1>0, StateOf
<1>2. \A k : \A i, j \in DOMAIN api_event_list :
        LastOf(api_event_list, k, i) /\ LastOf(api_event_list, k, j) => i = j
  BY <1>0 DEF LastOf, Greatest, EventsOf
<1>3. \A k : \A j \in DOMAIN api_event_list : LastOf(api_event_list, k, j) =>
        /\ k \in Keys /\ EventsOf(api_event_list, k) # {} /\ api_event_list[j].obj # NoObject
  <2> TAKE k
  <2> TAKE j \in DOMAIN api_event_list
  <2> HAVE LastOf(api_event_list, k, j)
  <2>1. api_event_list[j].key = k /\ j \in EventsOf(api_event_list, k)
    BY DEF LastOf, Greatest, EventsOf
  <2>2. api_event_list[j].key \in Keys
        /\ api_event_list[j].obj \in ObjectsOf[api_event_list[j].key]
    BY <1>0, LogEvent
  <2> QED
    BY <2>1, <2>2, OracleAssumption
<1>4. ASSUME NEW k \in DOMAIN g PROVE k \in Keys /\ store[k] # NoObject /\ g[k] = store[k]
  <2>1. PICK j \in DOMAIN api_event_list :
           /\ LastOf(api_event_list, k, j) /\ api_event_list[j].etype # "DELETED"
           /\ g[k] = api_event_list[j].obj
    BY <1>1
  <2>2. k \in Keys /\ EventsOf(api_event_list, k) # {} /\ api_event_list[j].obj # NoObject
    BY <1>3, <2>1
  <2>3. PICK i \in DOMAIN api_event_list :
             /\ LastOf(api_event_list, k, i)
             /\ store[k] = IF api_event_list[i].etype = "DELETED" THEN NoObject
                           ELSE api_event_list[i].obj
    BY <2>2 DEF StoreInv, StoreOf
  <2>4. i = j
    BY <1>2, <2>1, <2>3
  <2> QED
    BY <2>1, <2>2, <2>3, <2>4
<1>5. ASSUME NEW k \in Keys, store[k] # NoObject PROVE k \in DOMAIN g
  <2>1. PICK i \in DOMAIN api_event_list :
             /\ LastOf(api_event_list, k, i)
             /\ store[k] = IF api_event_list[i].etype = "DELETED" THEN NoObject
                           ELSE api_event_list[i].obj
    BY <1>5 DEF StoreInv, StoreOf
  <2> QED
    BY <1>1, <1>5, <2>1
<1>6. DOMAIN g = {k \in Keys : store[k] # NoObject}
  BY <1>4, <1>5
<1>7. g = [k \in {k \in Keys : store[k] # NoObject} |-> store[k]]
  BY <1>1, <1>4, <1>6 DEF Function
<1> QED
  BY <1>g, <1>7 DEF Live
-----------------------------------------------------------------------------
(* The customized safety checkers.                                          *)

\* The events of an object among the first i.
Before(list, k, i) == {j \in 1 .. i : list[j].key = k}

\* current_state, from the log.
LEMMA StatesIs ==
    ASSUME NEW list \in Seq(LogEvents), NEW i \in 0 .. Len(list), NEW k \in SuiteKeys
    PROVE  /\ Before(list, k, i) = {} => StatesOf(generate_history(list), i)[k] = NoObject
           /\ \A j : Greatest(j, Before(list, k, i)) =>
                StatesOf(generate_history(list), i)[k] =
                  IF list[j].etype = "DELETED" THEN NoObject ELSE list[j].obj
           /\ Before(list, k, i) # {} => \E j : Greatest(j, Before(list, k, i))
<1> DEFINE B == Before(list, k, i)
<1>h. PICK h : h = generate_history(list)
  OBVIOUS
<1>1. Len(list) \in Nat /\ DOMAIN list = 1 .. Len(list) /\ i \in Nat /\ 1 .. i \subseteq DOMAIN list
  OBVIOUS
<1>2. \A j \in DOMAIN list : h[j].key = list[j].key /\ h[j].etype = list[j].etype
                             /\ h[j].state = list[j].obj
  BY <1>h DEF generate_history
<1>3. B = {j \in 1 .. i : h[j].key = k}
  BY <1>1, <1>2 DEF Before
<1>4. StatesOf(h, i)[k] =
        IF B = {} \/ h[CHOOSE j \in B : \A n \in B : n <= j].etype = "DELETED" THEN NoObject
        ELSE h[CHOOSE j \in B : \A n \in B : n <= j].state
  BY <1>3 DEF StatesOf
<1>5. B \subseteq 1 .. i /\ B \subseteq Int
  BY DEF Before
<1> HIDE DEF B
<1>6. ASSUME NEW j, Greatest(j, B)
      PROVE  StatesOf(h, i)[k] = IF list[j].etype = "DELETED" THEN NoObject ELSE list[j].obj
  <2>1. (CHOOSE x \in B : \A n \in B : n <= x) = j
    BY <1>5, <1>6, GreatestIs
  <2>2. j \in DOMAIN list /\ B # {}
    BY <1>1, <1>5, <1>6 DEF Greatest
  <2> QED
    BY <1>2, <1>4, <2>1, <2>2
<1>7. B # {} => \E j : Greatest(j, B)
  BY <1>1, <1>5, GreatestExists
<1>8. B = {} => StatesOf(h, i)[k] = NoObject
  BY <1>4
<1> QED
  BY <1>h, <1>6, <1>7, <1>8 DEF B

\* Events that come later do not change it.
LEMMA StatesPrefix ==
    ASSUME NEW list \in Seq(LogEvents), NEW e \in LogEvents, NEW longer,
           longer = Append(list, e), NEW i \in 0 .. Len(list)
    PROVE  StatesOf(generate_history(longer), i) = StatesOf(generate_history(list), i)
<1> DEFINE s == StatesOf(generate_history(list), i)
           t == StatesOf(generate_history(longer), i)
<1>1. /\ longer \in Seq(LogEvents) /\ Len(longer) = Len(list) + 1
      /\ \A j \in DOMAIN list : longer[j] = list[j]
      /\ 1 .. i \subseteq DOMAIN list
  OBVIOUS
<1>2. i \in 0 .. Len(longer)
  BY <1>1
<1>3. ASSUME NEW k \in SuiteKeys PROVE t[k] = s[k]
  <2>1. Before(longer, k, i) = Before(list, k, i)
    BY <1>1 DEF Before
  <2>2. CASE Before(list, k, i) = {}
    <3>1. s[k] = NoObject
      BY <2>2, StatesIs
    <3>2. t[k] = NoObject
      BY <1>1, <1>2, <2>1, <2>2, StatesIs
    <3> QED
      BY <3>1, <3>2
  <2>3. CASE Before(list, k, i) # {}
    <3>1. PICK j : Greatest(j, Before(list, k, i))
      BY <2>3, StatesIs
    <3>2. j \in DOMAIN list
      BY <1>1, <3>1 DEF Greatest, Before
    <3>3. s[k] = IF list[j].etype = "DELETED" THEN NoObject ELSE list[j].obj
      BY <3>1, StatesIs
    <3>4. t[k] = IF longer[j].etype = "DELETED" THEN NoObject ELSE longer[j].obj
      BY <1>1, <1>2, <2>1, <3>1, StatesIs
    <3> QED
      BY <1>1, <3>2, <3>3, <3>4
  <2> QED
    BY <2>2, <2>3
<1>4. s = [k \in SuiteKeys |-> s[k]] /\ t = [k \in SuiteKeys |-> t[k]]
  BY DEF StatesOf
<1> HIDE DEF s, t
<1>5. s = t
  BY <1>3, <1>4
<1> QED
  BY <1>5 DEF s, t

\* At the end of the log it is the store.
LEMMA StatesLast ==
    ASSUME NEW list \in Seq(LogEvents), NEW s, StoreOf(list, s), NEW k \in SuiteKeys
    PROVE  StatesOf(generate_history(list), Len(list))[k] = s[k]
<1>1. k \in Keys /\ Len(list) \in 0 .. Len(list) /\ DOMAIN list = 1 .. Len(list)
  BY OracleAssumption
<1>2. Before(list, k, Len(list)) = EventsOf(list, k)
  BY <1>1 DEF Before, EventsOf
<1>3. CASE EventsOf(list, k) = {} /\ s[k] = NoObject
  BY <1>1, <1>2, <1>3, StatesIs
<1>4. CASE \E j \in DOMAIN list :
             /\ LastOf(list, k, j)
             /\ s[k] = IF list[j].etype = "DELETED" THEN NoObject ELSE list[j].obj
  BY <1>1, <1>2, <1>4, StatesIs DEF LastOf
<1> QED
  BY <1>1, <1>3, <1>4 DEF StoreOf

\* The checker looks at its own objects only.
LEMMA SuiteFailsSame ==
    ASSUME NEW s, NEW t, \A k \in SuiteKeys : s[k] = t[k]
    PROVE  SuiteFails(s) <=> SuiteFails(t)
<1>1. [k \in SuiteKeys |-> s[k]] = [k \in SuiteKeys |-> t[k]]
  OBVIOUS
<1>2. SuiteHolds([k \in SuiteKeys |-> s[k]]) <=> SuiteHolds([k \in SuiteKeys |-> t[k]])
  BY <1>1
<1> QED
  BY <1>2 DEF SuiteFails

FailsAt(list, i) ==
    list[i].key \in SuiteKeys /\ SuiteFails(StatesOf(generate_history(list), i))

\* apply_safety_checker reports the events of the objects of the suite after which
\* the suite fails.
LEMMA ApplyIs ==
    ASSUME NEW list
    PROVE  apply_safety_checker(generate_history(list)) = {i \in DOMAIN list : FailsAt(list, i)}
<1>1. /\ DOMAIN generate_history(list) = DOMAIN list
      /\ \A i \in DOMAIN list : generate_history(list)[i].key = list[i].key
  BY DEF generate_history
<1> QED
  BY <1>1 DEF apply_safety_checker, FailsAt

\* An event adds a report exactly if the checker fails in the state after it.
LEMMA SafetyGrow ==
    ASSUME NEW list \in Seq(LogEvents), NEW e \in LogEvents, NEW longer,
           longer = Append(list, e), NEW s, StoreOf(longer, s)
    PROVE  apply_safety_checker(generate_history(longer)) # {} <=>
             \/ apply_safety_checker(generate_history(list)) # {}
             \/ e.key \in SuiteKeys /\ SuiteFails(s)
<1> DEFINE n == Len(list)
<1>1. /\ longer \in Seq(LogEvents) /\ Len(longer) = n + 1
      /\ DOMAIN longer = DOMAIN list \cup {n + 1}
      /\ longer[n + 1] = e /\ \A i \in DOMAIN list : longer[i] = list[i]
  BY EventsGrow
<1>2. ASSUME NEW i \in DOMAIN list PROVE FailsAt(longer, i) <=> FailsAt(list, i)
  <2>1. i \in 0 .. Len(list)
    OBVIOUS
  <2>2. StatesOf(generate_history(longer), i) = StatesOf(generate_history(list), i)
    BY <2>1, StatesPrefix
  <2> QED
    BY <1>1, <2>2 DEF FailsAt
<1>3. FailsAt(longer, n + 1) <=> e.key \in SuiteKeys /\ SuiteFails(s)
  <2>1. ASSUME NEW k \in SuiteKeys PROVE StatesOf(generate_history(longer), n + 1)[k] = s[k]
    <3>1. StatesOf(generate_history(longer), Len(longer))[k] = s[k]
      BY <1>1, StatesLast
    <3> QED
      BY <1>1, <3>1
  <2>2. SuiteFails(StatesOf(generate_history(longer), n + 1)) <=> SuiteFails(s)
    BY <2>1, SuiteFailsSame
  <2> QED
    BY <1>1, <2>2 DEF FailsAt
<1>4. {i \in DOMAIN longer : FailsAt(longer, i)} # {} <=>
        \/ {i \in DOMAIN list : FailsAt(list, i)} # {}
        \/ e.key \in SuiteKeys /\ SuiteFails(s)
  BY <1>1, <1>2, <1>3
<1> QED
  BY <1>4, ApplyIs

\* A step of the test run makes the suite fail exactly when the safety checker would
\* report the event.
LEMMA SafetyInductive ==
    ASSUME OracleTypes, StoreInv', SafetyInv, [Next]_vars
    PROVE  SafetyInv'
<1>1. ASSUME NEW k \in Keys, NEW etype \in EventTypes, NEW obj \in ObjectsOf[k],
             APIEvent(k, etype, obj)
      PROVE  SafetyInv'
  <2>1. PICK e \in LogEvents : /\ e.key = k /\ e.etype = etype /\ e.obj = obj
                               /\ api_event_list' = Append(api_event_list, e)
    BY <1>1, EventAdded
  <2>2. api_event_list \in Seq(LogEvents) /\ StoreOf(api_event_list', store')
    BY DEF OracleTypes, StoreInv
  <2>3. apply_safety_checker(generate_history(api_event_list')) # {} <=>
             \/ apply_safety_checker(generate_history(api_event_list)) # {}
             \/ k \in SuiteKeys /\ SuiteFails(store')
    BY <2>1, <2>2, SafetyGrow
  <2>4. /\ unsafe' <=> unsafe \/ (run = "test" /\ k \in SuiteKeys /\ SuiteFails(store'))
        /\ run' = run
    BY <1>1 DEF APIEvent
  <2> QED
    BY <2>3, <2>4 DEF SafetyInv
<1>2. CASE api_event_list' = <<>> /\ unsafe' = unsafe /\ run # "test"
  <2>1. apply_safety_checker(generate_history(api_event_list')) = {}
    BY <1>2, ApplyIs
  <2> QED
    BY <1>2, <2>1 DEF SafetyInv
<1>3. CASE UNCHANGED <<api_event_list, unsafe, run>>
  BY <1>3 DEF SafetyInv
<1>4. (\E k \in Keys, etype \in EventTypes : \E obj \in ObjectsOf[k] : APIEvent(k, etype, obj))
      \/ (api_event_list' = <<>> /\ unsafe' = unsafe /\ run # "test")
      \/ UNCHANGED <<api_event_list, unsafe, run>>
  BY DEF Next, EndOfRun, Taint, TaintStep, NextPass, oracleVars, FirstRunSaved, SecondRunSaved,
     StartRun, check, familyVars, Done, vars
<1> QED
  BY <1>1, <1>2, <1>3, <1>4

-----------------------------------------------------------------------------
(* The results of the runs.                                                 *)

\* What a run saves has the shape that the comparisons rely on.
LEMMA SavedIs ==
    ASSUME NEW list \in Seq(LogEvents), NEW res,
           res.state = generate_state(list), res.event = generate_history_digest(list)
    PROVE  Saved(res)
<1>g. PICK g : g = generate_state(list)
  OBVIOUS
<1>1. \A j \in DOMAIN list : list[j] \in LogEvents
  OBVIOUS
<1>2. \A k \in DOMAIN g : \E j \in DOMAIN list :
           /\ LastOf(list, k, j) /\ list[j].etype # "DELETED"
           /\ g[k] = list[j].obj
  BY <1>g, StateOf
<1>3. ASSUME NEW k \in DOMAIN g PROVE k \in Keys /\ g[k] \in ObjectsOf[k]
  <2>1. PICK j \in DOMAIN list : LastOf(list, k, j) /\ g[k] = list[j].obj
    BY <1>2
  <2>2. list[j].key = k
    BY <2>1 DEF LastOf, Greatest, EventsOf
  <2>3. list[j].key \in Keys /\ list[j].obj \in ObjectsOf[list[j].key]
    BY <1>1, LogEvent
  <2> QED
    BY <2>1, <2>2, <2>3
<1>4. ASSUME NEW d \in DOMAIN generate_history_digest(list)
      PROVE  DOMAIN generate_history_digest(list)[d] = CheckedTypes
  BY DEF generate_history_digest
<1> QED
  BY <1>g, <1>3, <1>4 DEF Saved

\* What is saved of a run is what was made of its log.
LEMMA ResultInductive ==
    ASSUME OracleTypes, ResultInv, [Next]_vars
    PROVE  ResultInv'
<1>0. api_event_list \in Seq(LogEvents) /\ DOMAIN result = Runs
  BY DEF OracleTypes
<1>s. ASSUME NEW r \in Runs, save_history_and_end_state(r)
      PROVE  /\ Saved(result'[r])
             /\ result'[r].state = generate_state(api_event_list)
             /\ r = "test" => result'[r].history = generate_history(api_event_list)
             /\ \A q \in Runs : q # r => result'[q] = result[q]
  <2>1. /\ result'[r].state = generate_state(api_event_list)
        /\ result'[r].event = generate_history_digest(api_event_list)
        /\ result'[r].history = IF r = "test" THEN generate_history(api_event_list) ELSE <<>>
        /\ \A q \in Runs : q # r => result'[q] = result[q]
    BY <1>0, <1>s DEF save_history_and_end_state
  <2>2. PICK res : res = result'[r]
    OBVIOUS
  <2>3. Saved(res)
    BY <1>0, <2>1, <2>2, SavedIs
  <2> QED
    BY <2>1, <2>2, <2>3
<1>1. CASE /\ UNCHANGED <<run, result, oracle, errors>>
           /\ phase # "checked" /\ phase' # "checked"
  BY <1>1 DEF ResultInv
<1>2. CASE UNCHANGED <<run, phase, result, oracle, errors, api_event_list>>
  BY <1>2 DEF ResultInv
<1>3. CASE FirstRunSaved
  <2>1. /\ run' = "second" /\ phase' = "running" /\ errors' = errors /\ phase # "checked"
        /\ save_history_and_end_state("first") /\ "first" \in Runs
    BY <1>3 DEF FirstRunSaved, StartRun, Runs
  <2>2. Saved(result'["first"])
    BY <1>s, <2>1
  <2> QED
    BY <2>1, <2>2 DEF ResultInv
<1>4. CASE SecondRunSaved
  <2>1. /\ run = "second" /\ run' = "test" /\ phase' = "running" /\ errors' = errors
        /\ phase # "checked"
        /\ save_history_and_end_state("second") /\ "second" \in Runs /\ "first" \in Runs
        /\ oracle' = create_differential_oracles(result'["first"], result'["second"])
    BY <1>4 DEF SecondRunSaved, StartRun, Runs
  <2>2. Saved(result'["second"]) /\ result'["first"] = result["first"]
    BY <1>s, <2>1
  <2>3. Saved(result["first"])
    BY <2>1 DEF ResultInv
  <2> QED
    BY <2>1, <2>2, <2>3 DEF ResultInv
<1>5. ASSUME NEW made \in Settings, check(made)
      PROVE  ResultInv'
  <2>1. /\ run = "test" /\ run' = "test" /\ phase' = "checked" /\ oracle' = oracle
        /\ api_event_list' = api_event_list
        /\ save_history_and_end_state("test")
        /\ \A r \in Runs : r \in Runs
        /\ "test" \in Runs /\ "second" \in Runs /\ "first" \in Runs
    BY <1>5 DEF check, familyVars, Runs
  <2>2. /\ Saved(result'["test"])
        /\ result'["test"].state = generate_state(api_event_list)
        /\ result'["test"].history = generate_history(api_event_list)
        /\ result'["first"] = result["first"] /\ result'["second"] = result["second"]
    BY <1>s, <2>1
  <2>3. /\ errors'.safety = apply_safety_checker(result'["test"].history)
        /\ errors'.checked => errors'.endState = compare_states(oracle, result'["test"])
    BY <1>5 DEF check
  <2>4. /\ Saved(result["first"]) /\ Saved(result["second"])
        /\ oracle = create_differential_oracles(result["first"], result["second"])
    BY <2>1 DEF ResultInv
  <2> QED
    BY <2>1, <2>2, <2>3, <2>4 DEF ResultInv
<1>6. \/ UNCHANGED <<run, result, oracle, errors>> /\ phase # "checked" /\ phase' # "checked"
      \/ UNCHANGED <<run, phase, result, oracle, errors, api_event_list>>
      \/ FirstRunSaved
      \/ SecondRunSaved
      \/ \E made \in Settings : check(made)
  BY DEF Next, APIEvent, EndOfRun, Taint, TaintStep, NextPass, oracleVars, familyVars, Done, vars
<1> QED
  BY <1>1, <1>2, <1>3, <1>4, <1>5, <1>6

\* The invariant holds in every state.
THEOREM OracleInvariance == Spec => []OracleInv
<1>1. Init => OracleInv
  <2> SUFFICES ASSUME Init PROVE OracleInv
    OBVIOUS
  <2>1. OracleTypes
    <3>1. unsafe \in BOOLEAN
      BY Zenon DEF Init
    <3>2. <<>> \in Seq(LogEvents)
      OBVIOUS
    <3>3. created \in [Keys -> Nat]
      BY DEF Init
    <3> QED
      BY <3>1, <3>2, <3>3 DEF Init, OracleTypes, Runs
  <2>2. StoreInv
    BY DEF Init, StoreInv, StoreOf, EventsOf
  <2>3. ResultInv
    BY DEF Init, ResultInv
  <2>4. SafetyInv
    BY DEF Init, SafetyInv
  <2> QED
    BY <2>1, <2>2, <2>3, <2>4 DEF OracleInv
<1>2. OracleInv /\ [Next]_vars => OracleInv'
  <2> SUFFICES ASSUME OracleInv, [Next]_vars PROVE OracleInv'
    OBVIOUS
  <2>1. OracleTypes /\ StoreInv /\ ResultInv /\ SafetyInv
    BY DEF OracleInv
  <2>2. OracleTypes'
    BY <2>1, OracleTypesInductive
  <2>3. StoreInv'
    BY <2>1, StoreInductive
  <2>4. ResultInv'
    BY <2>1, ResultInductive
  <2>5. SafetyInv'
    BY <2>1, <2>3, SafetyInductive
  <2> QED
    BY <2>2, <2>3, <2>4, <2>5 DEF OracleInv
<1> QED
  BY <1>1, <1>2, PTL DEF Spec

\* The end state that generate_state reads backwards from a log of any length is what
\* exists when the run ends.
THEOREM StateIsLiveEver == Spec => []StateIsLive
<1>1. OracleInv => StateIsLive
  BY StateIsStore DEF OracleInv, ResultInv, StateIsLive
<1> QED
  BY <1>1, OracleInvariance, PTL

\* The customized checker is reported exactly if it failed in some state of the run.
THEOREM SafetyAlarmExactEver == Spec => []SafetyAlarmExact
<1>1. OracleInv => SafetyAlarmExact
  <2> SUFFICES ASSUME OracleInv, errors # NoFile PROVE (errors.safety # {}) = unsafe
    BY DEF SafetyAlarmExact
  <2>1. phase = "checked" /\ run = "test" /\ unsafe \in BOOLEAN
    BY DEF OracleInv, ResultInv, OracleTypes
  <2>2. errors.safety = apply_safety_checker(generate_history(api_event_list))
    BY <2>1 DEF OracleInv, ResultInv
  <2>3. unsafe <=> apply_safety_checker(generate_history(api_event_list)) # {}
    BY <2>1 DEF OracleInv, SafetyInv
  <2> QED
    BY <2>1, <2>2, <2>3
<1> QED
  BY <1>1, OracleInvariance, PTL
-----------------------------------------------------------------------------
(* The comparisons.                                                         *)

\* What the trimming leaves of the state of the first run.
LEMMA TrimIs ==
    ASSUME NEW one, NEW two, NEW trim, trim = second_pass_learn_trim(one, two)
    PROVE  /\ DOMAIN trim = DOMAIN one
           /\ \A k \in DOMAIN one : k \notin DOMAIN two => trim[k] = SIEVE_LEARN_VALUE_MASK
           /\ \A k \in DOMAIN one : k \in DOMAIN two => trim[k] = TrimFields(one[k], two[k])
BY DEF second_pass_learn_trim

\* Trimming masks fields and changes no other; two equal objects are not trimmed
\* (second_pass_learn_trim).
LEMMA TrimFieldsIs ==
    ASSUME NEW o, NEW p, NEW trim, trim = TrimFields(o, p)
    PROVE  /\ DOMAIN trim = DOMAIN o
           /\ \A f \in DOMAIN o : trim[f] = SIEVE_LEARN_VALUE_MASK \/ trim[f] = o[f]
           /\ o = p => \A f \in DOMAIN o : trim[f] = o[f]
BY DEF TrimFields

\* With the oracles of two learning runs the first one passes.
LEMMA FirstAccepted ==
    ASSUME NEW first, NEW second, Saved(first), Saved(second),
           NEW ref, ref = create_differential_oracles(first, second)
    PROVE  compare_states(ref, first) = {} /\ compare_history_digests(ref, first) = {}
<1>1. /\ ref.state = second_pass_learn_trim(first.state, second.state)
      /\ ref.event = remove_ignored_value(second_pass_learn_trim(first.event, second.event))
  BY DEF create_differential_oracles, canonicalize_state, canonicalize_history_digest
<1>2. /\ DOMAIN ref.state = DOMAIN first.state
      /\ \A k \in DOMAIN first.state :
           k \notin DOMAIN second.state => ref.state[k] = SIEVE_LEARN_VALUE_MASK
      /\ \A k \in DOMAIN first.state :
           k \in DOMAIN second.state => ref.state[k] = TrimFields(first.state[k], second.state[k])
  BY <1>1, TrimIs
<1>3. ObjectMessages(ref, first) = {}
  BY <1>2 DEF ObjectMessages, SymDiff
<1>4. \A t : NumberOf(ref.state, t) = NumberOf(first.state, t)
  BY <1>2 DEF NumberOf
<1>5. ExistenceMessages(ref, first) = {}
  BY <1>3, <1>4 DEF ExistenceMessages
<1>6. ASSUME NEW k \in DOMAIN first.state, ref.state[k] # SIEVE_LEARN_VALUE_MASK
      PROVE  /\ DOMAIN ref.state[k] = DOMAIN first.state[k]
             /\ \A f \in DOMAIN first.state[k] : \/ ref.state[k][f] = SIEVE_LEARN_VALUE_MASK
                                                 \/ ref.state[k][f] = first.state[k][f]
  <2>1. ref.state[k] = TrimFields(first.state[k], second.state[k])
    BY <1>2, <1>6
  <2> QED
    BY <2>1, TrimFieldsIs
<1>7. FieldMessages(ref, first) = {}
  BY <1>2, <1>6 DEF FieldMessages
<1>8. compare_states(ref, first) = {}
  BY <1>5, <1>7 DEF compare_states
<1>e. PICK trim : trim = second_pass_learn_trim(first.event, second.event)
  OBVIOUS
<1>9. /\ DOMAIN trim = DOMAIN first.event
      /\ \A d \in DOMAIN first.event :
           d \notin DOMAIN second.event => trim[d] = SIEVE_LEARN_VALUE_MASK
      /\ \A d \in DOMAIN first.event :
           d \in DOMAIN second.event => trim[d] = TrimFields(first.event[d], second.event[d])
  BY <1>e, TrimIs
<1>10. ASSUME NEW d \in DOMAIN ref.event
       PROVE  /\ d \in DOMAIN trim /\ ref.event[d] = trim[d] /\ trim[d] # SIEVE_LEARN_VALUE_MASK
              /\ \A t \in DOMAIN trim[d] : trim[d][t] # SIEVE_LEARN_VALUE_MASK
  BY <1>1, <1>e DEF remove_ignored_value
<1>11. ASSUME NEW d \in DOMAIN ref.event, NEW t \in CheckedTypes
       PROVE  ref.event[d][t] = first.event[d][t]
  <2>1. trim[d] = TrimFields(first.event[d], second.event[d]) /\ d \in DOMAIN first.event
    BY <1>9, <1>10
  <2>2. DOMAIN first.event[d] = CheckedTypes
    BY <2>1 DEF Saved
  <2>3. DOMAIN trim[d] = CheckedTypes
        /\ (trim[d][t] = SIEVE_LEARN_VALUE_MASK \/ trim[d][t] = first.event[d][t])
    BY <2>1, <2>2, TrimFieldsIs
  <2> QED
    BY <1>10, <2>3
<1>12. compare_history_digests(ref, first) = {}
  BY <1>11 DEF compare_history_digests
<1> QED
  BY <1>8, <1>12

\* The first learning run passes with the oracles that the two runs gave.
THEOREM FirstRunAcceptedEver == Spec => []FirstRunAccepted
<1>1. OracleInv => FirstRunAccepted
  BY FirstAccepted DEF OracleInv, ResultInv, FirstRunAccepted
<1> QED
  BY <1>1, OracleInvariance, PTL

\* No message means agreement.
LEMMA NoMessage ==
    ASSUME NEW first, NEW second, NEW cur, Saved(first), Saved(second), Saved(cur),
           NEW ref, ref = create_differential_oracles(first, second),
           compare_states(ref, cur) = {}
    PROVE  Agreement(first, second, cur)
<1> DEFINE Random(t) == HasRandomNames(first.state, second.state, t)
           MASK == SIEVE_LEARN_VALUE_MASK
<1>1. /\ ref.state = second_pass_learn_trim(first.state, second.state)
      /\ ref.controller_family = second.controller_family
  BY DEF create_differential_oracles, canonicalize_state
<1>2. /\ DOMAIN ref.state = DOMAIN first.state
      /\ \A k \in DOMAIN first.state : k \notin DOMAIN second.state => ref.state[k] = MASK
      /\ \A k \in DOMAIN first.state :
           k \in DOMAIN second.state => ref.state[k] = TrimFields(first.state[k], second.state[k])
  BY <1>1, TrimIs
<1>3. \A k \in DOMAIN first.state : ref.state[k] = MASK <=> k \notin DOMAIN second.state
  BY <1>2, MaskAssumption DEF Saved
<1>4. \A t : t \in resource_type_with_random_names(ref) <=> Random(t)
  BY <1>2, <1>3 DEF resource_type_with_random_names, HasRandomNames
<1>5. /\ ObjectMessages(ref, cur) = {} /\ FieldMessages(ref, cur) = {}
      /\ \A t \in resource_type_with_random_names(ref) :
           ~resource_type_should_be_masked_by_controller_config(t) =>
             NumberOf(ref.state, t) = NumberOf(cur.state, t)
  <2>1. ExistenceMessages(ref, cur) = {} /\ FieldMessages(ref, cur) = {}
    BY DEF compare_states
  <2> QED
    BY <2>1 DEF ExistenceMessages
<1>6. \A t : NumberOf(ref.state, t) = NumberOf(first.state, t)
  BY <1>2 DEF NumberOf
<1>7. \A k \in SymDiff(DOMAIN ref.state, DOMAIN cur.state) \ Native :
        ~resource_key_should_be_masked(k, ref, cur) =>
          RType[k] \in resource_type_with_random_names(ref)
  BY <1>5 DEF ObjectMessages
<1> SUFFICES ASSUME NEW k \in Compared(second, cur)
             PROVE  /\ k \in DOMAIN first.state /\ k \in DOMAIN second.state
                       /\ first.state[k] = second.state[k] =>
                         \/ k \notin DOMAIN cur.state /\ Random(RType[k])
                         \/ /\ k \in DOMAIN cur.state
                            /\ SameContents(k, first.state[k], cur.state[k])
                    /\ k \notin DOMAIN first.state \cup DOMAIN second.state
                       /\ k \in DOMAIN cur.state => Random(RType[k])
                    /\ Random(RType[k])
                       /\ ~resource_type_should_be_masked_by_controller_config(RType[k]) =>
                         NumberOf(first.state, RType[k]) = NumberOf(cur.state, RType[k])
  BY DEF Agreement
<1>8. k \in Keys /\ k \notin Native /\ ~resource_key_should_be_masked(k, ref, cur)
  BY <1>1 DEF Compared, resource_key_should_be_masked
<1>9. k \in SymDiff(DOMAIN ref.state, DOMAIN cur.state) => Random(RType[k])
  BY <1>4, <1>7, <1>8
<1>10. ASSUME k \in DOMAIN first.state, k \in DOMAIN second.state, k \in DOMAIN cur.state,
              first.state[k] = second.state[k]
       PROVE  SameContents(k, first.state[k], cur.state[k])
  <2> DEFINE o == first.state[k]
             p == cur.state[k]
  <2>1. ref.state[k] = TrimFields(o, o) /\ ref.state[k] # MASK
    BY <1>2, <1>3, <1>10
  <2>2. DOMAIN ref.state[k] = DOMAIN o /\ \A f \in DOMAIN o : ref.state[k][f] = o[f]
    BY <2>1, TrimFieldsIs
  <2>3. \A f \in DOMAIN o : o[f] # MASK
    BY <1>8, <1>10, MaskAssumption DEF Saved
  <2>4. ASSUME NEW f \in DOMAIN ref.state[k] \cup DOMAIN p,
               f \in DOMAIN ref.state[k] \cap DOMAIN p =>
                 /\ ref.state[k][f] # p[f] /\ ref.state[k][f] # MASK
                 /\ {ref.state[k][f], p[f]} \cap VariableValues = {},
               translated(k, f) \notin FieldMask,
               ~resource_field_path_should_be_masked(k, translated(k, f))
        PROVE  FALSE
    <3>1. <<"field", k, f>> \in FieldMessages(ref, cur)
      BY <1>2, <1>8, <1>10, <2>1, <2>4 DEF FieldMessages
    <3> QED
      BY <1>5, <3>1
  <2>5. \A f : Visible(k, f) => /\ translated(k, f) \notin FieldMask
                                /\ ~resource_field_path_should_be_masked(k, translated(k, f))
    BY DEF Visible, resource_field_path_should_be_masked
  <2> QED
    BY <2>2, <2>3, <2>4, <2>5 DEF SameContents
<1>11. k \in DOMAIN first.state /\ k \notin DOMAIN cur.state => Random(RType[k])
  BY <1>2, <1>9 DEF SymDiff
<1>12. k \notin DOMAIN first.state /\ k \in DOMAIN cur.state => Random(RType[k])
  BY <1>2, <1>9 DEF SymDiff
<1>13. Random(RType[k]) /\ ~resource_type_should_be_masked_by_controller_config(RType[k]) =>
         NumberOf(first.state, RType[k]) = NumberOf(cur.state, RType[k])
  BY <1>4, <1>5, <1>6
<1> HIDE DEF Random
<1> QED
  BY <1>10, <1>11, <1>12, <1>13

\* Whatever is masked on the way, an end state on which nothing is reported agrees with
\* what both learning runs left.
THEOREM AgreementUnlessAlarmEver == Spec => []AgreementUnlessAlarm
<1>1. OracleInv => AgreementUnlessAlarm
  <2> SUFFICES ASSUME OracleInv, errors # NoFile, errors.checked, errors.endState = {}
               PROVE  Agreement(result["first"], result["second"], result["test"])
    BY DEF AgreementUnlessAlarm
  <2>1. phase = "checked" /\ run = "test"
    BY DEF OracleInv, ResultInv, OracleTypes
  <2>2. /\ Saved(result["first"]) /\ Saved(result["second"]) /\ Saved(result["test"])
        /\ oracle = create_differential_oracles(result["first"], result["second"])
        /\ compare_states(oracle, result["test"]) = {}
    BY <2>1 DEF OracleInv, ResultInv
  <2> QED
    BY <2>2, NoMessage
<1> QED
  BY <1>1, OracleInvariance, PTL

-----------------------------------------------------------------------------
(* The controller family: the tainting loop finds the least family that is *)
(* closed under ownership, for every list of events.                       *)

\* The invariant that carries the proof: as long as the pass has added nothing, the
\* events that it has seen have nothing to add.
PassInv ==
    /\ FamilyTypeOK
    /\ pos \in 1..(Len(api_event_list) + 1)
    /\ Seeds(api_event_list) \subseteq controller_related_uid_set
    /\ ~keep_tainting => \A i \in 1..(pos - 1) :
          Added(api_event_list[i], controller_related_uid_set) \subseteq controller_related_uid_set

\* The tagged pods and their owners are uids.
LEMMA SeedsType ==
    ASSUME NEW list \in Seq(TaintEvent)
    PROVE  Seeds(list) \subseteq Uids
  <1>1. \A e \in Events(list) : e.uid \in Uids /\ e.owners \subseteq Uids
    <2> SUFFICES ASSUME NEW i \in DOMAIN list
                 PROVE  list[i].uid \in Uids /\ list[i].owners \subseteq Uids
      BY DEF Events
    <2>1. list[i] \in TaintEvent
      OBVIOUS
    <2> QED
      BY <2>1 DEF TaintEvent
  <1>2. ASSUME NEW u \in Seeds(list)
        PROVE  u \in Uids
    <2>1. PICK e \in Events(list) : u \in {e.uid} \cup e.owners
      BY DEF Seeds
    <2> QED
      BY <1>1, <2>1
  <1> QED
    BY <1>2

\* What an event adds are uids.
LEMMA AddedType ==
    ASSUME NEW e \in TaintEvent, NEW R
    PROVE  Added(e, R) \subseteq Uids
  BY DEF Added, TaintEvent

\* A closed set that contains the related objects contains what an event adds.
LEMMA AddedInClosed ==
    ASSUME NEW list \in Seq(TaintEvent), NEW i \in DOMAIN list,
           NEW S, Closed(S, list), NEW R, R \subseteq S
    PROVE  Added(list[i], R) \subseteq S
  <1>1. list[i] \in Events(list)
    BY DEF Events
  <1> QED
    BY <1>1 DEF Added, Closed

\* The loop keeps its invariant: after FamilyInit, and through every event and every
\* new pass.
THEOREM PassInvariance == FamilySpec => []PassInv
  <1>1. FamilyInit => PassInv
    <2> SUFFICES ASSUME FamilyInit
                 PROVE  PassInv
      OBVIOUS
    <2>1. Seeds(api_event_list) \subseteq Uids
      BY SeedsType DEF FamilyInit
    <2>2. Len(api_event_list) \in Nat
      BY DEF FamilyInit
    <2>3. pos \in 1..(Len(api_event_list) + 1) /\ 1..(pos - 1) = {}
      BY <2>2 DEF FamilyInit
    <2>4. FamilyTypeOK
      BY <2>1 DEF FamilyInit, FamilyTypeOK
    <2> QED
      BY <2>3, <2>4 DEF FamilyInit, PassInv
  <1>2. PassInv /\ [TaintStep \/ NextPass]_familyVars => PassInv'
    <2> SUFFICES ASSUME PassInv, [TaintStep \/ NextPass]_familyVars
                 PROVE  PassInv'
      OBVIOUS
    <2>1. CASE TaintStep
      <3> DEFINE R == controller_related_uid_set
                 e == api_event_list[pos]
      <3>1. PICK new : /\ new = Added(e, R) \ R
                       /\ controller_related_uid_set' = R \cup new
                       /\ keep_tainting' = (keep_tainting \/ new # {})
                       /\ pos' = pos + 1 /\ api_event_list' = api_event_list
                       /\ pos \in DOMAIN api_event_list
        BY <2>1 DEF TaintStep
      <3>2. e \in TaintEvent /\ pos \in 1..Len(api_event_list)
        BY <3>1 DEF PassInv, FamilyTypeOK
      <3>3. new \subseteq Uids
        BY <3>1, <3>2, AddedType
      <3>4. FamilyTypeOK'
        BY <3>1, <3>3 DEF PassInv, FamilyTypeOK
      <3>5. (pos \in 1..(Len(api_event_list) + 1))'
        BY <3>1, <3>2
      <3>6. (Seeds(api_event_list) \subseteq controller_related_uid_set)'
        BY <3>1 DEF PassInv
      <3>7. ASSUME ~keep_tainting', NEW i \in 1..(pos' - 1)
            PROVE  Added(api_event_list[i], controller_related_uid_set')
                     \subseteq controller_related_uid_set'
        <4>1. new = {} /\ ~keep_tainting /\ controller_related_uid_set' = R
          BY <3>1, <3>7
        <4>2. CASE i = pos
          BY <4>1, <4>2, <3>1
        <4>3. CASE i # pos
          <5>1. i \in 1..(pos - 1)
            BY <4>3, <3>1, <3>2
          <5> QED
            BY <5>1, <4>1 DEF PassInv
        <4> QED
          BY <4>2, <4>3
      <3> HIDE DEF R, e
      <3>8. (~keep_tainting => \A i \in 1..(pos - 1) :
               Added(api_event_list[i], controller_related_uid_set)
                 \subseteq controller_related_uid_set)'
        BY <3>7, <3>1
      <3> QED
        BY <3>4, <3>5, <3>6, <3>8 DEF PassInv
    <2>2. CASE NextPass
      <3>1. Len(api_event_list) \in Nat
        BY DEF PassInv, FamilyTypeOK
      <3>2. (pos \in 1..(Len(api_event_list) + 1))' /\ 1..(pos' - 1) = {}
        BY <2>2, <3>1 DEF NextPass
      <3>3. FamilyTypeOK'
        BY <2>2 DEF NextPass, PassInv, FamilyTypeOK
      <3>4. (Seeds(api_event_list) \subseteq controller_related_uid_set)'
        BY <2>2 DEF NextPass, PassInv
      <3> QED
        BY <3>2, <3>3, <3>4 DEF PassInv
    <2>3. CASE UNCHANGED familyVars
      BY <2>3 DEF familyVars, PassInv, FamilyTypeOK
    <2> QED
      BY <2>1, <2>2, <2>3
  <1> QED
    BY <1>1, <1>2, PTL DEF FamilySpec

\* generate_controller_related_list returns a closed family that contains the pods
\* of the controller and their owners, whatever the events and their order are.
THEOREM FamilyClosed == FamilySpec => []FamilyIsClosed
  <1>1. PassInv => FamilyIsClosed
    <2> SUFFICES ASSUME PassInv, pos # 0, Tainted
                 PROVE  /\ Seeds(api_event_list) \subseteq controller_related_uid_set
                        /\ Closed(controller_related_uid_set, api_event_list)
      BY DEF FamilyIsClosed
    <2>1. \A i \in DOMAIN api_event_list :
             Added(api_event_list[i], controller_related_uid_set)
               \subseteq controller_related_uid_set
      BY DEF PassInv, FamilyTypeOK, Tainted
    <2>2. ASSUME NEW i \in DOMAIN api_event_list
          PROVE  LET d == api_event_list[i]
                 IN  /\ d.uid \in controller_related_uid_set
                          => d.owners \subseteq controller_related_uid_set
                     /\ d.owners \cap controller_related_uid_set # {}
                          => d.uid \in controller_related_uid_set
      <3>1. Added(api_event_list[i], controller_related_uid_set)
              \subseteq controller_related_uid_set
        BY <2>1
      <3> QED
        BY <3>1 DEF Added
    <2> QED
      BY <2>2 DEF PassInv, Closed, Events
  <1> QED
    BY <1>1, PassInvariance, PTL

\* It returns no more: the family is in every closed set with the same pods.
THEOREM FamilyLeast == FamilySpec => []FamilyIsLeast
  <1>1. FamilyInit => FamilyIsLeast
    BY DEF FamilyInit, FamilyIsLeast
  <1>2. PassInv /\ FamilyIsLeast /\ [TaintStep \/ NextPass]_familyVars => FamilyIsLeast'
    <2> SUFFICES ASSUME PassInv, FamilyIsLeast, [TaintStep \/ NextPass]_familyVars
                 PROVE  FamilyIsLeast'
      OBVIOUS
    <2>0. api_event_list' = api_event_list
      BY DEF TaintStep, NextPass, familyVars
    <2>1. CASE TaintStep
      <3> SUFFICES ASSUME NEW S \in SUBSET Uids, Seeds(api_event_list) \subseteq S,
                          Closed(S, api_event_list)
                   PROVE  controller_related_uid_set' \subseteq S
        BY <2>0 DEF FamilyIsLeast
      <3>1. controller_related_uid_set \subseteq S
        BY DEF FamilyIsLeast, PassInv
      <3>2. /\ pos \in DOMAIN api_event_list
            /\ controller_related_uid_set' \subseteq controller_related_uid_set
                 \cup Added(api_event_list[pos], controller_related_uid_set)
        BY <2>1 DEF TaintStep
      <3>3. Added(api_event_list[pos], controller_related_uid_set) \subseteq S
        BY <3>1, <3>2, AddedInClosed DEF PassInv, FamilyTypeOK
      <3> QED
        BY <3>1, <3>2, <3>3
    <2>2. CASE NextPass
      BY <2>2 DEF NextPass, FamilyIsLeast, PassInv
    <2>3. CASE UNCHANGED familyVars
      BY <2>3 DEF familyVars, FamilyIsLeast
    <2> QED
      BY <2>1, <2>2, <2>3
  <1> QED
    BY <1>1, <1>2, PassInvariance, PTL DEF FamilySpec
=============
