------------------------- MODULE LearnServerProofs -------------------------
(***************************************************************************)
(* The log of the learn server has the lines of each thread in the order   *)
(* in which it made them, and is one that the analyzer accepts, for any    *)
(* number of reconcilers, informers and calls, any capacity of the         *)
(* channels, with and without rate limiter.                                *)
(***************************************************************************)
EXTENDS LearnServer, SequenceTheorems, FiniteSetTheorems, WellFoundedInduction, TLAPS

-----------------------------------------------------------------------------
(* Induction, and the filter of a queue by thread.                          *)

\* A set with 0 that is closed under successor has all the natural numbers.
LEMMA NatClosed ==
    ASSUME NEW S, 0 \in S, \A n \in Nat : n \in S => n + 1 \in S
    PROVE  \A n \in Nat : n \in S
<1> DEFINE T == {n \in Nat : n \notin S}
           R == {p \in Nat \X Nat : p[1] < p[2]}
<1>1. IsWellFoundedOn(R, Nat)
  BY NatLessThanWellFounded DEF OpToRel
<1>2. SUFFICES ASSUME T # {} PROVE FALSE
  OBVIOUS
<1> HIDE DEF R
<1>3. PICK x \in T : \A y \in T : ~(<<y, x>> \in R)
  BY <1>1, <1>2, WFMin
<1>4. x \in Nat /\ x - 1 \in Nat /\ (x - 1) + 1 = x
  OBVIOUS
<1>5. <<x - 1, x>> \in R
  BY <1>4 DEF R
<1>6. x - 1 \in S
  BY <1>3, <1>4, <1>5
<1> QED
  BY <1>4, <1>6

\* What the recursive function of Of(q, t) is, as far as position n.
Scan(f, q, t, n) ==
    f = [i \in 0 .. n |->
           IF i = 0 THEN <<>>
           ELSE IF q[i].thread = t THEN Append(f[i - 1], q[i]) ELSE f[i - 1]]

\* Scan without the equality of functions.
LEMMA ScanSteps ==
    ASSUME NEW f, NEW q, NEW t, NEW n \in Nat, Scan(f, q, t, n)
    PROVE  /\ f[0] = <<>>
           /\ \A i \in 0 .. (n - 1) :
                f[i + 1] = IF q[i + 1].thread = t THEN Append(f[i], q[i + 1]) ELSE f[i]
<1>1. \A i \in 0 .. n : f[i] = IF i = 0 THEN <<>>
           ELSE IF q[i].thread = t THEN Append(f[i - 1], q[i]) ELSE f[i - 1]
  BY DEF Scan
<1>2. ASSUME NEW i \in 0 .. (n - 1)
      PROVE  f[i + 1] = IF q[i + 1].thread = t THEN Append(f[i], q[i + 1]) ELSE f[i]
  <2>1. i + 1 \in 0 .. n /\ i + 1 # 0 /\ (i + 1) - 1 = i
    OBVIOUS
  <2> QED
    BY <1>1, <2>1
<1> QED
  BY <1>1, <1>2

\* The recursive function that filters a queue exists.
LEMMA ScanExists ==
    ASSUME NEW q, NEW t
    PROVE  \A n \in Nat : \E f : Scan(f, q, t, n)
<1> DEFINE S == {n \in Nat : \E f : Scan(f, q, t, n)}
<1>1. 0 \in S
  <2> DEFINE f == [i \in 0 .. 0 |-> <<>>]
  <2>1. Scan(f, q, t, 0)
    BY DEF Scan
  <2> QED
    BY <2>1
<1>2. ASSUME NEW n \in Nat, n \in S
      PROVE  n + 1 \in S
  <2>1. PICK f : Scan(f, q, t, n)
    BY <1>2
  <2> DEFINE next == IF q[n + 1].thread = t THEN Append(f[n], q[n + 1]) ELSE f[n]
             g == [i \in 0 .. (n + 1) |-> IF i = n + 1 THEN next ELSE f[i]]
             body(i) == IF i = 0 THEN <<>>
                        ELSE IF q[i].thread = t THEN Append(g[i - 1], q[i]) ELSE g[i - 1]
  <2>2. \A i \in 0 .. n : f[i] = IF i = 0 THEN <<>>
             ELSE IF q[i].thread = t THEN Append(f[i - 1], q[i]) ELSE f[i - 1]
    BY <2>1 DEF Scan
  <2>3. \A i \in 0 .. n : g[i] = f[i]
    OBVIOUS
  <2>4. g[n + 1] = next
    OBVIOUS
  <2>g. g = [i \in 0 .. (n + 1) |-> g[i]]
    OBVIOUS
  <2> HIDE DEF g
  <2>5. ASSUME NEW i \in 0 .. (n + 1)
        PROVE  g[i] = body(i)
    <3>1. CASE i = n + 1
      <4>1. i # 0 /\ i - 1 = n /\ n \in 0 .. n
        BY <3>1
      <4> QED
        BY <2>3, <2>4, <3>1, <4>1
    <3>2. CASE i # n + 1
      <4>1. i \in 0 .. n
        BY <3>2
      <4>2. i # 0 => i - 1 \in 0 .. n
        BY <4>1
      <4> QED
        BY <2>2, <2>3, <4>1, <4>2
    <3> QED
      BY <3>1, <3>2
  <2>6. g = [i \in 0 .. (n + 1) |-> body(i)]
    BY <2>5, <2>g
  <2>7. Scan(g, q, t, n + 1)
    BY <2>6 DEF Scan
  <2> QED
    BY <2>7
<1> HIDE DEF S
<1>3. \A n \in Nat : n \in S
  BY <1>1, <1>2, NatClosed
<1> QED
  BY <1>3 DEF S

\* Of(q, t) is the last value of a scan.
LEMMA OfScan ==
    ASSUME NEW q, NEW t, Len(q) \in Nat
    PROVE  \E f : Scan(f, q, t, Len(q)) /\ Of(q, t) = f[Len(q)]
<1>1. Of(q, t) = (CHOOSE f : Scan(f, q, t, Len(q)))[Len(q)]
  BY DEF Of, Scan
<1>2. \E f : Scan(f, q, t, Len(q))
  BY ScanExists
<1> QED
  BY <1>1, <1>2

\* Nothing of a thread is in an empty queue.
LEMMA OfEmpty ==
    ASSUME NEW t
    PROVE  Of(<<>>, t) = <<>>
<1>1. PICK f : Scan(f, <<>>, t, Len(<<>>)) /\ Of(<<>>, t) = f[Len(<<>>)]
  BY OfScan
<1> QED
  BY <1>1, ScanSteps

\* The elements of Of(q, t) are of q, and of thread t.
LEMMA OfType ==
    ASSUME NEW N, NEW q \in Seq(N), NEW t
    PROVE  Of(q, t) \in Seq({n \in N : n.thread = t})
<1> DEFINE M == {n \in N : n.thread = t}
<1>1. PICK f : Scan(f, q, t, Len(q)) /\ Of(q, t) = f[Len(q)]
  BY OfScan
<1>2. /\ f[0] = <<>>
      /\ \A i \in 0 .. (Len(q) - 1) :
           f[i + 1] = IF q[i + 1].thread = t THEN Append(f[i], q[i + 1]) ELSE f[i]
  BY <1>1, ScanSteps
<1> DEFINE S == {i \in Nat : i <= Len(q) => f[i] \in Seq(M)}
<1>3. 0 \in S
  <2>1. f[0] \in Seq(M)
    BY <1>2, EmptySeq
  <2> QED
    BY <2>1
<1>4. ASSUME NEW i \in Nat, i \in S
      PROVE  i + 1 \in S
  <2>1. SUFFICES ASSUME i + 1 <= Len(q) PROVE f[i + 1] \in Seq(M)
    OBVIOUS
  <2>2. i \in 0 .. (Len(q) - 1) /\ f[i] \in Seq(M) /\ q[i + 1] \in N
    BY <1>4, <2>1
  <2>3. q[i + 1].thread = t => q[i + 1] \in M
    BY <2>2
  <2> HIDE DEF M
  <2>4. q[i + 1] \in M => Append(f[i], q[i + 1]) \in Seq(M)
    BY <2>2, AppendProperties
  <2>5. f[i + 1] = IF q[i + 1].thread = t THEN Append(f[i], q[i + 1]) ELSE f[i]
    BY <1>2, <2>2
  <2>6. CASE q[i + 1].thread = t
    BY <2>3, <2>4, <2>5, <2>6
  <2>7. CASE q[i + 1].thread # t
    BY <2>2, <2>5, <2>7
  <2> QED
    BY <2>6, <2>7
<1> HIDE DEF S
<1>5. Len(q) \in S
  BY <1>3, <1>4, NatClosed
<1> QED
  BY <1>1, <1>5 DEF S

\* Of a queue with one more notification at its end.
LEMMA OfAppend ==
    ASSUME NEW N, NEW q \in Seq(N), NEW n \in N, NEW t
    PROVE  Of(Append(q, n), t) = IF n.thread = t THEN Append(Of(q, t), n) ELSE Of(q, t)
<1> DEFINE r == Append(q, n)
<1>1. /\ Len(q) \in Nat /\ Len(r) = Len(q) + 1 /\ r[Len(q) + 1] = n
      /\ \A i \in 1 .. Len(q) : r[i] = q[i]
  OBVIOUS
<1> HIDE DEF r
<1>2. PICK f : Scan(f, q, t, Len(q)) /\ Of(q, t) = f[Len(q)]
  BY <1>1, OfScan
<1>3. PICK g : Scan(g, r, t, Len(r)) /\ Of(r, t) = g[Len(r)]
  BY <1>1, OfScan
<1>4. /\ f[0] = <<>>
      /\ \A i \in 0 .. (Len(q) - 1) :
           f[i + 1] = IF q[i + 1].thread = t THEN Append(f[i], q[i + 1]) ELSE f[i]
  BY <1>1, <1>2, ScanSteps
<1>5. /\ g[0] = <<>>
      /\ \A i \in 0 .. Len(q) :
           g[i + 1] = IF r[i + 1].thread = t THEN Append(g[i], r[i + 1]) ELSE g[i]
  BY <1>1, <1>3, ScanSteps
<1> DEFINE S == {i \in Nat : i <= Len(q) => f[i] = g[i]}
<1>6. 0 \in S
  BY <1>4, <1>5
<1>7. ASSUME NEW i \in Nat, i \in S
      PROVE  i + 1 \in S
  <2>1. SUFFICES ASSUME i + 1 <= Len(q) PROVE f[i + 1] = g[i + 1]
    OBVIOUS
  <2>2. i \in 0 .. (Len(q) - 1) /\ i \in 0 .. Len(q) /\ f[i] = g[i] /\ r[i + 1] = q[i + 1]
    BY <1>1, <1>7, <2>1
  <2> QED
    BY <1>4, <1>5, <2>2
<1> HIDE DEF S
<1>8. Len(q) \in S
  BY <1>1, <1>6, <1>7, NatClosed
<1>9. f[Len(q)] = g[Len(q)]
  BY <1>1, <1>8 DEF S
<1> QED
  BY <1>1, <1>2, <1>3, <1>5, <1>9 DEF r

\* Of a queue and its first notification.
LEMMA OfTail ==
    ASSUME NEW N, NEW q \in Seq(N), q # <<>>, NEW t
    PROVE  Of(q, t) = (IF Head(q).thread = t THEN <<Head(q)>> ELSE <<>>) \o Of(Tail(q), t)
<1> DEFINE r == Tail(q)
           h == IF Head(q).thread = t THEN <<Head(q)>> ELSE <<>>
<1>1. /\ Len(q) \in Nat \ {0} /\ r \in Seq(N) /\ Len(r) = Len(q) - 1 /\ Head(q) = q[1]
      /\ \A i \in 1 .. Len(r) : r[i] = q[i + 1]
      /\ Head(q) \in N
  OBVIOUS
<1>h. h \in Seq(N)
  BY <1>1
<1> HIDE DEF r
<1>2. PICK f : Scan(f, q, t, Len(q)) /\ Of(q, t) = f[Len(q)]
  BY <1>1, OfScan
<1>3. PICK g : Scan(g, r, t, Len(r)) /\ Of(r, t) = g[Len(r)]
  BY <1>1, OfScan
<1>4. /\ f[0] = <<>>
      /\ \A i \in 0 .. (Len(q) - 1) :
           f[i + 1] = IF q[i + 1].thread = t THEN Append(f[i], q[i + 1]) ELSE f[i]
  BY <1>1, <1>2, ScanSteps
<1>5. /\ g[0] = <<>>
      /\ \A i \in 0 .. (Len(r) - 1) :
           g[i + 1] = IF r[i + 1].thread = t THEN Append(g[i], r[i + 1]) ELSE g[i]
  BY <1>1, <1>3, ScanSteps
<1> DEFINE S == {i \in Nat : i <= Len(r) => g[i] \in Seq(N) /\ f[i + 1] = h \o g[i]}
<1>6. 0 \in S
  <2>1. 0 \in 0 .. (Len(q) - 1) /\ 0 + 1 = 1
    BY <1>1
  <2>2. f[1] = IF q[1].thread = t THEN Append(f[0], q[1]) ELSE f[0]
    BY <1>4, <2>1
  <2>3. f[1] = h
    BY <1>1, <1>4, <2>2
  <2>4. h \o <<>> = h
    BY <1>h, ConcatEmptySeq
  <2> HIDE DEF h
  <2>5. g[0] \in Seq(N) /\ f[0 + 1] = h \o g[0]
    BY <1>5, <2>1, <2>3, <2>4, EmptySeq
  <2> QED
    BY <2>5
<1>7. ASSUME NEW i \in Nat, i \in S
      PROVE  i + 1 \in S
  <2> HIDE DEF h
  <2>1. SUFFICES ASSUME i + 1 <= Len(r)
                 PROVE  g[i + 1] \in Seq(N) /\ f[(i + 1) + 1] = h \o g[i + 1]
    OBVIOUS
  <2>2. /\ i \in 0 .. (Len(r) - 1) /\ i + 1 \in 0 .. (Len(q) - 1)
        /\ g[i] \in Seq(N) /\ f[i + 1] = h \o g[i] /\ r[i + 1] = q[(i + 1) + 1]
        /\ r[i + 1] \in N
    BY <1>1, <1>7, <2>1
  <2>3. f[(i + 1) + 1] = IF r[i + 1].thread = t THEN Append(h \o g[i], r[i + 1]) ELSE h \o g[i]
    BY <1>4, <2>2
  <2>4. g[i + 1] = IF r[i + 1].thread = t THEN Append(g[i], r[i + 1]) ELSE g[i]
    BY <1>5, <2>2
  <2>5. Append(h \o g[i], r[i + 1]) = h \o Append(g[i], r[i + 1])
    <3>1. \A u \in Seq(N), n \in N : Append(h \o u, n) = h \o Append(u, n)
      <4> TAKE u \in Seq(N), n \in N
      <4>1. Append(h \o u, n) = (h \o u) \o <<n>>
        BY <1>h, AppendIsConcat, ConcatProperties
      <4>2. Append(u, n) = u \o <<n>>
        BY AppendIsConcat
      <4>3. (h \o u) \o <<n>> = h \o (u \o <<n>>)
        BY <1>h, ConcatAssociative
      <4> QED
        BY <4>1, <4>2, <4>3
    <3> QED
      BY <2>2, <3>1
  <2>6. Append(g[i], r[i + 1]) \in Seq(N)
    BY <2>2, AppendProperties
  <2>7. CASE r[i + 1].thread = t
    BY <2>3, <2>4, <2>5, <2>6, <2>7
  <2>8. CASE r[i + 1].thread # t
    BY <2>2, <2>3, <2>4, <2>8
  <2> QED
    BY <2>7, <2>8
<1> HIDE DEF S, h
<1>8. Len(r) \in S
  BY <1>1, <1>6, <1>7, NatClosed
<1>9. f[Len(r) + 1] = h \o g[Len(r)]
  BY <1>1, <1>8 DEF S
<1>10. Of(q, t) = h \o Of(r, t)
  BY <1>1, <1>2, <1>3, <1>9
<1> QED
  BY <1>10 DEF r, h

-----------------------------------------------------------------------------
(* The lines that are still to be written.                                  *)

\* The events in rateLimitedEventCh are notifications.
LEMMA EventsAreNotifications == Events \subseteq Notifications
BY DEF Events, Notifications, Kinds, Threads

\* The parts of what a thread has still to write are sequences of its notifications.
LEMMA PendingParts ==
    ASSUME TypeOK, NEW t \in Threads
    PROVE  /\ Of(rateLimitedEventCh, t) \in Seq({n \in Events : n.thread = t})
           /\ Of(rateLimitedEventCh, t) \in Seq(Notifications)
           /\ Of(pushing, t) \in Seq(Notifications)
           /\ Of(notificationCh, t) \in Seq({n \in Notifications : n.thread = t})
           /\ Of(notificationCh, t) \in Seq(Notifications)
           /\ Unsent(t) \in Seq(Notifications)
<1>1. /\ Of(rateLimitedEventCh, t) \in Seq({n \in Events : n.thread = t})
      /\ Of(pushing, t) \in Seq({n \in Events : n.thread = t})
      /\ Of(notificationCh, t) \in Seq({n \in Notifications : n.thread = t})
  BY OfType DEF TypeOK
<1>2. /\ {n \in Events : n.thread = t} \subseteq Notifications
      /\ {n \in Notifications : n.thread = t} \subseteq Notifications
  BY EventsAreNotifications
<1>3. Unsent(t) \in Seq(Notifications)
  BY DEF TypeOK, Unsent
<1> QED
  BY <1>1, <1>2, <1>3, SeqMonotonic

\* Positions in a concatenation d.
Parts(d, N, l, a, b, c, e) ==
    /\ d \in Seq(N)
    /\ Len(d) = Len(l) + Len(a) + Len(b) + Len(c) + Len(e)
    /\ \A i \in 1 .. Len(l) : d[i] = l[i]
    /\ a # <<>> => d[Len(l) + 1] = a[1] /\ Len(a) >= 1
    /\ a = <<>> /\ b = <<>> /\ c # <<>> => d[Len(l) + 1] = c[1] /\ Len(c) >= 1

\* What a thread did, taken apart into the log and the four queues.
LEMMA FourParts ==
    ASSUME NEW N, NEW l \in Seq(N), NEW a \in Seq(N), NEW b \in Seq(N), NEW c \in Seq(N),
           NEW e \in Seq(N)
    PROVE  Parts(l \o (a \o (b \o (c \o e))), N, l, a, b, c, e)
<1> DEFINE d == l \o (a \o (b \o (c \o e)))
<1>1. c \o e \in Seq(N) /\ Len(c \o e) = Len(c) + Len(e)
      /\ \A i \in 1 .. Len(c) : (c \o e)[i] = c[i]
  BY ConcatProperties
<1>2. b \o (c \o e) \in Seq(N) /\ Len(b \o (c \o e)) = Len(b) + Len(c) + Len(e)
  BY <1>1, ConcatProperties
<1>3. /\ a \o (b \o (c \o e)) \in Seq(N)
      /\ Len(a \o (b \o (c \o e))) = Len(a) + Len(b) + Len(c) + Len(e)
      /\ \A i \in 1 .. Len(a) : (a \o (b \o (c \o e)))[i] = a[i]
  BY <1>2, ConcatProperties
<1>4. /\ d \in Seq(N) /\ Len(d) = Len(l) + Len(a) + Len(b) + Len(c) + Len(e)
      /\ \A i \in 1 .. Len(l) : d[i] = l[i]
      /\ \A i \in 1 .. (Len(a) + Len(b) + Len(c) + Len(e)) :
           d[Len(l) + i] = (a \o (b \o (c \o e)))[i]
  <2> DEFINE r == a \o (b \o (c \o e))
  <2>0. r \in Seq(N)
    BY <1>3
  <2>1. Len(r) = Len(a) + Len(b) + Len(c) + Len(e)
    BY <1>3
  <2> HIDE DEF r
  <2>2. /\ l \o r \in Seq(N) /\ Len(l \o r) = Len(l) + Len(r)
        /\ \A i \in 1 .. Len(l) : (l \o r)[i] = l[i]
    BY <2>0, ConcatProperties
  <2>3. ASSUME NEW i \in 1 .. Len(r)
        PROVE  (l \o r)[Len(l) + i] = r[i]
    <3>1. /\ Len(l) \in Nat /\ Len(r) \in Nat
          /\ Len(l) + i \in 1 .. (Len(l) + Len(r)) /\ Len(l) + i > Len(l)
          /\ (Len(l) + i) - Len(l) = i
      BY <2>0, LenProperties
    <3> QED
      BY <2>0, <3>1, ConcatProperties
  <2>4. d = l \o r
    BY DEF r
  <2> HIDE DEF d
  <2>5. /\ d \in Seq(N) /\ Len(d) = Len(l) + (Len(a) + Len(b) + Len(c) + Len(e))
        /\ \A i \in 1 .. Len(l) : d[i] = l[i]
        /\ \A i \in 1 .. (Len(a) + Len(b) + Len(c) + Len(e)) : d[Len(l) + i] = r[i]
    BY <2>1, <2>2, <2>3, <2>4
  <2>6. Len(d) = Len(l) + Len(a) + Len(b) + Len(c) + Len(e)
    BY <2>5, LenProperties
  <2> QED
    BY <2>5, <2>6 DEF r
<1> HIDE DEF d
<1>5. Len(l) \in Nat /\ Len(a) \in Nat /\ Len(b) \in Nat /\ Len(c) \in Nat /\ Len(e) \in Nat
  BY LenProperties
<1>6. a # <<>> => d[Len(l) + 1] = a[1] /\ Len(a) >= 1
  <2> SUFFICES ASSUME a # <<>> PROVE d[Len(l) + 1] = a[1] /\ Len(a) >= 1
    OBVIOUS
  <2>1. Len(a) >= 1
    BY <1>5, EmptySeq
  <2> QED
    BY <1>3, <1>4, <1>5, <2>1
<1>7. a = <<>> /\ b = <<>> /\ c # <<>> => d[Len(l) + 1] = c[1] /\ Len(c) >= 1
  <2> SUFFICES ASSUME a = <<>>, b = <<>>, c # <<>>
               PROVE  d[Len(l) + 1] = c[1] /\ Len(c) >= 1
    OBVIOUS
  <2>1. Len(c) >= 1
    BY <1>5, EmptySeq
  <2>2. a \o (b \o (c \o e)) = c \o e
    BY <1>1, ConcatEmptySeq
  <2> QED
    BY <1>1, <1>4, <1>5, <2>1, <2>2
<1> QED
  BY <1>4, <1>6, <1>7 DEF d, Parts

\* What is known of the lines of a thread by their positions.
LEMMA DidAndLogged ==
    ASSUME IndInv, NEW t \in Threads
    PROVE  /\ did[t] \in Seq(Notifications) /\ logged[t] \in Seq(Notifications)
           /\ Len(did[t]) = Len(logged[t]) + Len(Of(rateLimitedEventCh, t))
                + Len(Of(pushing, t)) + Len(Of(notificationCh, t)) + Len(Unsent(t))
           /\ \A i \in 1 .. Len(logged[t]) : did[t][i] = logged[t][i]
           /\ Of(rateLimitedEventCh, t) # <<>> =>
                /\ did[t][Len(logged[t]) + 1] = Of(rateLimitedEventCh, t)[1]
                /\ Len(Of(rateLimitedEventCh, t)) >= 1
           /\ Of(rateLimitedEventCh, t) = <<>> /\ Of(pushing, t) = <<>>
              /\ Of(notificationCh, t) # <<>> =>
                /\ did[t][Len(logged[t]) + 1] = Of(notificationCh, t)[1]
                /\ Len(Of(notificationCh, t)) >= 1
<1>1. logged[t] \in Seq(Notifications)
  BY DEF IndInv, TypeOK
<1>2. did[t] = logged[t] \o (Of(rateLimitedEventCh, t) \o (Of(pushing, t)
                               \o (Of(notificationCh, t) \o Unsent(t))))
  BY DEF IndInv, LogFollowsProgramOrder, Pending
<1> DEFINE a == Of(rateLimitedEventCh, t)
           b == Of(pushing, t)
           c == Of(notificationCh, t)
           e == Unsent(t)
<1>3. a \in Seq(Notifications) /\ b \in Seq(Notifications) /\ c \in Seq(Notifications)
      /\ e \in Seq(Notifications)
  BY PendingParts DEF IndInv
<1>4. did[t] = logged[t] \o (a \o (b \o (c \o e)))
  BY <1>2
<1> DEFINE l == logged[t]
           d == did[t]
<1>l. l \in Seq(Notifications) /\ d = l \o (a \o (b \o (c \o e)))
  BY <1>1, <1>4
<1> HIDE DEF a, b, c, e, l, d
<1>d. Parts(l \o (a \o (b \o (c \o e))), Notifications, l, a, b, c, e)
  BY <1>3, <1>l, FourParts
<1>5. /\ did[t] \in Seq(Notifications)
      /\ Len(did[t]) = Len(logged[t]) + Len(a) + Len(b) + Len(c) + Len(e)
      /\ \A i \in 1 .. Len(logged[t]) : did[t][i] = logged[t][i]
      /\ a # <<>> => did[t][Len(logged[t]) + 1] = a[1] /\ Len(a) >= 1
      /\ a = <<>> /\ b = <<>> /\ c # <<>> =>
           did[t][Len(logged[t]) + 1] = c[1] /\ Len(c) >= 1
  BY <1>l, <1>d DEF l, d, Parts
<1> QED
  BY <1>1, <1>5 DEF a, b, c, e

\* A line before an operation that is not written is the last one of its thread.
LEMMA PendingBefore ==
    ASSUME IndInv, NEW t \in Threads, Len(logged[t]) < Len(did[t]),
           did[t][Len(logged[t]) + 1].side = "before"
    PROVE  Len(did[t]) = Len(logged[t]) + 1 /\ pc[t] \in {"send", "wait"}
           /\ req[t] = did[t][Len(logged[t]) + 1]
<1>1. did[t] \in Seq(Notifications) /\ logged[t] \in Seq(Notifications)
  BY DEF IndInv, TypeOK
<1>2. Len(logged[t]) + 1 \in DOMAIN did[t]
  BY <1>1
<1>3. Len(logged[t]) + 1 = Len(did[t]) /\ pc[t] \in {"send", "wait"}
  BY <1>1, <1>2 DEF IndInv, ThreadInv
<1> QED
  BY <1>3 DEF IndInv, ThreadInv

\* How many lines there are still to be written, from what is in the queues.
LEMMA PendingLengths ==
    ASSUME IndInv, NEW t \in Threads
    PROVE  /\ Len(logged[t]) \in Nat /\ Len(did[t]) \in Nat
           /\ Of(rateLimitedEventCh, t) # <<>> =>
                /\ Len(logged[t]) < Len(did[t])
                /\ Len(did[t]) = Len(logged[t]) + 1 =>
                     Of(notificationCh, t) = <<>> /\ Unsent(t) = <<>>
           /\ Of(notificationCh, t) # <<>> =>
                /\ Len(logged[t]) < Len(did[t])
                /\ Len(did[t]) = Len(logged[t]) + 1 => Unsent(t) = <<>>
<1> DEFINE l == Len(logged[t])
           d == Len(did[t])
           a == Len(Of(rateLimitedEventCh, t))
           b == Len(Of(pushing, t))
           c == Len(Of(notificationCh, t))
           e == Len(Unsent(t))
<1>1. d = l + a + b + c + e
  BY DidAndLogged
<1>2. l \in Nat /\ d \in Nat /\ a \in Nat /\ b \in Nat /\ c \in Nat /\ e \in Nat
  BY DidAndLogged, PendingParts, LenProperties DEF IndInv
<1>3. /\ Of(rateLimitedEventCh, t) = <<>> <=> a = 0
      /\ Of(notificationCh, t) = <<>> <=> c = 0
      /\ Unsent(t) = <<>> <=> e = 0
  BY PendingParts, EmptySeq DEF IndInv
<1>4. /\ a # 0 => l < d /\ (d = l + 1 => c = 0 /\ e = 0)
      /\ c # 0 => l < d /\ (d = l + 1 => e = 0)
  <2> HIDE DEF l, d, a, b, c, e
  <2> QED
    BY <1>1, <1>2
<1> QED
  BY <1>2, <1>3, <1>4

\* The notification that coordinatingEvents takes is the next line of its thread.
LEMMA HeadIsNext ==
    ASSUME IndInv, pushing = <<>>, notificationCh # <<>>
    PROVE  LET n == Head(notificationCh)
               t == n.thread
           IN  /\ n \in Notifications /\ t \in Threads
               /\ Of(rateLimitedEventCh, t) = <<>>
               /\ Of(pushing, t) = <<>>
               /\ Of(notificationCh, t) = <<n>> \o Of(Tail(notificationCh), t)
               /\ Len(logged[t]) < Len(did[t]) /\ did[t][Len(logged[t]) + 1] = n
               /\ n.side = "before" => pc[t] = "wait" /\ req[t] = n
                                       /\ Len(did[t]) = Len(logged[t]) + 1
<1> DEFINE n == Head(notificationCh)
           t == n.thread
           R == Of(rateLimitedEventCh, t)
           Q == Of(notificationCh, t)
<1>1. /\ n \in Notifications /\ t \in Threads
      /\ notificationCh \in Seq(Notifications)
  <2>1. notificationCh \in Seq(Notifications)
    BY DEF IndInv, TypeOK
  <2>2. n \in Notifications
    BY <2>1
  <2> QED
    BY <2>1, <2>2 DEF Notifications
<1>2. Q = <<n>> \o Of(Tail(notificationCh), t)
  BY <1>1, OfTail
<1>3. Of(Tail(notificationCh), t) \in Seq(Notifications) /\ Q \in Seq(Notifications)
  <2>1. Tail(notificationCh) \in Seq(Notifications)
    BY <1>1
  <2>2. Of(Tail(notificationCh), t) \in Seq({m \in Notifications : m.thread = t})
        /\ Of(notificationCh, t) \in Seq({m \in Notifications : m.thread = t})
    BY <1>1, <2>1, OfType
  <2> QED
    BY <2>2, SeqMonotonic
<1>4. Q[1] = n /\ Len(Q) >= 1 /\ Q # <<>>
  <2> DEFINE q == Of(Tail(notificationCh), t)
  <2>1. <<n>> \in Seq(Notifications) /\ Len(<<n>>) = 1 /\ <<n>>[1] = n
    BY <1>1
  <2> HIDE DEF q, n, Q
  <2>2. Q = <<n>> \o q /\ q \in Seq(Notifications)
    BY <1>2, <1>3 DEF q
  <2> QED
    BY <2>1, <2>2, ConcatProperties
<1>5. Of(pushing, t) = <<>>
  BY OfEmpty
<1>6. R = <<>>
  <2> SUFFICES ASSUME R # <<>> PROVE FALSE
    OBVIOUS
  <2>1. did[t][Len(logged[t]) + 1] = R[1] /\ Len(R) >= 1
    BY <1>1, DidAndLogged
  <2>2. R \in Seq({m \in Events : m.thread = t})
    BY <1>1, PendingParts DEF IndInv
  <2>3. R[1].side = "before"
    BY <2>1, <2>2 DEF Events
  <2>4. Len(logged[t]) < Len(did[t])
    BY <1>1, PendingLengths
  <2>5. Len(did[t]) = Len(logged[t]) + 1
    BY <1>1, <2>1, <2>3, <2>4, PendingBefore
  <2> QED
    BY <1>1, <1>4, <2>5, PendingLengths
<1>7. did[t][Len(logged[t]) + 1] = n
  BY <1>1, <1>4, <1>5, <1>6, DidAndLogged
<1>9. Len(logged[t]) < Len(did[t])
  BY <1>1, <1>4, PendingLengths
<1>10. ASSUME n.side = "before"
       PROVE  pc[t] = "wait" /\ req[t] = n /\ Len(did[t]) = Len(logged[t]) + 1
  <2>1. Len(did[t]) = Len(logged[t]) + 1 /\ pc[t] \in {"send", "wait"} /\ req[t] = n
    BY <1>1, <1>7, <1>9, <1>10, PendingBefore
  <2>2. Unsent(t) = <<>>
    BY <1>1, <1>4, <2>1, PendingLengths
  <2>3. pc[t] # "send"
    BY <2>2 DEF Unsent
  <2> QED
    BY <2>1, <2>3
<1> QED
  BY <1>1, <1>2, <1>5, <1>6, <1>7, <1>9, <1>10

\* So is the event that is polled, and nothing of its thread is behind it.
LEMMA PolledIsNext ==
    ASSUME IndInv, rateLimitedEventCh # <<>>
    PROVE  LET n == Head(rateLimitedEventCh)
               t == n.thread
           IN  /\ n \in Events /\ n \in Notifications /\ t \in Receivers /\ t \in Threads
               /\ Of(rateLimitedEventCh, t) = <<n>> \o Of(Tail(rateLimitedEventCh), t)
               /\ did[t][Len(logged[t]) + 1] = n /\ Len(did[t]) = Len(logged[t]) + 1
               /\ pc[t] = "wait" /\ req[t] = n
<1> DEFINE n == Head(rateLimitedEventCh)
           t == n.thread
           R == Of(rateLimitedEventCh, t)
<1>1. /\ n \in Events /\ n \in Notifications /\ t \in Receivers /\ t \in Threads
      /\ n.side = "before" /\ rateLimitedEventCh \in Seq(Events)
  <2>1. rateLimitedEventCh \in Seq(Events)
    BY DEF IndInv, TypeOK
  <2>2. n \in Events
    BY <2>1
  <2> QED
    BY <2>1, <2>2, EventsAreNotifications DEF Events, Threads
<1>2. R = <<n>> \o Of(Tail(rateLimitedEventCh), t)
  BY <1>1, OfTail
<1>3. R[1] = n /\ Len(R) >= 1 /\ R # <<>>
  <2> DEFINE q == Of(Tail(rateLimitedEventCh), t)
             E == {m \in Events : m.thread = t}
  <2>1. Tail(rateLimitedEventCh) \in Seq(Events)
    BY <1>1
  <2>2. q \in Seq(E)
    BY <2>1, OfType
  <2>3. <<n>> \in Seq(E) /\ Len(<<n>>) = 1 /\ <<n>>[1] = n
    BY <1>1
  <2> HIDE DEF q, n, R, E
  <2>4. R = <<n>> \o q
    BY <1>2 DEF q
  <2> QED
    BY <2>2, <2>3, <2>4, ConcatProperties
<1>4. did[t][Len(logged[t]) + 1] = n
  BY <1>1, <1>3, DidAndLogged
<1>6. Len(logged[t]) < Len(did[t])
  BY <1>1, <1>3, PendingLengths
<1>7. Len(did[t]) = Len(logged[t]) + 1 /\ pc[t] \in {"send", "wait"} /\ req[t] = n
  BY <1>1, <1>4, <1>6, PendingBefore
<1>8. Unsent(t) = <<>>
  BY <1>1, <1>3, <1>7, PendingLengths
<1>9. pc[t] # "send"
  BY <1>8 DEF Unsent
<1> QED
  BY <1>1, <1>2, <1>4, <1>7, <1>9

\* The channel that is stored for the ID of an operation is that of its thread.
LEMMA WaiterIsThread ==
    ASSUME IndInv, NEW t \in Threads, NEW n, Len(logged[t]) < Len(did[t]),
           did[t][Len(logged[t]) + 1] = n, IsOperation(n), n.side = "before"
    PROVE  WaiterOf(n) = t
<1>1. Len(logged[t]) + 1 \in DOMAIN did[t]
  BY DEF IndInv, TypeOK
<1>2. GoodLine(t, Len(logged[t]) + 1)
  BY <1>1 DEF IndInv, GoodLines
<1> QED
  BY <1>2 DEF GoodLine, WaiterOf

-----------------------------------------------------------------------------
(* Counting the lines of the reconciles.                                    *)

Count(s, side) == Cardinality(Lines(s, "reconcile", side))

\* A sequence has finitely many lines of a side.
LEMMA LinesFinite ==
    ASSUME NEW s \in Seq(Notifications), NEW side
    PROVE  IsFiniteSet(Lines(s, "reconcile", side)) /\ Count(s, side) \in Nat
<1>1. Len(s) \in Nat /\ Lines(s, "reconcile", side) \subseteq 1 .. Len(s)
  BY DEF Lines
<1>2. IsFiniteSet(1 .. Len(s))
  BY <1>1, FS_Interval
<1> QED
  BY <1>1, <1>2, FS_Subset, FS_CardinalityType DEF Count

\* One more line.
LEMMA CountAppend ==
    ASSUME NEW s \in Seq(Notifications), NEW n \in Notifications, NEW side
    PROVE  Count(Append(s, n), side) =
             Count(s, side) + (IF n.kind = "reconcile" /\ n.side = side THEN 1 ELSE 0)
<1> DEFINE r == Append(s, n)
           A == Lines(s, "reconcile", side)
           B == Lines(r, "reconcile", side)
<1>1. /\ Len(s) \in Nat /\ DOMAIN s = 1 .. Len(s) /\ DOMAIN r = 1 .. (Len(s) + 1)
      /\ r[Len(s) + 1] = n /\ \A i \in 1 .. Len(s) : r[i] = s[i]
  OBVIOUS
<1>2. IsFiniteSet(A) /\ Cardinality(A) \in Nat /\ Len(s) + 1 \notin A
  <2>1. IsFiniteSet(A) /\ Cardinality(A) \in Nat
    BY LinesFinite DEF Count
  <2>2. Len(s) + 1 \notin A
    BY <1>1 DEF Lines
  <2> QED
    BY <2>1, <2>2
<1> HIDE DEF r
<1>3. CASE n.kind = "reconcile" /\ n.side = side
  <2>1. B = A \cup {Len(s) + 1}
    BY <1>1, <1>3 DEF Lines
  <2> HIDE DEF A, B
  <2>2. Cardinality(B) = Cardinality(A) + 1
    BY <1>2, <2>1, FS_AddElement
  <2> QED
    BY <1>3, <2>2 DEF A, B, Count, r
<1>4. CASE ~(n.kind = "reconcile" /\ n.side = side)
  <2>1. B = A
    BY <1>1, <1>4 DEF Lines
  <2> QED
    BY <1>2, <1>4, <2>1 DEF Count, r
<1> QED
  BY <1>3, <1>4

\* The lines earlier than the one that follows p.
LEMMA EarlierIsCount ==
    ASSUME NEW s \in Seq(Notifications), NEW p \in Seq(Notifications), NEW side,
           Len(p) <= Len(s), \A i \in 1 .. Len(p) : s[i] = p[i]
    PROVE  Earlier(s, Len(p) + 1, side) = Count(p, side)
<1>1. {j \in Lines(s, "reconcile", side) : j < Len(p) + 1} = Lines(p, "reconcile", side)
  BY DEF Lines
<1> QED
  BY <1>1 DEF Earlier, Count

\* A line at the end does not count among the earlier ones.
LEMMA EarlierAppend ==
    ASSUME NEW s \in Seq(Notifications), NEW n \in Notifications, NEW side,
           NEW i \in 1 .. (Len(s) + 1)
    PROVE  Earlier(Append(s, n), i, side) = Earlier(s, i, side)
<1>1. {j \in Lines(Append(s, n), "reconcile", side) : j < i}
        = {j \in Lines(s, "reconcile", side) : j < i}
  BY DEF Lines
<1> QED
  BY <1>1 DEF Earlier

\* n is the line of its thread that comes next.
IsNext(n) ==
    /\ n \in Notifications /\ n.thread \in Threads
    /\ Len(logged[n.thread]) < Len(did[n.thread])
    /\ did[n.thread][Len(logged[n.thread]) + 1] = n

\* The round of a reconcile that is logged next, and what is open before it.
LEMMA NextReconcile ==
    ASSUME IndInv, NEW n, IsNext(n), n.kind = "reconcile"
    PROVE  LET w == n.thread
               b == Count(logged[w], "before")
               a == Count(logged[w], "after")
           IN  /\ w \in Workers /\ a \in Nat /\ b \in Nat
               /\ n.side = "before" => n.number = b /\ b = a
               /\ n.side = "after" => n.number = b - 1 /\ b = a + 1
<1> DEFINE w == n.thread
           i == Len(logged[w]) + 1
<1>1. did[w] \in Seq(Notifications) /\ logged[w] \in Seq(Notifications) /\ w \in Threads
  BY DEF IndInv, TypeOK, IsNext
<1>2. i \in DOMAIN did[w] /\ did[w][i] = n
  BY <1>1 DEF IsNext
<1>3. GoodLine(w, i)
  BY <1>1, <1>2 DEF IndInv, GoodLines
<1>4. w \in Workers
  BY <1>1, <1>2, <1>3 DEF GoodLine, Threads
<1>5. \A side : Earlier(did[w], i, side) = Count(logged[w], side)
  <2>1. \A k \in 1 .. Len(logged[w]) : did[w][k] = logged[w][k]
    BY <1>1, DidAndLogged
  <2>2. Len(logged[w]) <= Len(did[w])
    BY <1>1 DEF IsNext
  <2> QED
    BY <1>1, <2>1, <2>2, EarlierIsCount
<1>6. Count(logged[w], "before") \in Nat /\ Count(logged[w], "after") \in Nat
  BY <1>1, LinesFinite
<1>7. LET ends == IF n.side = "after" THEN 1 ELSE 0
      IN  /\ n.number = Count(logged[w], "before") - ends
          /\ Count(logged[w], "before") = Count(logged[w], "after") + ends
  BY <1>2, <1>3, <1>5 DEF GoodLine
<1> HIDE DEF w
<1>8. /\ n.side = "before" => n.number = Count(logged[w], "before")
                              /\ Count(logged[w], "before") = Count(logged[w], "after")
      /\ n.side = "after" => n.number = Count(logged[w], "before") - 1
                             /\ Count(logged[w], "before") = Count(logged[w], "after") + 1
  BY <1>6, <1>7
<1> QED
  BY <1>4, <1>6, <1>8 DEF w

-----------------------------------------------------------------------------
(* A step in which no thread makes a line; the server may write some.       *)

\* The lines of a thread that are still to be written, from its parts.
Queued(a, b, c, e) == a \o (b \o (c \o e))
First(n, q) == <<n>> \o q
Whole(l, a, b, c, e) == l \o Queued(a, b, c, e)

\* What is queued is a sequence of notifications.
LEMMA QueuedType ==
    ASSUME NEW a \in Seq(Notifications), NEW b \in Seq(Notifications), NEW c \in Seq(Notifications), NEW e \in Seq(Notifications)
    PROVE  Queued(a, b, c, e) \in Seq(Notifications)
BY ConcatProperties DEF Queued

\* Writing the first queued line moves it from the queue to the log.
LEMMA OneThenRest ==
    ASSUME NEW n \in Notifications, NEW l \in Seq(Notifications), NEW r \in Seq(Notifications)
    PROVE  l \o (<<n>> \o r) = Append(l, n) \o r
<1>1. <<n>> \in Seq(Notifications)
  OBVIOUS
<1>2. l \o (<<n>> \o r) = (l \o <<n>>) \o r
  BY <1>1, ConcatAssociative
<1> QED
  BY <1>2, AppendIsConcat

\* A line is taken from the front of the events that are held back,
LEMMA TakeEvent ==
    ASSUME NEW n \in Notifications, NEW q \in Seq(Notifications), NEW b \in Seq(Notifications), NEW c \in Seq(Notifications),
           NEW e \in Seq(Notifications)
    PROVE  Queued(First(n, q), b, c, e) = First(n, Queued(q, b, c, e))
<1> DEFINE r == b \o (c \o e)
<1>1. r \in Seq(Notifications) /\ <<n>> \in Seq(Notifications)
  BY ConcatProperties
<1>2. (<<n>> \o q) \o r = <<n>> \o (q \o r)
  BY <1>1, ConcatAssociative
<1> QED
  BY <1>2 DEF Queued, First

\* or from the front of notificationCh, when nothing is before it.
LEMMA TakeNotification ==
    ASSUME NEW n \in Notifications, NEW q \in Seq(Notifications), NEW e \in Seq(Notifications)
    PROVE  /\ Queued(<<>>, <<>>, <<n>> \o q, e) = <<n>> \o Queued(<<>>, <<>>, q, e)
           /\ Queued(<<>>, <<>>, <<n>> \o q, e) = Queued(<<n>>, <<>>, q, e)
           /\ Queued(<<>>, <<>>, <<n>> \o q, e) = Queued(<<>>, <<n>>, q, e)
<1> DEFINE r == q \o e
<1>1. r \in Seq(Notifications) /\ <<n>> \in Seq(Notifications)
  BY ConcatProperties
<1>2. (<<n>> \o q) \o e = <<n>> \o r
  BY <1>1, ConcatAssociative
<1>3. <<n>> \o r \in Seq(Notifications)
  BY <1>1, ConcatProperties
<1>4. \A u \in Seq(Notifications) : <<>> \o u = u
  BY ConcatEmptySeq
<1>5. Queued(<<>>, <<>>, <<n>> \o q, e) = <<n>> \o r
  <2> DEFINE x == (<<n>> \o q) \o e
  <2>1. x \in Seq(Notifications) /\ x = <<n>> \o r
    BY <1>2, <1>3
  <2> HIDE DEF x
  <2>2. <<>> \o (<<>> \o x) = x
    BY <1>4, <2>1
  <2> QED
    BY <2>1, <2>2 DEF Queued, x
<1>6. Queued(<<>>, <<>>, q, e) = r
  <2>1. <<>> \o (<<>> \o r) = r
    BY <1>1, <1>4
  <2> QED
    BY <2>1 DEF Queued
<1>7. Queued(<<n>>, <<>>, q, e) = <<n>> \o r
  <2>1. <<>> \o r = r
    BY <1>1, <1>4
  <2> QED
    BY <2>1 DEF Queued
<1>8. Queued(<<>>, <<n>>, q, e) = <<n>> \o r
  <2>1. <<>> \o (<<n>> \o r) = <<n>> \o r
    BY <1>3, <1>4
  <2> QED
    BY <2>1 DEF Queued
<1> QED
  BY <1>5, <1>6, <1>7, <1>8

\* A notification is put at the end.
LEMMA PutNotification ==
    ASSUME NEW n \in Notifications, NEW a \in Seq(Notifications), NEW b \in Seq(Notifications), NEW c \in Seq(Notifications)
    PROVE  Queued(a, b, c, <<n>>) = Queued(a, b, Append(c, n), <<>>)
<1>1. c \o <<n>> = Append(c, n) /\ Append(c, n) \in Seq(Notifications)
  BY AppendIsConcat
<1>2. Append(c, n) \o <<>> = Append(c, n)
  BY <1>1, ConcatEmptySeq
<1> QED
  BY <1>1, <1>2 DEF Queued

\* A handler begins: its notification is not sent yet.
LEMMA NewNotification ==
    ASSUME NEW n \in Notifications, NEW l \in Seq(Notifications),
           NEW a \in Seq(Notifications), NEW b \in Seq(Notifications), NEW c \in Seq(Notifications)
    PROVE  Append(Whole(l, a, b, c, <<>>), n) = Whole(l, a, b, c, <<n>>)
<1>0. <<n>> \in Seq(Notifications) /\ c \o <<>> = c
  BY ConcatEmptySeq
<1> DEFINE s1 == b \o c
           s2 == a \o s1
           s3 == l \o s2
<1>1. s1 \in Seq(Notifications) /\ s2 \in Seq(Notifications) /\ s3 \in Seq(Notifications)
  BY ConcatProperties
<1>2. s1 \o <<n>> = b \o (c \o <<n>>)
  BY <1>0, ConcatAssociative
<1>3. s2 \o <<n>> = a \o (s1 \o <<n>>)
  BY <1>0, <1>1, ConcatAssociative
<1>4. s3 \o <<n>> = l \o (s2 \o <<n>>)
  <2>1. \A u \in Seq(Notifications) : (l \o u) \o <<n>> = l \o (u \o <<n>>)
    BY <1>0, ConcatAssociative
  <2>2. s2 \in Seq(Notifications) /\ s3 = l \o s2
    BY <1>1
  <2> HIDE DEF s2, s3
  <2> QED
    BY <2>1, <2>2
<1>5. Append(s3, n) = s3 \o <<n>>
  BY <1>1, AppendIsConcat
<1>6. l \o Queued(a, b, c, <<>>) = s3
  BY <1>0 DEF Queued
<1>7. l \o Queued(a, b, c, <<n>>) = l \o (s2 \o <<n>>)
  BY <1>2, <1>3 DEF Queued
<1> HIDE DEF s1, s2, s3
<1> QED
  BY <1>4, <1>5, <1>6, <1>7 DEF Whole

\* The lines of S have been written.
Written(S) ==
    /\ logged' \in [Threads -> Seq(Notifications)]
    /\ \A t \in Threads :
         /\ (\E n \in S : n.thread = t) =>
              logged'[t] = Append(logged[t], did[t][Len(logged[t]) + 1])
         /\ ~(\E n \in S : n.thread = t) => logged'[t] = logged[t]

\* A step that leaves the log alone writes nothing.
LEMMA NothingWritten ==
    ASSUME IndInv, logged' = logged
    PROVE  Written({})
BY DEF Written, IndInv, TypeOK

\* Log writes the next line of a thread.
LEMMA LogWrites ==
    ASSUME IndInv, NEW n, IsNext(n), Log(n.thread, n)
    PROVE  Written({n})
<1>1. \A t \in Threads : logged[t] \in Seq(Notifications)
  BY DEF IndInv, TypeOK
<1>2. n \in Notifications /\ n.thread \in Threads
  BY DEF IsNext
<1>3. Append(logged[n.thread], n) \in Seq(Notifications)
  BY <1>1, <1>2
<1>4. logged' = [logged EXCEPT ![n.thread] = Append(logged[n.thread], n)]
  BY DEF Log
<1>5. logged \in [Threads -> Seq(Notifications)]
  BY DEF IndInv, TypeOK
<1>6. n = did[n.thread][Len(logged[n.thread]) + 1]
  BY DEF IsNext
<1> QED
  BY <1>2, <1>3, <1>4, <1>5, <1>6 DEF Written

\* LogAll writes the next lines of several threads.
LEMMA LogAllWrites ==
    ASSUME IndInv, NEW S, \A n \in S : IsNext(n), LogAll(S)
    PROVE  Written(S)
<1>1. logged \in [Threads -> Seq(Notifications)]
  BY DEF IndInv, TypeOK
<1>2. ASSUME NEW t \in Threads, \E n \in S : n.thread = t
      PROVE  /\ did[t][Len(logged[t]) + 1] \in Notifications
             /\ (CHOOSE n \in S : n.thread = t) = did[t][Len(logged[t]) + 1]
  <2> DEFINE m == CHOOSE n \in S : n.thread = t
  <2>1. m \in S /\ m.thread = t
    BY <1>2
  <2>2. IsNext(m)
    BY <2>1
  <2> QED
    BY <2>1, <2>2 DEF IsNext
<1>3. ASSUME NEW t \in Threads
      PROVE  /\ logged'[t] \in Seq(Notifications)
             /\ (\E n \in S : n.thread = t) =>
                  logged'[t] = Append(logged[t], did[t][Len(logged[t]) + 1])
             /\ ~(\E n \in S : n.thread = t) => logged'[t] = logged[t]
  <2> DEFINE d == did[t][Len(logged[t]) + 1]
             l == logged[t]
  <2>l. l \in Seq(Notifications)
    BY <1>1
  <2>1. CASE \E n \in S : n.thread = t
    <3>1. logged'[t] = l \o <<d>> /\ d \in Notifications
      BY <1>2, <2>1 DEF LogAll
    <3> HIDE DEF d, l
    <3>2. l \o <<d>> = Append(l, d) /\ Append(l, d) \in Seq(Notifications)
      BY <2>l, <3>1, AppendIsConcat
    <3> QED
      BY <2>1, <3>1, <3>2 DEF d, l
  <2>2. CASE ~(\E n \in S : n.thread = t)
    <3>1. logged'[t] = l \o <<>>
      BY <2>2 DEF LogAll
    <3> HIDE DEF l
    <3>2. l \o <<>> = l
      BY <2>l, ConcatEmptySeq
    <3> QED
      BY <2>l, <2>2, <3>1, <3>2 DEF l
  <2> QED
    BY <2>1, <2>2
<1>4. logged' = [t \in Threads |-> logged'[t]]
  BY DEF LogAll
<1>5. logged' \in [Threads -> Seq(Notifications)]
  BY <1>3, <1>4
<1> QED
  BY <1>3, <1>5 DEF Written

\* The lines in S are written, and threads go on in, or return from, their handlers.
LogStep(S) ==
    /\ \A n \in S : IsNext(n)
    /\ Written(S)
    /\ UNCHANGED <<did, req, waitingCh, nextID, reconcileChMap>>
    /\ \A t \in Threads :
         \/ pc'[t] = pc[t]
         \/ pc[t] = "send" /\ pc'[t] = IF req[t].side = "before" THEN "wait" ELSE "idle"
         \/ /\ pc[t] \in {"wait", "busy"} /\ pc'[t] \in {"idle", "busy"} /\ logged'[t] = did[t]
            /\ pc'[t] = "busy" => req[t].side = "before" /\ req[t].kind # "reconcile"
    /\ \A t \in Threads : Pending(t)' \in Seq(Notifications)
    /\ \A n \in S : Pending(n.thread) = <<n>> \o Pending(n.thread)'
    /\ \A t \in Threads : ~(\E n \in S : n.thread = t) => Pending(t)' = Pending(t)

\* Writing lines changes nothing about what the threads did.
LEMMA LogStepKeepsLines ==
    ASSUME IndInv, NEW S, LogStep(S)
    PROVE  GoodLines' /\ IDsDiffer'
<1>1. did' = did /\ waitingCh' = waitingCh
  BY DEF LogStep
<1>2. GoodLines'
  BY <1>1 DEF IndInv, GoodLines, GoodLine
<1>3. IDsDiffer'
  BY <1>1 DEF IndInv, IDsDiffer
<1> QED
  BY <1>2, <1>3

\* Writing the next line of a thread keeps the order of the log, and lets go only a
\* thread whose line is written.
LEMMA LogStepKeepsThreads ==
    ASSUME IndInv, NEW S, LogStep(S)
    PROVE  ThreadInv' /\ LogFollowsProgramOrder'
<1> SUFFICES ASSUME NEW t \in Threads
             PROVE  /\ pc'[t] # "idle" => did'[t] # <<>> /\ req'[t] = did'[t][Len(did'[t])]
                    /\ pc'[t] \in {"wait", "busy"} => req'[t].side = "before"
                    /\ pc'[t] = "busy" => logged'[t] = did'[t] /\ req'[t].kind # "reconcile"
                    /\ \A i \in DOMAIN did'[t] :
                         i > Len(logged'[t]) /\ did'[t][i].side = "before" =>
                           i = Len(did'[t]) /\ pc'[t] \in {"send", "wait"}
                    /\ did'[t] = logged'[t] \o Pending(t)'
  BY DEF ThreadInv, LogFollowsProgramOrder
<1>0. /\ did' = did /\ req' = req
      /\ logged[t] \in Seq(Notifications) /\ did[t] \in Seq(Notifications)
      /\ Pending(t)' \in Seq(Notifications)
  BY DEF LogStep, IndInv, TypeOK
<1>1. did[t] = logged[t] \o Pending(t)
  BY DEF IndInv, LogFollowsProgramOrder
<1>2. /\ did[t] = logged'[t] \o Pending(t)'
      /\ logged'[t] \in Seq(Notifications)
      /\ Len(logged'[t]) \in Nat /\ Len(logged[t]) \in Nat
      /\ Len(logged'[t]) >= Len(logged[t])
      /\ logged[t] = did[t] => logged'[t] = did[t]
  <2>1. CASE \E n \in S : n.thread = t
    <3>1. PICK n \in S : n.thread = t
      BY <2>1
    <3>2. IsNext(n) /\ Pending(t) = <<n>> \o Pending(t)'
      BY <3>1 DEF LogStep
    <3>3. n \in Notifications /\ logged'[t] = Append(logged[t], n)
          /\ Len(logged[t]) < Len(did[t])
      BY <3>1, <3>2 DEF LogStep, Written, IsNext
    <3> DEFINE r == Pending(t)'
               l == logged[t]
    <3> HIDE DEF r, l
    <3>4. l \in Seq(Notifications) /\ r \in Seq(Notifications)
      BY <1>0 DEF r, l
    <3>5. l \o (<<n>> \o r) = Append(l, n) \o r
      BY <3>3, <3>4, OneThenRest, Zenon
    <3>6. did[t] = logged'[t] \o Pending(t)'
      BY <1>1, <3>2, <3>3, <3>5 DEF r, l
    <3>7. Append(l, n) \in Seq(Notifications) /\ Len(Append(l, n)) = Len(l) + 1
          /\ Len(l) \in Nat
      BY <3>3, <3>4
    <3> QED
      BY <3>3, <3>6, <3>7 DEF l
  <2>2. CASE ~(\E n \in S : n.thread = t)
    <3>1. logged'[t] = logged[t] /\ Pending(t)' = Pending(t)
      BY <2>2 DEF LogStep, Written
    <3> QED
      BY <1>0, <1>1, <3>1
  <2> QED
    BY <2>1, <2>2
<1>t. /\ pc[t] # "idle" => did[t] # <<>> /\ req[t] = did[t][Len(did[t])]
      /\ pc[t] \in {"wait", "busy"} => req[t].side = "before"
      /\ pc[t] = "busy" => logged[t] = did[t] /\ req[t].kind # "reconcile"
      /\ \A i \in DOMAIN did[t] :
           i > Len(logged[t]) /\ did[t][i].side = "before" =>
             i = Len(did[t]) /\ pc[t] \in {"send", "wait"}
  BY DEF IndInv, ThreadInv
<1>3. CASE pc'[t] = pc[t]
  <2>1. \A i \in DOMAIN did[t] : i > Len(logged'[t]) => i > Len(logged[t])
    BY <1>0, <1>2
  <2> QED
    BY <1>0, <1>2, <1>3, <1>t, <2>1
<1>4. CASE pc[t] = "send" /\ pc'[t] = IF req[t].side = "before" THEN "wait" ELSE "idle"
  <2>1. \A i \in DOMAIN did[t] : i > Len(logged'[t]) => i > Len(logged[t])
    BY <1>0, <1>2
  <2> QED
    BY <1>0, <1>2, <1>4, <1>t, <2>1
<1>5. CASE /\ pc[t] \in {"wait", "busy"} /\ pc'[t] \in {"idle", "busy"} /\ logged'[t] = did[t]
           /\ pc'[t] = "busy" => req[t].side = "before" /\ req[t].kind # "reconcile"
  <2>1. \A i \in DOMAIN did[t] : ~(i > Len(logged'[t]))
    BY <1>0, <1>5
  <2>2. did[t] # <<>> /\ req[t] = did[t][Len(did[t])]
    BY <1>5, <1>t
  <2> QED
    BY <1>0, <1>2, <1>5, <1>t, <2>1, <2>2
<1> QED
  BY <1>3, <1>4, <1>5 DEF LogStep

\* How the lines that are written count.
LEMMA WrittenCounts ==
    ASSUME IndInv, NEW S, \A n \in S : IsNext(n), Written(S), NEW t \in Threads, NEW side
    PROVE  /\ Count(logged[t], side) \in Nat
           /\ Count(logged'[t], side) = Count(logged[t], side)
                + (IF \E n \in S : n.thread = t /\ n.kind = "reconcile" /\ n.side = side
                   THEN 1 ELSE 0)
<1>1. logged[t] \in Seq(Notifications)
  BY DEF IndInv, TypeOK
<1>2. Count(logged[t], side) \in Nat
  BY <1>1, LinesFinite
<1>3. CASE \E n \in S : n.thread = t
  <2>1. PICK n \in S : n.thread = t
    BY <1>3
  <2>2. n \in Notifications /\ logged'[t] = Append(logged[t], n)
    BY <2>1 DEF Written, IsNext
  <2>3. Count(logged'[t], side) = Count(logged[t], side)
           + (IF n.kind = "reconcile" /\ n.side = side THEN 1 ELSE 0)
    BY <1>1, <2>2, CountAppend
  <2>4. \A m \in S : m.thread = t => m = n
    BY <2>1 DEF IsNext
  <2> QED
    BY <1>2, <2>1, <2>3, <2>4
<1>4. CASE ~(\E n \in S : n.thread = t)
  <2>1. logged'[t] = logged[t]
    BY <1>4 DEF Written
  <2> QED
    BY <1>2, <1>4, <2>1
<1> QED
  BY <1>3, <1>4

\* Writing lines keeps the account of the reconciles, if reconcileCntMap counts the
\* begins that are written.
LEMMA LogStepKeepsReconciles ==
    ASSUME IndInv, NEW S, LogStep(S),
           reconciling \subseteq reconciling',
           \A w \in Workers : w \in reconciling' => reconcileChMap[w] = "channel",
           \A w \in Workers : pc[w] = "wait" /\ pc'[w] = "idle" => w \in reconciling',
           \A w \in Workers : reconcileCntMap'[w] + 1 = Count(logged'[w], "before")
    PROVE  ReconcileInv'
<1>1. SUFFICES ASSUME NEW w \in Workers
               PROVE  /\ Count(did'[w], "before") = Count(did'[w], "after")
                           + (IF reconcileChMap'[w] = "channel" THEN 1 ELSE 0)
                      /\ w \in reconciling' => reconcileChMap'[w] = "channel"
                      /\ reconcileChMap'[w] = "channel" /\ w \notin reconciling' =>
                           pc'[w] \in {"send", "wait"} /\ req'[w].kind = "reconcile"
                           /\ req'[w].side = "before"
                      /\ reconcileCntMap'[w] + 1 = Count(logged'[w], "before")
  BY DEF ReconcileInv, Count
<1>2. /\ Count(did[w], "before") = Count(did[w], "after")
           + (IF reconcileChMap[w] = "channel" THEN 1 ELSE 0)
      /\ reconcileChMap[w] = "channel" /\ w \notin reconciling =>
           pc[w] \in {"send", "wait"} /\ req[w].kind = "reconcile" /\ req[w].side = "before"
  BY DEF IndInv, ReconcileInv, Count
<1>3. did' = did /\ req' = req /\ reconcileChMap' = reconcileChMap /\ w \in Threads
  BY DEF LogStep, Threads
<1>4. \/ pc'[w] = pc[w]
      \/ pc[w] = "send" /\ pc'[w] = IF req[w].side = "before" THEN "wait" ELSE "idle"
      \/ /\ pc[w] \in {"wait", "busy"} /\ pc'[w] \in {"idle", "busy"}
         /\ pc'[w] = "busy" => req[w].kind # "reconcile"
  BY <1>3 DEF LogStep
<1>5. ASSUME reconcileChMap[w] = "channel", w \notin reconciling'
      PROVE  pc'[w] \in {"send", "wait"} /\ req[w].kind = "reconcile" /\ req[w].side = "before"
  BY <1>2, <1>4, <1>5
<1> QED
  BY <1>2, <1>3, <1>5

\* No line of a reconcile is written.
LEMMA LogStepKeepsCounters ==
    ASSUME IndInv, NEW S, LogStep(S), \A n \in S : n.kind # "reconcile",
           UNCHANGED ongoingReconcileCnt
    PROVE  CounterInv' /\ \A t \in Threads, side \in {"before", "after"} :
                            Count(logged'[t], side) = Count(logged[t], side)
<1>1. ASSUME NEW t \in Threads, NEW side \in {"before", "after"}
      PROVE  Count(logged'[t], side) = Count(logged[t], side)
  <2>1. ~(\E n \in S : n.thread = t /\ n.kind = "reconcile" /\ n.side = side)
    OBVIOUS
  <2>2. /\ Count(logged[t], side) \in Nat
        /\ Count(logged'[t], side) = Count(logged[t], side) + 0
    BY <2>1, WrittenCounts DEF LogStep
  <2> QED
    BY <2>2
<1>2. \A w \in Workers : OpenReconciles(w)' = OpenReconciles(w)
  BY <1>1 DEF OpenReconciles, Count, Threads
<1>3. {w \in Workers : OpenReconciles(w)' = 1} = {w \in Workers : OpenReconciles(w) = 1}
  BY <1>2
<1>4. CounterInv'
  BY <1>3 DEF IndInv, CounterInv, LogStep
<1> QED
  BY <1>1, <1>4

-----------------------------------------------------------------------------
(* A step of a thread: a handler begins.                                    *)

HandleStep(t, n) ==
    /\ t \in Threads /\ n \in Notifications /\ n.thread = t
    /\ pc[t] \in {"idle", "busy"}
    /\ Handle(t, n)
    /\ UNCHANGED <<logged, rateLimitedEventCh, pushing, notificationCh>>
    /\ \A c \in Counters : \A i \in DOMAIN waitingCh[c] :
         i \in DOMAIN waitingCh'[c] /\ waitingCh'[c][i] = waitingCh[c][i]

\* A handler adds one line to what its thread did.
LEMMA HandleDid ==
    ASSUME IndInv, NEW t, NEW n, HandleStep(t, n)
    PROVE  /\ did' \in [Threads -> Seq(Notifications)]
           /\ did[t] \in Seq(Notifications) /\ Len(did[t]) \in Nat
           /\ did'[t] = Append(did[t], n) /\ Len(did'[t]) = Len(did[t]) + 1
           /\ \A u \in Threads : u # t => did'[u] = did[u]
           /\ \A u \in Threads : \A i \in DOMAIN did[u] :
                i \in DOMAIN did'[u] /\ did'[u][i] = did[u][i]
           /\ DOMAIN did'[t] = 1 .. (Len(did[t]) + 1) /\ did'[t][Len(did[t]) + 1] = n
           /\ DOMAIN did[t] = 1 .. Len(did[t])
<1>1. did \in [Threads -> Seq(Notifications)]
  BY DEF IndInv, TypeOK
<1>2. did' = [did EXCEPT ![t] = Append(did[t], n)] /\ t \in Threads /\ n \in Notifications
  BY DEF HandleStep, Handle
<1>3. did[t] \in Seq(Notifications) /\ did'[t] = Append(did[t], n)
      /\ \A u \in Threads : u # t => did'[u] = did[u]
  BY <1>1, <1>2
<1>4. /\ Len(did[t]) \in Nat /\ did'[t] \in Seq(Notifications)
      /\ Len(did'[t]) = Len(did[t]) + 1
      /\ DOMAIN did'[t] = 1 .. (Len(did[t]) + 1) /\ did'[t][Len(did[t]) + 1] = n
      /\ DOMAIN did[t] = 1 .. Len(did[t])
      /\ \A i \in 1 .. Len(did[t]) : did'[t][i] = did[t][i]
  BY <1>2, <1>3
<1>5. did' \in [Threads -> Seq(Notifications)]
  BY <1>1, <1>2, <1>3, <1>4
<1>6. ASSUME NEW u \in Threads, NEW i \in DOMAIN did[u]
      PROVE  i \in DOMAIN did'[u] /\ did'[u][i] = did[u][i]
  <2>1. CASE u = t
    <3>1. i \in 1 .. Len(did[t])
      BY <1>4, <2>1
    <3>2. i \in 1 .. (Len(did[t]) + 1)
      BY <1>4, <3>1
    <3> QED
      BY <1>4, <2>1, <3>1, <3>2
  <2>2. CASE u # t
    BY <1>3, <2>2
  <2> QED
    BY <2>1, <2>2
<1> QED
  BY <1>3, <1>4, <1>5, <1>6

\* The lines made before stay good.
LEMMA HandleKeepsLines ==
    ASSUME IndInv, NEW t, NEW n, HandleStep(t, n), GoodLine(t, Len(did[t]))'
    PROVE  GoodLines'
<1> USE DEF Counters
<1>1. SUFFICES ASSUME NEW u \in Threads, NEW i \in DOMAIN did'[u]
               PROVE  GoodLine(u, i)'
  BY DEF GoodLines
<1>l. Len(did'[t]) = Len(did[t]) + 1 /\ t \in Threads
  BY HandleDid DEF HandleStep
<1>2. CASE u = t /\ i = Len(did[t]) + 1
  BY <1>l, <1>2
<1>3. CASE ~(u = t /\ i = Len(did[t]) + 1)
  <2>1. i \in DOMAIN did[u] /\ did[u] \in Seq(Notifications)
    <3>1. CASE u = t
      <4>1. i \in 1 .. (Len(did[t]) + 1) /\ i # Len(did[t]) + 1 /\ Len(did[t]) \in Nat
        BY <1>3, <3>1, HandleDid
      <4>2. i \in 1 .. Len(did[t])
        BY <4>1
      <4> QED
        BY <3>1, <4>2, HandleDid
    <3>2. CASE u # t
      BY <3>2, HandleDid DEF IndInv, TypeOK
    <3> QED
      BY <3>1, <3>2
  <2>2. did'[u][i] = did[u][i]
    BY <2>1, HandleDid
  <2>3. GoodLine(u, i)
    BY <2>1 DEF IndInv, GoodLines
  <2>4. i > 1 => did'[u][i - 1] = did[u][i - 1]
    <3>1. i > 1 => i - 1 \in DOMAIN did[u]
      BY <2>1
    <3> QED
      BY <3>1, HandleDid
  <2>5. \A side : Earlier(did'[u], i, side) = Earlier(did[u], i, side)
    <3>1. CASE u = t
      <4>1. did'[u] = Append(did[u], n) /\ n \in Notifications /\ i \in 1 .. (Len(did[u]) + 1)
        BY <2>1, <3>1, HandleDid DEF HandleStep
      <4> QED
        BY <2>1, <4>1, EarlierAppend
    <3>2. CASE u # t
      BY <3>2, HandleDid
    <3> QED
      BY <3>1, <3>2
  <2>6. \A k : CounterOf(k) \in Counters
    BY DEF CounterOf
  <2>7. \A k, j : j \in DOMAIN waitingCh[CounterOf(k)] =>
           /\ j \in DOMAIN waitingCh'[CounterOf(k)]
           /\ waitingCh'[CounterOf(k)][j] = waitingCh[CounterOf(k)][j]
    BY <2>6 DEF HandleStep
  <2>8. \A m : CounterOf(m.kind)' = CounterOf(m.kind) /\ IsOperation(m)' = IsOperation(m)
    BY DEF CounterOf, IsOperation, OperationKinds
  <2> QED
    BY <2>2, <2>3, <2>4, <2>5, <2>7, <2>8 DEF GoodLine
<1> QED
  BY <1>2, <1>3

\* IDs stay different if a new one is.
LEMMA HandleKeepsIDs ==
    ASSUME IndInv, NEW t, NEW n, HandleStep(t, n),
           IsOperation(n) /\ n.side = "before" =>
             \A u \in Threads : \A j \in DOMAIN did[u] :
               IsOperation(did[u][j]) /\ did[u][j].side = "before"
               /\ CounterOf(did[u][j].kind) = CounterOf(n.kind) => did[u][j].number # n.number
    PROVE  IDsDiffer'
<1>1. SUFFICES ASSUME NEW u \in Threads, NEW v \in Threads, NEW i \in DOMAIN did'[u],
                      NEW j \in DOMAIN did'[v],
                      IsOperation(did'[u][i]), IsOperation(did'[v][j]),
                      did'[u][i].side = "before", did'[v][j].side = "before",
                      CounterOf(did'[u][i].kind) = CounterOf(did'[v][j].kind),
                      did'[u][i].number = did'[v][j].number
               PROVE  u = v /\ i = j
  BY DEF IDsDiffer
<1>2. t \in Threads
  BY DEF HandleStep
<1>3. \A x \in Threads : \A k \in DOMAIN did'[x] :
        \/ x = t /\ k = Len(did[t]) + 1 /\ did'[x][k] = n
        \/ k \in DOMAIN did[x] /\ did'[x][k] = did[x][k]
  BY <1>2, HandleDid
<1>4. CASE i \in DOMAIN did[u] /\ did'[u][i] = did[u][i] /\ j \in DOMAIN did[v]
           /\ did'[v][j] = did[v][j]
  BY <1>1, <1>4 DEF IndInv, IDsDiffer
<1>5. CASE u = t /\ i = Len(did[t]) + 1 /\ did'[u][i] = n /\ j \in DOMAIN did[v]
           /\ did'[v][j] = did[v][j]
  BY <1>1, <1>5
<1>6. CASE v = t /\ j = Len(did[t]) + 1 /\ did'[v][j] = n /\ i \in DOMAIN did[u]
           /\ did'[u][i] = did[u][i]
  BY <1>1, <1>6
<1>7. CASE u = t /\ i = Len(did[t]) + 1 /\ v = t /\ j = Len(did[t]) + 1
  BY <1>7
<1> QED
  BY <1>3, <1>4, <1>5, <1>6, <1>7

\* The line of a handler is the last one of its thread, and the thread waits for it.
LEMMA HandleKeepsThreads ==
    ASSUME IndInv, NEW t, NEW n, HandleStep(t, n)
    PROVE  ThreadInv' /\ LogFollowsProgramOrder'
<1>0. /\ t \in Threads /\ n \in Notifications /\ pc[t] \in {"idle", "busy"}
      /\ logged' = logged
      /\ pc \in [Threads -> {"idle", "send", "wait", "busy"}] /\ req \in [Threads -> Notifications]
      /\ pc' = [pc EXCEPT ![t] = "send"] /\ req' = [req EXCEPT ![t] = n]
  BY DEF HandleStep, Handle, IndInv, TypeOK
<1>1. pc'[t] = "send" /\ req'[t] = n
  BY <1>0
<1>2. ASSUME NEW u \in Threads, u # t
      PROVE  pc'[u] = pc[u] /\ req'[u] = req[u] /\ did'[u] = did[u] /\ Pending(u)' = Pending(u)
  <2>1. pc'[u] = pc[u] /\ req'[u] = req[u] /\ did'[u] = did[u]
    BY <1>0, <1>2, HandleDid
  <2>2. Unsent(u)' = Unsent(u)
    BY <2>1 DEF Unsent
  <2> QED
    BY <2>1, <2>2 DEF Pending, HandleStep
<1>3. ThreadInv'
  <2>1. SUFFICES ASSUME NEW u \in Threads
             PROVE  /\ pc'[u] # "idle" => did'[u] # <<>> /\ req'[u] = did'[u][Len(did'[u])]
                    /\ pc'[u] \in {"wait", "busy"} => req'[u].side = "before"
                    /\ pc'[u] = "busy" => logged'[u] = did'[u] /\ req'[u].kind # "reconcile"
                    /\ \A i \in DOMAIN did'[u] :
                         i > Len(logged'[u]) /\ did'[u][i].side = "before" =>
                           i = Len(did'[u]) /\ pc'[u] \in {"send", "wait"}
    BY DEF ThreadInv
  <2>2. CASE u # t
    BY <1>0, <1>2, <2>2 DEF IndInv, ThreadInv
  <2>3. CASE u = t
    <3>1. did'[t] # <<>> /\ Len(did'[t]) = Len(did[t]) + 1 /\ did'[t][Len(did'[t])] = n
      BY <1>0, HandleDid
    <3>2. \A i \in DOMAIN did[t] : i > Len(logged[t]) => did[t][i].side # "before"
      BY <1>0 DEF IndInv, ThreadInv
    <3>3. ASSUME NEW i \in DOMAIN did'[t], i > Len(logged[t]), did'[t][i].side = "before"
          PROVE  i = Len(did'[t])
      BY <3>1, <3>2, <3>3, HandleDid
    <3> QED
      BY <1>0, <1>1, <2>3, <3>1, <3>3
  <2> QED
    BY <2>2, <2>3
<1>4. LogFollowsProgramOrder'
  <2>1. SUFFICES ASSUME NEW u \in Threads
                 PROVE  did'[u] = logged'[u] \o Pending(u)' /\ (pc'[u] = "busy" => logged'[u] = did'[u])
    BY DEF LogFollowsProgramOrder
  <2>2. CASE u # t
    BY <1>0, <1>2, <2>2 DEF IndInv, LogFollowsProgramOrder
  <2>3. CASE u = t
    <3> DEFINE l == logged[t]
               a == Of(rateLimitedEventCh, t)
               b == Of(pushing, t)
               c == Of(notificationCh, t)
    <3>1. l \in Seq(Notifications) /\ a \in Seq(Notifications) /\ b \in Seq(Notifications)
          /\ c \in Seq(Notifications) /\ n \in Notifications
      BY <1>0, PendingParts DEF IndInv, TypeOK
    <3>2. did[t] = Whole(l, a, b, c, <<>>)
      <4>1. Unsent(t) = <<>>
        BY <1>0 DEF Unsent
      <4> QED
        BY <1>0, <4>1 DEF IndInv, LogFollowsProgramOrder, Pending, Queued, Whole
    <3>3. logged'[t] \o Pending(t)' = Whole(l, a, b, c, <<n>>)
      <4>1. Unsent(t)' = <<n>>
        BY <1>1 DEF Unsent
      <4> QED
        BY <1>0, <4>1 DEF Pending, Queued, Whole, HandleStep
    <3> HIDE DEF l, a, b, c
    <3>4. Append(Whole(l, a, b, c, <<>>), n) = Whole(l, a, b, c, <<n>>)
      BY <3>1, NewNotification
    <3>5. did'[t] = Append(did[t], n)
      BY <1>0, HandleDid
    <3>6. did'[t] = logged'[t] \o Pending(t)'
      BY <3>2, <3>3, <3>4, <3>5, Zenon
    <3> QED
      BY <1>1, <2>3, <3>6
  <2> QED
    BY <2>2, <2>3
<1> QED
  BY <1>3, <1>4

\* With a line that is not of a reconcile.
LEMMA HandleKeepsReconciles ==
    ASSUME IndInv, NEW t, NEW n, HandleStep(t, n), n.kind # "reconcile",
           UNCHANGED <<reconciling, reconcileChMap, reconcileCntMap>>
    PROVE  ReconcileInv'
<1>1. SUFFICES ASSUME NEW w \in Workers
               PROVE  /\ Count(did'[w], "before") = Count(did'[w], "after")
                           + (IF reconcileChMap[w] = "channel" THEN 1 ELSE 0)
                      /\ w \in reconciling => reconcileChMap[w] = "channel"
                      /\ reconcileChMap[w] = "channel" /\ w \notin reconciling =>
                           pc'[w] \in {"send", "wait"} /\ req'[w].kind = "reconcile"
                           /\ req'[w].side = "before"
                      /\ reconcileCntMap[w] + 1 = Count(logged'[w], "before")
  BY DEF ReconcileInv, Count
<1>2. /\ Count(did[w], "before") = Count(did[w], "after")
           + (IF reconcileChMap[w] = "channel" THEN 1 ELSE 0)
      /\ w \in reconciling => reconcileChMap[w] = "channel"
      /\ reconcileChMap[w] = "channel" /\ w \notin reconciling =>
           pc[w] \in {"send", "wait"} /\ req[w].kind = "reconcile" /\ req[w].side = "before"
      /\ reconcileCntMap[w] + 1 = Count(logged[w], "before")
  BY DEF IndInv, ReconcileInv, Count
<1>3. logged' = logged /\ w \in Threads /\ did[w] \in Seq(Notifications)
  BY DEF HandleStep, Threads, IndInv, TypeOK
<1>4. /\ pc' = [pc EXCEPT ![t] = "send"] /\ req' = [req EXCEPT ![t] = n]
      /\ pc[t] \in {"idle", "busy"} /\ n \in Notifications
  BY DEF HandleStep, Handle
<1>5. CASE w = t
  <2>1. ~(reconcileChMap[w] = "channel" /\ w \notin reconciling)
    BY <1>2, <1>4, <1>5
  <2>2. \A side : Count(did'[w], side) = Count(did[w], side) + 0
    <3>1. did'[w] = Append(did[w], n)
      BY <1>5, HandleDid
    <3> QED
      BY <1>3, <1>4, <3>1, CountAppend
  <2>3. Count(did[w], "before") \in Nat /\ Count(did[w], "after") \in Nat
    BY <1>3, LinesFinite
  <2> QED
    BY <1>2, <1>3, <2>1, <2>2, <2>3
<1>6. CASE w # t
  <2>1. pc'[w] = pc[w] /\ req'[w] = req[w] /\ did'[w] = did[w]
    BY <1>3, <1>4, <1>6, HandleDid DEF IndInv, TypeOK
  <2> QED
    BY <1>2, <1>3, <2>1
<1> QED
  BY <1>5, <1>6

\* A handler keeps the types of what it writes to.
LEMMA HandleTypes ==
    ASSUME IndInv, NEW t, NEW n, HandleStep(t, n)
    PROVE  /\ pc' \in [Threads -> {"idle", "send", "wait", "busy"}]
           /\ req' \in [Threads -> Notifications]
           /\ did' \in [Threads -> Seq(Notifications)]
<1>1. /\ pc \in [Threads -> {"idle", "send", "wait", "busy"}] /\ req \in [Threads -> Notifications]
      /\ pc' = [pc EXCEPT ![t] = "send"] /\ req' = [req EXCEPT ![t] = n] /\ n \in Notifications
  BY DEF HandleStep, Handle, IndInv, TypeOK
<1> QED
  BY <1>1, HandleDid

\* The two counters of reconciles go by the log alone.
LEMMA LogSame ==
    ASSUME IndInv, UNCHANGED <<logged, ongoingReconcileCnt, waitingCh, nextID>>
    PROVE  CounterInv'
BY DEF IndInv, CounterInv, OpenReconciles

\* A line of a reconcile of worker w, of which ends (0 or 1) is open so far.
LEMMA NewReconcileLine ==
    ASSUME IndInv, NEW w \in Workers, NEW n, HandleStep(w, n), n.kind = "reconcile",
           NEW ends \in {0, 1}, ends = IF n.side = "after" THEN 1 ELSE 0,
           n.number = Count(did[w], "before") - ends,
           Count(did[w], "before") = Count(did[w], "after") + ends
    PROVE  GoodLines' /\ IDsDiffer'
<1>0. w \in Threads /\ did[w] \in Seq(Notifications) /\ n \in Notifications /\ n.thread = w
  BY DEF Threads, IndInv, TypeOK, HandleStep
<1>1. ~IsOperation(n) /\ w \notin Receivers
  BY LearnAssumption DEF IsOperation, OperationKinds
<1>2. did'[w][Len(did'[w])] = n /\ Len(did'[w]) = Len(did[w]) + 1
  BY HandleDid
<1>3. \A side : Earlier(did'[w], Len(did'[w]), side) = Count(did[w], side)
  <2>1. did'[w] = Append(did[w], n)
    BY HandleDid
  <2>2. \A side : Earlier(Append(did[w], n), Len(did[w]) + 1, side) = Count(did[w], side)
    <3>1. Append(did[w], n) \in Seq(Notifications) /\ Len(did[w]) <= Len(Append(did[w], n))
          /\ \A i \in 1 .. Len(did[w]) : Append(did[w], n)[i] = did[w][i]
      BY <1>0
    <3> QED
      BY <1>0, <3>1, EarlierIsCount
  <2> QED
    BY <1>2, <2>1, <2>2
<1>4. GoodLine(w, Len(did[w]))'
  BY <1>0, <1>1, <1>2, <1>3 DEF GoodLine
<1> QED
  BY <1>1, <1>4, HandleKeepsLines, HandleKeepsIDs

\* The handlers around a reconcile switch its entry of reconcileChMap on and off.
LEMMA ReconcileSwitch ==
    ASSUME IndInv, NEW w \in Workers, NEW n, HandleStep(w, n), n.kind = "reconcile",
           n.side = "before" => reconcileChMap[w] # "channel" /\ reconciling' = reconciling
                                /\ reconcileChMap' = [reconcileChMap EXCEPT ![w] = "channel"],
           n.side = "after" => reconcileChMap[w] = "channel" /\ reconciling' = reconciling \ {w}
                               /\ reconcileChMap' = [reconcileChMap EXCEPT ![w] = "nil"],
           UNCHANGED reconcileCntMap
    PROVE  ReconcileInv'
<1>1. SUFFICES ASSUME NEW v \in Workers
             PROVE  /\ Count(did'[v], "before") = Count(did'[v], "after")
                         + (IF reconcileChMap'[v] = "channel" THEN 1 ELSE 0)
                    /\ v \in reconciling' => reconcileChMap'[v] = "channel"
                    /\ reconcileChMap'[v] = "channel" /\ v \notin reconciling' =>
                         pc'[v] \in {"send", "wait"} /\ req'[v].kind = "reconcile"
                         /\ req'[v].side = "before"
                    /\ reconcileCntMap[v] + 1 = Count(logged[v], "before")
  BY DEF ReconcileInv, Count, HandleStep
<1>2. /\ Count(did[v], "before") = Count(did[v], "after")
           + (IF reconcileChMap[v] = "channel" THEN 1 ELSE 0)
      /\ v \in reconciling => reconcileChMap[v] = "channel"
      /\ reconcileChMap[v] = "channel" /\ v \notin reconciling =>
           pc[v] \in {"send", "wait"} /\ req[v].kind = "reconcile" /\ req[v].side = "before"
      /\ reconcileCntMap[v] + 1 = Count(logged[v], "before")
  BY DEF IndInv, ReconcileInv, Count
<1>3. /\ pc' = [pc EXCEPT ![w] = "send"] /\ req' = [req EXCEPT ![w] = n]
      /\ pc \in [Threads -> {"idle", "send", "wait", "busy"}]
      /\ req \in [Threads -> Notifications]
      /\ reconcileChMap \in [Workers -> {"absent", "nil", "channel"}]
      /\ v \in Threads /\ w \in Threads /\ did[w] \in Seq(Notifications)
      /\ n \in Notifications /\ n.side \in {"before", "after"}
  BY DEF Handle, HandleStep, IndInv, TypeOK, Threads, Notifications
<1>4. CASE v = w
  <2>1. \A side : Count(did'[w], side) = Count(did[w], side) + (IF n.side = side THEN 1 ELSE 0)
    <3>1. did'[w] = Append(did[w], n)
      BY HandleDid
    <3> QED
      BY <1>3, <3>1, CountAppend
  <2>2. Count(did[w], "before") \in Nat /\ Count(did[w], "after") \in Nat
    BY <1>3, LinesFinite
  <2>3. pc'[w] = "send" /\ req'[w] = n
    BY <1>3
  <2>4. CASE n.side = "before"
    <3>1. reconcileChMap'[w] = "channel" /\ reconcileChMap[w] # "channel"
      BY <1>3, <2>4
    <3>2. /\ Count(did'[w], "before") = Count(did[w], "before") + 1
          /\ Count(did'[w], "after") = Count(did[w], "after")
          /\ Count(did[w], "before") = Count(did[w], "after")
      BY <1>2, <1>4, <2>1, <2>2, <2>4, <3>1
    <3> QED
      BY <1>2, <1>4, <2>2, <2>3, <2>4, <3>1, <3>2
  <2>5. CASE n.side = "after"
    <3>1. reconcileChMap'[w] = "nil" /\ reconcileChMap[w] = "channel" /\ w \notin reconciling'
      BY <1>3, <2>5
    <3>2. /\ Count(did'[w], "before") = Count(did[w], "before")
          /\ Count(did'[w], "after") = Count(did[w], "after") + 1
          /\ Count(did[w], "before") = Count(did[w], "after") + 1
      BY <1>2, <1>4, <2>1, <2>2, <2>5, <3>1
    <3> QED
      BY <1>2, <1>4, <2>2, <2>3, <2>5, <3>1, <3>2
  <2> QED
    BY <1>3, <2>4, <2>5
<1>5. CASE v # w
  <2>1. pc'[v] = pc[v] /\ req'[v] = req[v] /\ did'[v] = did[v]
        /\ reconcileChMap'[v] = reconcileChMap[v] /\ (v \in reconciling' <=> v \in reconciling)
    BY <1>3, <1>5, HandleDid
  <2> QED
    BY <1>2, <2>1
<1> QED
  BY <1>4, <1>5

\* NotifyLearnBeforeReconcile keeps the invariant.
LEMMA BeforeReconcileKeeps ==
    ASSUME IndInv, NEW w \in Workers, NotifyLearnBeforeReconcile(w)
    PROVE  IndInv'
<1> DEFINE n == Notification(w, "reconcile", "before", Round(w))
<1>0. w \in Threads /\ did[w] \in Seq(Notifications)
  BY DEF Threads, IndInv, TypeOK
<1>1. pc[w] = "idle" /\ w \notin reconciling /\ fatal = "none"
  BY Zenon DEF NotifyLearnBeforeReconcile
<1>2. reconcileChMap[w] # "channel"
  BY <1>1 DEF IndInv, ReconcileInv
<1>3. /\ reconcileChMap' = [reconcileChMap EXCEPT ![w] = "channel"]
      /\ Handle(w, n)
      /\ UNCHANGED <<reconciling, nextID, waitingCh, fatal, serverVars, notificationCh>>
  BY <1>2 DEF NotifyLearnBeforeReconcile
<1>4. /\ Round(w) = Count(did[w], "before") - 0 /\ Round(w) \in Nat
      /\ Count(did[w], "before") = Count(did[w], "after") + 0
  <2>1. Count(did[w], "before") \in Nat
    BY <1>0, LinesFinite
  <2>2. Count(did[w], "before") = Count(did[w], "after") + 0
    BY <1>2 DEF IndInv, ReconcileInv, Count
  <2> QED
    BY <2>1, <2>2 DEF Round, Count
<1>5. n \in Notifications /\ n.thread = w /\ n.kind = "reconcile" /\ n.side = "before"
      /\ n.number = Round(w)
  BY <1>0, <1>4 DEF Notification, Notifications, Kinds
<1> HIDE DEF n
<1>6. HandleStep(w, n)
  BY <1>0, <1>1, <1>3, <1>5 DEF HandleStep, serverVars
<1>7. GoodLines' /\ IDsDiffer'
  BY <1>4, <1>5, <1>6, NewReconcileLine
<1>8. ReconcileInv'
  BY <1>2, <1>3, <1>5, <1>6, ReconcileSwitch DEF serverVars
<1>9. TypeOK'
  <2>1. reconcileChMap' \in [Workers -> {"absent", "nil", "channel"}]
    BY <1>3 DEF IndInv, TypeOK
  <2> QED
    BY <1>3, <1>6, <2>1, HandleTypes DEF IndInv, TypeOK, serverVars
<1>10. CounterInv'
  BY <1>3, LogSame DEF serverVars
<1>11. fatal' = "none"
  BY <1>1, <1>3
<1> QED
  BY <1>6, <1>7, <1>8, <1>9, <1>10, <1>11, HandleKeepsThreads DEF IndInv

\* NotifyLearnAfterReconcile keeps the invariant.
LEMMA AfterReconcileKeeps ==
    ASSUME IndInv, NEW w \in Workers, NotifyLearnAfterReconcile(w)
    PROVE  IndInv'
<1> DEFINE n == Notification(w, "reconcile", "after", Round(w) - 1)
<1>0. w \in Threads /\ did[w] \in Seq(Notifications)
  BY DEF Threads, IndInv, TypeOK
<1>1. pc[w] = "idle" /\ w \in reconciling /\ fatal = "none"
  BY Zenon DEF NotifyLearnAfterReconcile
<1>2. reconcileChMap[w] = "channel"
  BY <1>1 DEF IndInv, ReconcileInv
<1>3. /\ reconcileChMap' = [reconcileChMap EXCEPT ![w] = "nil"]
      /\ reconciling' = reconciling \ {w}
      /\ Handle(w, n)
      /\ UNCHANGED <<nextID, waitingCh, fatal, serverVars, notificationCh>>
  BY <1>2 DEF NotifyLearnAfterReconcile
<1>4. /\ Round(w) = Count(did[w], "before") /\ Round(w) \in Nat
      /\ Count(did[w], "before") = Count(did[w], "after") + 1
  <2>1. Count(did[w], "before") \in Nat
    BY <1>0, LinesFinite
  <2>2. Count(did[w], "before") = Count(did[w], "after") + 1
    BY <1>2 DEF IndInv, ReconcileInv, Count
  <2> QED
    BY <2>1, <2>2 DEF Round, Count
<1>5. n \in Notifications /\ n.thread = w /\ n.kind = "reconcile" /\ n.side = "after"
      /\ n.number = Round(w) - 1
  BY <1>0, <1>4 DEF Notification, Notifications, Kinds
<1> HIDE DEF n
<1>6. HandleStep(w, n)
  BY <1>0, <1>1, <1>3, <1>5 DEF HandleStep, serverVars
<1>7. GoodLines' /\ IDsDiffer'
  BY <1>4, <1>5, <1>6, NewReconcileLine
<1>8. ReconcileInv'
  BY <1>2, <1>3, <1>5, <1>6, ReconcileSwitch DEF serverVars
<1>9. TypeOK'
  <2>1. reconcileChMap' \in [Workers -> {"absent", "nil", "channel"}] /\ reconciling' \subseteq Workers
    BY <1>3 DEF IndInv, TypeOK
  <2> QED
    BY <1>3, <1>6, <2>1, HandleTypes DEF IndInv, TypeOK, serverVars
<1>10. CounterInv'
  BY <1>3, LogSame DEF serverVars
<1>11. fatal' = "none"
  BY <1>1, <1>3
<1> QED
  BY <1>6, <1>7, <1>8, <1>9, <1>10, <1>11, HandleKeepsThreads DEF IndInv

\* NotifyLearnAfterCacheGet and ...List keep the invariant.
LEMMA CacheReadKeeps ==
    ASSUME IndInv, NEW w \in Workers, NotifyLearnAfterCacheRead(w)
    PROVE  IndInv'
<1> DEFINE n == Notification(w, "cacheRead", "after", -1)
<1>0. w \in Threads /\ w \notin Receivers
  BY LearnAssumption DEF Threads
<1>1. /\ pc[w] = "idle" /\ Handle(w, n)
      /\ UNCHANGED <<reconciling, nextID, waitingCh, reconcileChMap, serverVars,
                     notificationCh, fatal>>
  BY DEF NotifyLearnAfterCacheRead
<1>2. n \in Notifications /\ n.thread = w /\ n.kind = "cacheRead" /\ n.side = "after"
  BY <1>0 DEF Notification, Notifications, Kinds
<1> HIDE DEF n
<1>3. HandleStep(w, n)
  BY <1>0, <1>1, <1>2 DEF HandleStep, serverVars
<1>4. ~IsOperation(n)
  BY <1>2 DEF IsOperation, OperationKinds
<1>5. GoodLine(w, Len(did[w]))'
  <2>1. did'[w][Len(did'[w])] = n
    BY <1>3, HandleDid
  <2> QED
    BY <1>0, <1>2, <1>4, <2>1 DEF GoodLine
<1>6. TypeOK'
  BY <1>1, <1>3, HandleTypes DEF IndInv, TypeOK, serverVars
<1>7. CounterInv' /\ ReconcileInv'
  BY <1>1, <1>2, <1>3, LogSame, HandleKeepsReconciles DEF serverVars
<1>8. fatal' = "none"
  BY <1>1 DEF IndInv
<1> QED
  BY <1>3, <1>4, <1>5, <1>6, <1>7, <1>8, HandleKeepsLines, HandleKeepsIDs, HandleKeepsThreads
     DEF IndInv

\* The handlers that come before an operation keep the invariant.
LEMMA BeforeKeeps ==
    ASSUME IndInv, NEW t \in Threads, NEW kind \in KindsOf(t), NotifyLearnBefore(t, kind)
    PROVE  IndInv'
<1> DEFINE c == CounterOf(kind)
           n == Notification(t, kind, "before", nextID[c])
<1>1. /\ pc[t] = "idle" /\ Handle(t, n)
      /\ nextID' = [nextID EXCEPT ![c] = nextID[c] + 1]
      /\ waitingCh' = [waitingCh EXCEPT ![c] = Append(waitingCh[c], t)]
      /\ UNCHANGED <<reconciling, reconcileChMap, serverVars, notificationCh, fatal>>
  BY DEF NotifyLearnBefore
<1>2. /\ kind \in OperationKinds \cup {"recv"} /\ kind # "reconcile"
      /\ kind \in IF t \in Receivers THEN {"recv"}
                  ELSE OperationKinds \cup {"cacheRead", "reconcile"}
  BY DEF KindsOf, OperationKinds
<1>3. c \in Counters
  BY DEF CounterOf, Counters
<1>4. /\ nextID \in [Counters -> Nat] /\ waitingCh \in [Counters -> Seq(Threads)]
      /\ \A k \in Counters : Len(waitingCh[k]) = nextID[k]
  BY DEF IndInv, TypeOK, CounterInv
<1>5. n \in Notifications /\ n.thread = t /\ n.kind = kind /\ n.side = "before"
      /\ n.number = nextID[c]
  BY <1>2, <1>3, <1>4 DEF Notification, Notifications, Kinds
<1> HIDE DEF n, c
<1>6. /\ waitingCh[c] \in Seq(Threads) /\ nextID[c] \in Nat /\ Len(waitingCh[c]) = nextID[c]
      /\ waitingCh'[c] = Append(waitingCh[c], t) /\ nextID'[c] = nextID[c] + 1
      /\ \A k \in Counters : k # c => waitingCh'[k] = waitingCh[k] /\ nextID'[k] = nextID[k]
  BY <1>1, <1>3, <1>4
<1>7. /\ waitingCh'[c] \in Seq(Threads) /\ Len(waitingCh'[c]) = nextID[c] + 1
      /\ DOMAIN waitingCh'[c] = 1 .. (nextID[c] + 1) /\ waitingCh'[c][nextID[c] + 1] = t
      /\ DOMAIN waitingCh[c] = 1 .. nextID[c]
      /\ \A i \in 1 .. nextID[c] : waitingCh'[c][i] = waitingCh[c][i]
  BY <1>6
<1>8. ASSUME NEW k \in Counters, NEW i \in DOMAIN waitingCh[k]
      PROVE  i \in DOMAIN waitingCh'[k] /\ waitingCh'[k][i] = waitingCh[k][i]
  <2>1. CASE k = c
    <3>1. i \in 1 .. nextID[c] /\ i \in 1 .. (nextID[c] + 1)
      BY <1>6, <1>7, <2>1
    <3> QED
      BY <1>7, <2>1, <3>1
  <2>2. CASE k # c
    BY <1>6, <2>2
  <2> QED
    BY <2>1, <2>2
<1>9. HandleStep(t, n)
  BY <1>1, <1>5, <1>8 DEF HandleStep, serverVars
<1>10. IsOperation(n) /\ CounterOf(n.kind) = c
  BY <1>2, <1>5 DEF IsOperation, c
<1>11. GoodLine(t, Len(did[t]))'
  <2>1. did'[t][Len(did'[t])] = n
    BY <1>9, HandleDid
  <2>2. n.number + 1 \in DOMAIN waitingCh'[c] /\ waitingCh'[c][n.number + 1] = t
    BY <1>5, <1>6, <1>7
  <2>3. n.kind # "cacheRead" /\ n.kind # "reconcile"
    BY <1>2, <1>5 DEF OperationKinds
  <2> QED
    BY <1>2, <1>5, <1>10, <2>1, <2>2, <2>3 DEF GoodLine
<1>12. IDsDiffer'
  <2>1. ASSUME NEW u \in Threads, NEW j \in DOMAIN did[u], IsOperation(did[u][j]),
               did[u][j].side = "before", CounterOf(did[u][j].kind) = CounterOf(n.kind)
        PROVE  did[u][j].number # n.number
    <3>1. GoodLine(u, j)
      BY DEF IndInv, GoodLines
    <3>2. did[u][j].number + 1 \in DOMAIN waitingCh[c]
      BY <1>10, <2>1, <3>1 DEF GoodLine
    <3>3. did[u][j].number + 1 \in 1 .. nextID[c]
      BY <1>7, <3>2
    <3>4. did[u][j] \in Notifications
      BY DEF IndInv, TypeOK
    <3>5. did[u][j].number \in Int
      BY <3>4 DEF Notifications
    <3> QED
      BY <1>5, <1>6, <3>3, <3>5
  <2> QED
    BY <1>9, <2>1, HandleKeepsIDs
<1>13. TypeOK'
  <2>1. waitingCh' \in [Counters -> Seq(Threads)] /\ nextID' \in [Counters -> Nat]
    BY <1>1, <1>3, <1>4, <1>6, <1>7
  <2> QED
    BY <1>1, <1>9, <2>1, HandleTypes DEF IndInv, TypeOK, serverVars
<1>14. CounterInv'
  <2>1. \A k \in Counters : Len(waitingCh'[k]) = nextID'[k]
    BY <1>4, <1>6, <1>7
  <2>2. ongoingReconcileCnt' = ongoingReconcileCnt /\ logged' = logged
    BY <1>1 DEF serverVars
  <2> QED
    BY <2>1, <2>2 DEF IndInv, CounterInv, OpenReconciles
<1>15. ReconcileInv'
  BY <1>1, <1>2, <1>5, <1>9, HandleKeepsReconciles DEF serverVars
<1>16. fatal' = "none"
  BY <1>1 DEF IndInv
<1> QED
  BY <1>9, <1>11, <1>12, <1>13, <1>14, <1>15, <1>16, HandleKeepsLines, HandleKeepsThreads
     DEF IndInv

\* The handlers that come after an operation keep the invariant.
LEMMA AfterKeeps ==
    ASSUME IndInv, NEW t \in Threads, NotifyLearnAfter(t)
    PROVE  IndInv'
<1> DEFINE n == [req[t] EXCEPT !.side = "after"]
<1>1. /\ pc[t] = "busy" /\ Handle(t, n)
      /\ UNCHANGED <<reconciling, nextID, waitingCh, reconcileChMap, serverVars,
                     notificationCh, fatal>>
  BY DEF NotifyLearnAfter
<1>2. /\ did[t] # <<>> /\ req[t] = did[t][Len(did[t])] /\ req[t].side = "before"
      /\ req[t].kind # "reconcile"
  BY <1>1 DEF IndInv, ThreadInv
<1>3. did[t] \in Seq(Notifications) /\ req[t] \in Notifications
  BY DEF IndInv, TypeOK
<1>4. Len(did[t]) \in DOMAIN did[t] /\ Len(did[t]) \in Nat \ {0}
  BY <1>2, <1>3, EmptySeq
<1>5. GoodLine(t, Len(did[t]))
  BY <1>4 DEF IndInv, GoodLines
<1>6. /\ req[t].thread = t /\ req[t].kind # "cacheRead"
      /\ req[t].kind \in IF t \in Receivers THEN {"recv"}
                         ELSE OperationKinds \cup {"cacheRead", "reconcile"}
  BY <1>2, <1>5 DEF GoodLine
<1>7. /\ n \in Notifications /\ n.thread = t /\ n.kind = req[t].kind /\ n.side = "after"
      /\ req[t] = [n EXCEPT !.side = "before"]
  BY <1>2, <1>3, <1>6 DEF Notifications
<1> HIDE DEF n
<1>8. HandleStep(t, n)
  BY <1>1, <1>7 DEF HandleStep, serverVars
<1>9. GoodLine(t, Len(did[t]))'
  <2>1. did'[t][Len(did'[t])] = n /\ Len(did'[t]) = Len(did[t]) + 1
    BY <1>8, HandleDid
  <2>2. did'[t][Len(did'[t]) - 1] = req[t] /\ Len(did'[t]) > 1
    BY <1>2, <1>4, <1>8, <2>1, HandleDid
  <2> QED
    BY <1>2, <1>6, <1>7, <2>1, <2>2 DEF GoodLine
<1>10. IDsDiffer'
  BY <1>7, <1>8, HandleKeepsIDs
<1>11. TypeOK'
  BY <1>1, <1>8, HandleTypes DEF IndInv, TypeOK, serverVars
<1>12. CounterInv' /\ ReconcileInv'
  BY <1>1, <1>2, <1>7, <1>8, LogSame, HandleKeepsReconciles DEF serverVars
<1>13. fatal' = "none"
  BY <1>1 DEF IndInv
<1> QED
  BY <1>8, <1>9, <1>10, <1>11, <1>12, <1>13, HandleKeepsLines, HandleKeepsThreads DEF IndInv

\* What follows for a step that writes no line of a reconcile.
LEMMA OperationStep ==
    ASSUME IndInv, NEW S, LogStep(S), \A n \in S : n.kind # "reconcile", TypeOK',
           UNCHANGED <<reconciling, ongoingReconcileCnt, reconcileCntMap, fatal>>,
           \A w \in Workers : ~(pc[w] = "wait" /\ pc'[w] = "idle")
    PROVE  IndInv'
<1>1. CounterInv' /\ \A t \in Threads, side \in {"before", "after"} :
                       Count(logged'[t], side) = Count(logged[t], side)
  BY LogStepKeepsCounters
<1>2. ReconcileInv'
  <2>1. \A w \in Workers : w \in reconciling' => reconcileChMap[w] = "channel"
    BY DEF IndInv, ReconcileInv
  <2>2. \A w \in Workers : reconcileCntMap'[w] + 1 = Count(logged'[w], "before")
    <3>1. \A w \in Workers : reconcileCntMap[w] + 1 = Count(logged[w], "before")
      BY DEF IndInv, ReconcileInv, Count
    <3> QED
      BY <1>1, <3>1 DEF Threads
  <2> QED
    BY <2>1, <2>2, LogStepKeepsReconciles
<1> QED
  BY <1>1, <1>2, LogStepKeepsLines, LogStepKeepsThreads DEF IndInv

\* The return of a REST call keeps the invariant.
LEMMA RestCallReturnsKeeps ==
    ASSUME IndInv, NEW t \in Threads, AfterRestCallReturns(t)
    PROVE  IndInv'
<1>1. /\ pc[t] = "busy" /\ pc' = [pc EXCEPT ![t] = "idle"]
      /\ UNCHANGED <<req, reconciling, ops, nextID, waitingCh, reconcileChMap, did,
                     serverVars, notificationCh, fatal>>
  BY DEF AfterRestCallReturns
<1>2. pc \in [Threads -> {"idle", "send", "wait", "busy"}]
  BY DEF IndInv, TypeOK
<1>3. TypeOK'
  <2>1. pc' \in [Threads -> {"idle", "send", "wait", "busy"}]
    BY <1>1, <1>2
  <2> QED
    BY <1>1, <2>1 DEF IndInv, TypeOK, serverVars
<1>4. \A u \in Threads : Pending(u)' = Pending(u)
  <2>1. \A u \in Threads : Unsent(u)' = Unsent(u)
    BY <1>1, <1>2 DEF Unsent
  <2> QED
    BY <1>1, <2>1 DEF Pending, serverVars
<1>5. \A u \in Threads : Pending(u)' \in Seq(Notifications)
  <2>1. \A u \in Threads : Pending(u) \in Seq(Notifications)
    BY PendingParts, QueuedType DEF Pending, Queued, IndInv
  <2> QED
    BY <1>4, <2>1
<1>6. LogStep({})
  <2>1. Written({})
    BY <1>1, NothingWritten DEF serverVars
  <2>2. logged'[t] = did[t]
    BY <1>1 DEF IndInv, ThreadInv, serverVars
  <2>3. \A u \in Threads :
         \/ pc'[u] = pc[u]
         \/ /\ pc[u] = "busy" /\ pc'[u] = "idle" /\ logged'[u] = did[u]
    BY <1>1, <1>2, <2>2
  <2> QED
    BY <1>1, <1>4, <1>5, <2>1, <2>3 DEF LogStep
<1>7. \A w \in Workers : ~(pc[w] = "wait" /\ pc'[w] = "idle")
  BY <1>1, <1>2 DEF Threads
<1> QED
  BY <1>1, <1>3, <1>6, <1>7, OperationStep DEF serverVars

\* Putting a notification into notificationCh keeps the invariant.
LEMMA SendKeeps ==
    ASSUME IndInv, NEW t \in Threads, SendNotification(t)
    PROVE  IndInv'
<1>1. /\ pc[t] = "send" /\ notificationCh' = Append(notificationCh, req[t])
      /\ pc' = [pc EXCEPT ![t] = IF req[t].side = "before" THEN "wait" ELSE "idle"]
      /\ UNCHANGED <<req, reconciling, ops, nextID, waitingCh, reconcileChMap, did,
                     serverVars, fatal>>
  BY DEF SendNotification
<1>2. /\ pc \in [Threads -> {"idle", "send", "wait", "busy"}]
      /\ notificationCh \in Seq(Notifications) /\ req[t] \in Notifications
  BY DEF IndInv, TypeOK
<1>3. TypeOK'
  <2>1. pc' \in [Threads -> {"idle", "send", "wait", "busy"}]
    BY <1>1, <1>2
  <2>2. notificationCh' \in Seq(Notifications)
    BY <1>1, <1>2
  <2> QED
    BY <1>1, <2>1, <2>2 DEF IndInv, TypeOK, serverVars
<1>4. req[t].thread = t
  <2>1. did[t] # <<>> /\ req[t] = did[t][Len(did[t])] /\ did[t] \in Seq(Notifications)
    BY <1>1 DEF IndInv, ThreadInv, TypeOK
  <2>2. GoodLine(t, Len(did[t]))
    BY <2>1, EmptySeq DEF IndInv, GoodLines
  <2> QED
    BY <2>1, <2>2 DEF GoodLine
<1>5. \A u \in Threads : Pending(u) \in Seq(Notifications)
  BY PendingParts, QueuedType DEF Pending, Queued, IndInv
<1>6. ASSUME NEW u \in Threads
      PROVE  Pending(u)' = Pending(u)
  <2> DEFINE a == Of(rateLimitedEventCh, u)
             b == Of(pushing, u)
             c == Of(notificationCh, u)
             n == req[t]
  <2>1. a \in Seq(Notifications) /\ b \in Seq(Notifications) /\ c \in Seq(Notifications)
    BY PendingParts DEF IndInv
  <2>2. Of(notificationCh, u)' = IF t = u THEN Append(c, n) ELSE c
    <3>1. Of(Append(notificationCh, n), u) = IF n.thread = u THEN Append(c, n) ELSE c
      BY <1>2, OfAppend
    <3> QED
      BY <1>1, <1>4, <3>1
  <2>3. Of(rateLimitedEventCh, u)' = a /\ Of(pushing, u)' = b
    BY <1>1 DEF serverVars
  <2>4. CASE u = t
    <3>1. Unsent(u) = <<n>> /\ Unsent(u)' = <<>>
      BY <1>1, <1>2, <2>4 DEF Unsent
    <3>2. Pending(u) = Queued(a, b, c, <<n>>)
      BY <3>1 DEF Pending, Queued
    <3>3. Pending(u)' = Queued(a, b, Append(c, n), <<>>)
      BY <2>2, <2>3, <2>4, <3>1 DEF Pending, Queued
    <3> HIDE DEF a, b, c, n
    <3>4. Queued(a, b, c, <<n>>) = Queued(a, b, Append(c, n), <<>>)
      BY <1>2, <2>1, PutNotification DEF n
    <3> QED
      BY <3>2, <3>3, <3>4
  <2>5. CASE u # t
    <3>1. Unsent(u)' = Unsent(u)
      BY <1>1, <1>2, <2>5 DEF Unsent
    <3> QED
      BY <2>2, <2>3, <2>5, <3>1 DEF Pending
  <2> QED
    BY <2>4, <2>5
<1>7. LogStep({})
  <2>1. Written({})
    BY <1>1, NothingWritten DEF serverVars
  <2>2. \A u \in Threads :
         \/ pc'[u] = pc[u]
         \/ pc[u] = "send" /\ pc'[u] = IF req[u].side = "before" THEN "wait" ELSE "idle"
    BY <1>1, <1>2
  <2> QED
    BY <1>1, <1>5, <1>6, <2>1, <2>2 DEF LogStep
<1>8. \A w \in Workers : ~(pc[w] = "wait" /\ pc'[w] = "idle")
  BY <1>1, <1>2 DEF Threads
<1> QED
  BY <1>1, <1>3, <1>7, <1>8, OperationStep DEF serverVars

-----------------------------------------------------------------------------
(* The steps of coordinatingEvents.                                         *)

\* What is left of a thread in a queue whose head is taken out.
LEMMA OfShorter ==
    ASSUME NEW q \in Seq(Notifications), q # <<>>, NEW u
    PROVE  /\ Of(Tail(q), u) \in Seq(Notifications)
           /\ u = Head(q).thread => Of(q, u) = <<Head(q)>> \o Of(Tail(q), u)
           /\ u # Head(q).thread => Of(Tail(q), u) = Of(q, u)
<1>1. Tail(q) \in Seq(Notifications)
  OBVIOUS
<1>2. Of(Tail(q), u) \in Seq(Notifications)
  <2>1. Of(Tail(q), u) \in Seq({n \in Notifications : n.thread = u})
    BY <1>1, OfType
  <2> QED
    BY <2>1, SeqMonotonic
<1>3. Of(q, u) = (IF Head(q).thread = u THEN <<Head(q)>> ELSE <<>>) \o Of(Tail(q), u)
  BY OfTail
<1>4. <<>> \o Of(Tail(q), u) = Of(Tail(q), u)
  BY <1>2, ConcatEmptySeq
<1> QED
  BY <1>2, <1>3, <1>4

\* A thread whose queues are the same has the same lines to write.
LEMMA PendingSame ==
    ASSUME IndInv, NEW u \in Threads, Unsent(u)' = Unsent(u),
           Of(rateLimitedEventCh, u)' = Of(rateLimitedEventCh, u),
           Of(pushing, u)' = Of(pushing, u), Of(notificationCh, u)' = Of(notificationCh, u)
    PROVE  Pending(u)' = Pending(u) /\ Pending(u)' \in Seq(Notifications)
<1>1. Pending(u)' = Pending(u)
  BY DEF Pending
<1>2. Pending(u) \in Seq(Notifications)
  BY PendingParts, QueuedType DEF Pending, Queued, IndInv
<1> QED
  BY <1>1, <1>2

\* The notification that is taken is written at once.
LEMMA PendingAfterHead ==
    ASSUME IndInv, pushing = <<>>, notificationCh # <<>>,
           pushing' = pushing, notificationCh' = Tail(notificationCh),
           NEW u \in Threads, Unsent(u)' = Unsent(u),
           Of(rateLimitedEventCh, u)' = Of(rateLimitedEventCh, u)
    PROVE  /\ u = Head(notificationCh).thread =>
                Pending(u) = <<Head(notificationCh)>> \o Pending(u)'
           /\ u # Head(notificationCh).thread => Pending(u)' = Pending(u)
           /\ Pending(u)' \in Seq(Notifications)
<1> DEFINE n == Head(notificationCh)
           q == Of(Tail(notificationCh), u)
           e == Unsent(u)
<1>1. notificationCh \in Seq(Notifications)
  BY DEF IndInv, TypeOK
<1>2. Of(notificationCh, u)' = q
  OBVIOUS
<1>3. Of(pushing, u) = <<>> /\ Of(pushing, u)' = <<>>
  BY OfEmpty
<1>4. q \in Seq(Notifications) /\ e \in Seq(Notifications) /\ n \in Notifications
  <2>1. q \in Seq(Notifications)
    BY <1>1, OfShorter
  <2>2. e \in Seq(Notifications)
    BY PendingParts DEF IndInv
  <2>3. n \in Notifications
    BY <1>1
  <2> QED
    BY <2>1, <2>2, <2>3
<1>5. CASE u = n.thread
  <2>1. Of(notificationCh, u) = <<n>> \o q
    BY <1>1, <1>5, OfShorter
  <2>2. Of(rateLimitedEventCh, u) = <<>>
    BY <1>5, HeadIsNext
  <2>3. Pending(u) = Queued(<<>>, <<>>, <<n>> \o q, e)
    BY <1>3, <2>1, <2>2 DEF Pending, Queued
  <2>4. Pending(u)' = Queued(<<>>, <<>>, q, e)
    BY <1>2, <1>3, <2>2 DEF Pending, Queued
  <2> HIDE DEF n, q, e
  <2>5. Queued(<<>>, <<>>, <<n>> \o q, e) = <<n>> \o Queued(<<>>, <<>>, q, e)
    BY <1>4, TakeNotification
  <2>7. Queued(<<>>, <<>>, q, e) \in Seq(Notifications)
    BY <1>4, QueuedType, EmptySeq
  <2>6. Pending(u) = <<n>> \o Pending(u)' /\ Pending(u)' \in Seq(Notifications)
    BY <2>3, <2>4, <2>5, <2>7
  <2> QED
    BY <1>5, <2>6 DEF n
<1>6. CASE u # n.thread
  <2>1. Of(notificationCh, u)' = Of(notificationCh, u)
    BY <1>1, <1>2, <1>6, OfShorter
  <2> QED
    BY <1>3, <1>6, <2>1, PendingSame
<1> QED
  BY <1>5, <1>6

\* The event that is polled.
LEMMA PendingAfterEvent ==
    ASSUME IndInv, rateLimitedEventCh # <<>>,
           rateLimitedEventCh' = Tail(rateLimitedEventCh), pushing' = pushing,
           NEW u \in Threads, Unsent(u)' = Unsent(u),
           Of(notificationCh, u)' = Of(notificationCh, u)
    PROVE  /\ u = Head(rateLimitedEventCh).thread =>
                Pending(u) = <<Head(rateLimitedEventCh)>> \o Pending(u)'
           /\ u # Head(rateLimitedEventCh).thread =>
                Of(rateLimitedEventCh, u)' = Of(rateLimitedEventCh, u) /\ Pending(u)' = Pending(u)
           /\ Pending(u)' \in Seq(Notifications)
<1> DEFINE n == Head(rateLimitedEventCh)
           q == Of(Tail(rateLimitedEventCh), u)
           b == Of(pushing, u)
           c == Of(notificationCh, u)
           e == Unsent(u)
<1>1. rateLimitedEventCh \in Seq(Notifications)
  BY EventsAreNotifications, SeqMonotonic DEF IndInv, TypeOK
<1>2. Of(rateLimitedEventCh, u)' = q /\ Of(pushing, u)' = b
  OBVIOUS
<1>4. q \in Seq(Notifications) /\ b \in Seq(Notifications) /\ c \in Seq(Notifications)
      /\ e \in Seq(Notifications) /\ n \in Notifications
  <2>1. q \in Seq(Notifications)
    BY <1>1, OfShorter
  <2>2. b \in Seq(Notifications) /\ c \in Seq(Notifications) /\ e \in Seq(Notifications)
    BY PendingParts DEF IndInv
  <2>3. n \in Notifications
    BY <1>1
  <2> QED
    BY <2>1, <2>2, <2>3
<1>5. CASE u = n.thread
  <2>1. Of(rateLimitedEventCh, u) = <<n>> \o q
    BY <1>1, <1>5, OfShorter
  <2>3. Pending(u) = Queued(<<n>> \o q, b, c, e)
    BY <2>1 DEF Pending, Queued
  <2>4. Pending(u)' = Queued(q, b, c, e)
    BY <1>2 DEF Pending, Queued
  <2> HIDE DEF n, q, b, c, e
  <2>5. Queued(<<n>> \o q, b, c, e) = <<n>> \o Queued(q, b, c, e)
    <3>1. Queued(First(n, q), b, c, e) = First(n, Queued(q, b, c, e))
      BY <1>4, TakeEvent
    <3> QED
      BY <3>1 DEF First
  <2>7. Queued(q, b, c, e) \in Seq(Notifications)
    BY <1>4, QueuedType
  <2>6. Pending(u) = <<n>> \o Pending(u)' /\ Pending(u)' \in Seq(Notifications)
    BY <2>3, <2>4, <2>5, <2>7
  <2> QED
    BY <1>5, <2>6 DEF n
<1>6. CASE u # n.thread
  <2>1. Of(rateLimitedEventCh, u)' = Of(rateLimitedEventCh, u)
    BY <1>1, <1>2, <1>6, OfShorter
  <2> QED
    BY <1>2, <1>6, <2>1, PendingSame
<1> QED
  BY <1>5, <1>6

\* When a line before an operation is written, its thread has nothing else to write.
LEMMA LastWritten ==
    ASSUME IndInv, NEW S, Written(S), NEW n \in S, IsNext(n),
           Len(did[n.thread]) = Len(logged[n.thread]) + 1
    PROVE  logged'[n.thread] = did[n.thread]
<1> DEFINE t == n.thread
<1>1. t \in Threads /\ logged[t] \in Seq(Notifications) /\ did[t] \in Seq(Notifications)
      /\ n \in Notifications
  BY DEF IsNext, IndInv, TypeOK
<1>2. logged'[t] = Append(logged[t], n)
  BY <1>1 DEF Written, IsNext
<1>3. \A i \in 1 .. Len(logged[t]) : did[t][i] = logged[t][i]
  BY <1>1, DidAndLogged
<1>4. did[t][Len(logged[t]) + 1] = n
  BY DEF IsNext
<1> DEFINE l == logged[t]
           d == did[t]
<1>5. /\ l \in Seq(Notifications) /\ d \in Seq(Notifications) /\ Len(d) = Len(l) + 1
      /\ \A i \in 1 .. Len(l) : d[i] = l[i]
      /\ d[Len(l) + 1] = n
  BY <1>1, <1>3, <1>4
<1> HIDE DEF l, d, t
<1>6. d = Append(l, n)
  <2>1. Append(l, n) \in Seq(Notifications) /\ Len(Append(l, n)) = Len(l) + 1
    BY <1>1, <1>5
  <2>2. ASSUME NEW i \in 1 .. Len(d) PROVE d[i] = Append(l, n)[i]
    BY <1>1, <1>5
  <2> QED
    BY <1>5, <2>1, <2>2, SeqEqual
<1> QED
  BY <1>2, <1>6 DEF l, d, t

\* What coordinatingEvents takes out of notificationCh is the next line of its thread.
LEMMA Received ==
    ASSUME IndInv, NEW kind, NEW side, Receive(kind, side)
    PROVE  LET n == Head(notificationCh)
           IN  /\ pushing = <<>> /\ notificationCh # <<>>
               /\ notificationCh' = Tail(notificationCh)
               /\ notificationCh' \in Seq(Notifications)
               /\ n \in Notifications /\ n.thread \in Threads /\ n.kind = kind /\ n.side = side
               /\ IsNext(n)
<1>1. /\ pushing = <<>> /\ notificationCh # <<>> /\ notificationCh' = Tail(notificationCh)
      /\ Head(notificationCh).kind = kind /\ Head(notificationCh).side = side
  BY DEF Receive
<1>2. notificationCh \in Seq(Notifications)
  BY DEF IndInv, TypeOK
<1>3. notificationCh' \in Seq(Notifications)
  BY <1>1, <1>2
<1>4. IsNext(Head(notificationCh))
  BY <1>1, HeadIsNext DEF IsNext
<1>5. Head(notificationCh) \in Notifications /\ Head(notificationCh).thread \in Threads
  BY <1>4 DEF IsNext
<1> QED
  BY <1>1, <1>3, <1>4, <1>5

\* pc changes, but no handler begins or sends.
LEMMA UnsentSame ==
    ASSUME req' = req, NEW u, pc'[u] = pc[u] \/ (pc[u] # "send" /\ pc'[u] # "send")
    PROVE  Unsent(u)' = Unsent(u)
BY DEF Unsent

\* The line before an operation is written, and the operation goes on.
LEMMA ReleaseKeeps ==
    ASSUME IndInv, NEW kind \in OperationKinds \cup {"recv"}, Receive(kind, "before"),
           LogAndRelease(Head(notificationCh)),
           UNCHANGED <<unchangedByServer, reconciling, rateLimitedEventCh,
                       ongoingReconcileCnt, reconcileCntMap, pushing, fatal>>
    PROVE  IndInv'
<1> DEFINE n == Head(notificationCh)
           t == n.thread
<1>1. /\ pushing = <<>> /\ notificationCh # <<>>
      /\ notificationCh' = Tail(notificationCh) /\ notificationCh' \in Seq(Notifications)
      /\ t \in Threads /\ n.kind = kind /\ n.side = "before" /\ IsNext(n)
  BY Received
<1>2. pc[t] = "wait" /\ req[t] = n /\ Len(did[t]) = Len(logged[t]) + 1
  BY <1>1, HeadIsNext
<1>3. IsOperation(n) /\ kind # "reconcile"
  BY <1>1 DEF IsOperation, OperationKinds
<1>4. WaiterOf(n) = t
  BY <1>1, <1>3, WaiterIsThread DEF IsNext
<1>5. Log(t, n) /\ pc' = [pc EXCEPT ![t] = "busy"]
  BY <1>4 DEF LogAndRelease, Released
<1> HIDE DEF n
<1>6. Written({n})
  BY <1>1, <1>5, LogWrites
<1>7. logged'[t] = did[t]
  BY <1>1, <1>2, <1>6, LastWritten
<1>8. pc \in [Threads -> {"idle", "send", "wait", "busy"}]
  BY DEF IndInv, TypeOK
<1>9. UNCHANGED <<rateLimiterEnabled, req, ops, nextID, waitingCh, reconcileChMap, did>>
  BY DEF unchangedByServer
<1>10. TypeOK'
  <2>1. pc' \in [Threads -> {"idle", "send", "wait", "busy"}]
    BY <1>5, <1>8
  <2> QED
    BY <1>1, <1>6, <1>9, <2>1 DEF IndInv, TypeOK, Written
<1>11. \A u \in Threads : Unsent(u)' = Unsent(u)
  BY <1>1, <1>2, <1>5, <1>8, <1>9, UnsentSame
<1>12. \A u \in Threads : /\ u = t => Pending(u) = <<n>> \o Pending(u)'
                          /\ u # t => Pending(u)' = Pending(u)
                          /\ Pending(u)' \in Seq(Notifications)
  <2>1. \A u \in Threads : Of(rateLimitedEventCh, u)' = Of(rateLimitedEventCh, u)
    OBVIOUS
  <2> QED
    BY <1>1, <1>11, <2>1, PendingAfterHead DEF n
<1>13. LogStep({n})
  <2>1. \A u \in Threads :
         \/ pc'[u] = pc[u]
         \/ /\ pc[u] = "wait" /\ pc'[u] = "busy" /\ logged'[u] = did[u]
            /\ req[u].side = "before" /\ req[u].kind # "reconcile"
    BY <1>1, <1>2, <1>3, <1>5, <1>7, <1>8
  <2> QED
    BY <1>1, <1>6, <1>9, <1>12, <2>1 DEF LogStep
<1>14. \A w \in Workers : ~(pc[w] = "wait" /\ pc'[w] = "idle")
  BY <1>1, <1>5, <1>8 DEF Threads
<1> QED
  BY <1>1, <1>3, <1>10, <1>13, <1>14, OperationStep

\* Logging the begin of an operation keeps the invariant.
LEMMA BeforeOperationKeeps ==
    ASSUME IndInv, NEW kind \in OperationKinds, BeforeOperation(kind)
    PROVE  IndInv'
BY ReleaseKeeps DEF BeforeOperation

\* Logging the end of an operation keeps the invariant.
LEMMA AfterOperationKeeps ==
    ASSUME IndInv, NEW kind \in OperationKinds \cup {"recv", "cacheRead"}, AfterOperation(kind)
    PROVE  IndInv'
<1> DEFINE n == Head(notificationCh)
           t == n.thread
<1>0. Receive(kind, "after") /\ Log(t, n)
      /\ UNCHANGED <<pc, reconciling, rateLimitedEventCh, ongoingReconcileCnt,
                     reconcileCntMap, pushing, fatal>>
      /\ UNCHANGED <<rateLimiterEnabled, req, ops, nextID, waitingCh, reconcileChMap, did>>
  BY DEF AfterOperation, unchangedByServer
<1>1. /\ pushing = <<>> /\ notificationCh # <<>>
      /\ notificationCh' = Tail(notificationCh) /\ notificationCh' \in Seq(Notifications)
      /\ t \in Threads /\ n.kind = kind /\ IsNext(n)
  BY <1>0, Received
<1>2. Written({n})
  BY <1>0, <1>1, LogWrites
<1>3. n.kind # "reconcile"
  BY <1>1 DEF OperationKinds
<1>4. TypeOK'
  BY <1>0, <1>1, <1>2 DEF IndInv, TypeOK, Written
<1>5. \A u \in Threads : /\ u = t => Pending(u) = <<n>> \o Pending(u)'
                         /\ u # t => Pending(u)' = Pending(u)
                         /\ Pending(u)' \in Seq(Notifications)
  <2>1. \A u \in Threads : Of(rateLimitedEventCh, u)' = Of(rateLimitedEventCh, u)
                           /\ Unsent(u)' = Unsent(u)
    BY <1>0 DEF Unsent
  <2> QED
    BY <1>0, <1>1, <2>1, PendingAfterHead
<1> HIDE DEF n
<1>6. LogStep({n})
  BY <1>0, <1>1, <1>2, <1>5 DEF LogStep
<1>7. \A w \in Workers : ~(pc[w] = "wait" /\ pc'[w] = "idle")
  BY <1>0
<1> QED
  BY <1>0, <1>3, <1>4, <1>6, <1>7, OperationStep

\* An event is held back: in rateLimitedEventCh, or by coordinatingEvents itself.
LEMMA HoldBackKeeps ==
    ASSUME IndInv, Receive("recv", "before"), NEW n, n = Head(notificationCh),
           \/ rateLimitedEventCh' = Append(rateLimitedEventCh, n) /\ UNCHANGED pushing
           \/ pushing' = <<n>> /\ UNCHANGED rateLimitedEventCh,
           UNCHANGED <<pc, logged, unchangedByServer, reconciling, ongoingReconcileCnt,
                       reconcileCntMap, fatal>>
    PROVE  IndInv'
<1> DEFINE t == n.thread
<1>0. UNCHANGED <<rateLimiterEnabled, req, ops, nextID, waitingCh, reconcileChMap, did>>
  BY DEF unchangedByServer
<1>1. /\ pushing = <<>> /\ notificationCh # <<>>
      /\ notificationCh' = Tail(notificationCh) /\ notificationCh' \in Seq(Notifications)
      /\ t \in Threads /\ n.kind = "recv" /\ n.side = "before" /\ IsNext(n)
      /\ n \in Notifications
  BY Received
<1>2. Of(rateLimitedEventCh, t) = <<>>
  BY <1>1, HeadIsNext
<1>3. n \in Events
  <2>1. Len(logged[t]) + 1 \in DOMAIN did[t] /\ did[t][Len(logged[t]) + 1] = n
    BY <1>1 DEF IsNext, IndInv, TypeOK
  <2>2. GoodLine(t, Len(logged[t]) + 1)
    BY <1>1, <2>1 DEF IndInv, GoodLines
  <2>3. t \in Receivers
    BY <1>1, <2>1, <2>2 DEF GoodLine, OperationKinds
  <2> QED
    BY <1>1, <2>3 DEF Events, Notifications
<1>4. TypeOK'
  <2>1. rateLimitedEventCh \in Seq(Events) /\ pushing \in Seq(Events)
    BY DEF IndInv, TypeOK
  <2>2. rateLimitedEventCh' \in Seq(Events) /\ pushing' \in Seq(Events)
    <3>1. Append(rateLimitedEventCh, n) \in Seq(Events) /\ <<n>> \in Seq(Events)
      BY <1>3, <2>1
    <3> QED
      BY <2>1, <3>1
  <2> QED
    BY <1>0, <1>1, <2>2 DEF IndInv, TypeOK
<1>5. ASSUME NEW u \in Threads
      PROVE  Pending(u)' = Pending(u) /\ Pending(u)' \in Seq(Notifications)
  <2> DEFINE q == Of(Tail(notificationCh), u)
             e == Unsent(u)
  <2>0. notificationCh \in Seq(Notifications) /\ rateLimitedEventCh \in Seq(Events)
    BY DEF IndInv, TypeOK
  <2>1. Unsent(u)' = e /\ Of(notificationCh, u)' = q
    BY <1>0, <1>1 DEF Unsent
  <2>2. q \in Seq(Notifications)
    BY <1>1, <2>0, OfShorter
  <2>3. e \in Seq(Notifications)
    BY PendingParts DEF IndInv
  <2>4. Of(pushing, u) = <<>>
    BY <1>1, OfEmpty
  <2>5. Of(<<n>>, u) = IF t = u THEN <<n>> ELSE <<>>
    <3> DEFINE s == <<>>
    <3>0. s \in Seq(Notifications) /\ n \in Notifications
      BY <1>1
    <3>1. Append(s, n) = <<n>> /\ Of(s, u) = s /\ s = <<>>
      BY <1>1, OfEmpty
    <3> HIDE DEF s
    <3>2. Of(Append(s, n), u) = IF n.thread = u THEN Append(Of(s, u), n) ELSE Of(s, u)
      BY <3>0, OfAppend
    <3> QED
      BY <3>1, <3>2
  <2>6. Of(Append(rateLimitedEventCh, n), u) =
          IF t = u THEN Append(Of(rateLimitedEventCh, u), n) ELSE Of(rateLimitedEventCh, u)
    BY <1>3, <2>0, OfAppend
  <2>7. CASE u = t
    <3>1. Of(notificationCh, u) = <<n>> \o q
      BY <1>1, <2>0, <2>7, OfShorter
    <3>2. Pending(u) = Queued(<<>>, <<>>, <<n>> \o q, e)
      BY <1>2, <2>4, <2>7, <3>1 DEF Pending, Queued
    <3>3. \/ Of(rateLimitedEventCh, u)' = <<n>> /\ Of(pushing, u)' = <<>>
          \/ Of(rateLimitedEventCh, u)' = <<>> /\ Of(pushing, u)' = <<n>>
      <4>1. CASE rateLimitedEventCh' = Append(rateLimitedEventCh, n) /\ UNCHANGED pushing
        <5>1. Append(<<>>, n) = <<n>>
          OBVIOUS
        <5>2. Of(rateLimitedEventCh, u)' = Append(<<>>, n)
          BY <1>2, <2>6, <2>7, <4>1
        <5>3. Of(pushing, u)' = <<>>
          BY <2>4, <4>1
        <5> QED
          BY <5>1, <5>2, <5>3
      <4>2. CASE pushing' = <<n>> /\ UNCHANGED rateLimitedEventCh
        BY <1>2, <2>5, <2>7, <4>2
      <4> QED
        BY <4>1, <4>2
    <3>4. \/ Pending(u)' = Queued(<<n>>, <<>>, q, e)
          \/ Pending(u)' = Queued(<<>>, <<n>>, q, e)
      BY <2>1, <3>3 DEF Pending, Queued
    <3> HIDE DEF q, e
    <3>5. /\ Queued(<<>>, <<>>, <<n>> \o q, e) = Queued(<<n>>, <<>>, q, e)
          /\ Queued(<<>>, <<>>, <<n>> \o q, e) = Queued(<<>>, <<n>>, q, e)
      BY <1>1, <2>2, <2>3, TakeNotification
    <3>6. Queued(<<n>>, <<>>, q, e) \in Seq(Notifications)
      <4>1. <<n>> \in Seq(Notifications) /\ <<>> \in Seq(Notifications)
        BY <1>1
      <4> QED
        BY <2>2, <2>3, <4>1, QueuedType
    <3> QED
      BY <3>2, <3>4, <3>5, <3>6
  <2>8. CASE u # t
    <3>1. Of(notificationCh, u)' = Of(notificationCh, u)
      BY <1>1, <2>0, <2>1, <2>8, OfShorter
    <3>2. Of(rateLimitedEventCh, u)' = Of(rateLimitedEventCh, u)
      BY <2>6, <2>8
    <3>3. Of(pushing, u)' = Of(pushing, u)
      BY <2>4, <2>5, <2>8
    <3> QED
      BY <2>1, <3>1, <3>2, <3>3, PendingSame
  <2> QED
    BY <2>7, <2>8
<1>6. LogStep({})
  BY <1>0, <1>5, NothingWritten DEF LogStep
<1> QED
  BY <1>4, <1>6, OperationStep

\* Receiving an event keeps the invariant, whether it is logged or held back.
LEMMA BeforeControllerRecvKeeps ==
    ASSUME IndInv, BeforeControllerRecv
    PROVE  IndInv'
<1> DEFINE n == Head(notificationCh)
<1>1. /\ Receive("recv", "before")
      /\ UNCHANGED <<unchangedByServer, reconciling, ongoingReconcileCnt, reconcileCntMap, fatal>>
  BY Zenon DEF BeforeControllerRecv
<1>2. CASE rateLimiterEnabled
  <2>1. UNCHANGED <<pc, logged>>
    BY <1>2, Zenon DEF BeforeControllerRecv
  <2>2. \/ rateLimitedEventCh' = Append(rateLimitedEventCh, n) /\ UNCHANGED pushing
        \/ pushing' = <<n>> /\ UNCHANGED rateLimitedEventCh
    BY <1>2, Zenon DEF BeforeControllerRecv
  <2> QED
    BY <1>1, <2>1, <2>2, HoldBackKeeps
<1>3. CASE ~rateLimiterEnabled
  <2>1. LogAndRelease(n) /\ UNCHANGED <<rateLimitedEventCh, pushing>>
    BY <1>3, Zenon DEF BeforeControllerRecv
  <2> QED
    BY <1>1, <2>1, ReleaseKeeps
<1> QED
  BY <1>2, <1>3

\* pollRateLimitedEventCh takes out the next line of a receiver that waits for it.
LEMMA PolledLines ==
    ASSUME IndInv, NEW n \in Polled
    PROVE  /\ IsNext(n) /\ n.thread \in Receivers /\ n.kind = "recv" /\ n.side = "before"
           /\ Len(did[n.thread]) = Len(logged[n.thread]) + 1
           /\ pc[n.thread] = "wait" /\ req[n.thread] = n /\ WaiterOf(n) = n.thread
           /\ rateLimiterEnabled /\ rateLimitedEventCh # <<>> /\ n = Head(rateLimitedEventCh)
           /\ Polled = {n}
<1>1. rateLimiterEnabled /\ rateLimitedEventCh # <<>> /\ n = Head(rateLimitedEventCh)
      /\ Polled = {n}
  BY DEF Polled
<1>2. /\ n \in Events /\ n \in Notifications /\ n.thread \in Receivers /\ n.thread \in Threads
      /\ did[n.thread][Len(logged[n.thread]) + 1] = n
      /\ Len(did[n.thread]) = Len(logged[n.thread]) + 1
      /\ pc[n.thread] = "wait" /\ req[n.thread] = n
  BY <1>1, PolledIsNext
<1>3. Len(logged[n.thread]) < Len(did[n.thread])
  BY <1>2, PendingLengths
<1>4. IsNext(n) /\ n.kind = "recv" /\ n.side = "before"
  BY <1>2, <1>3 DEF IsNext, Events
<1>5. WaiterOf(n) = n.thread
  BY <1>2, <1>3, <1>4, WaiterIsThread DEF IsOperation
<1> QED
  BY <1>1, <1>2, <1>4, <1>5

\* What polling does to the threads and to their lines that are to be written.
LEMMA PollStep ==
    ASSUME IndInv, PollRateLimitedEventCh, UNCHANGED <<pushing, req>>
    PROVE  /\ pc' \in [Threads -> {"idle", "send", "wait", "busy"}]
           /\ rateLimitedEventCh' \in Seq(Events)
           /\ \A u \in Threads :
                \/ pc'[u] = pc[u]
                \/ pc[u] = "wait" /\ pc'[u] = "busy" /\ \E n \in Polled : n.thread = u
           /\ \A u \in Threads : Unsent(u)' = Unsent(u)
           /\ \A u \in Threads : ~(\E n \in Polled : n.thread = u) =>
                Of(rateLimitedEventCh, u)' = Of(rateLimitedEventCh, u)
           /\ \A n \in Polled :
                Of(notificationCh, n.thread)' = Of(notificationCh, n.thread) =>
                  /\ Pending(n.thread) = <<n>> \o Pending(n.thread)'
                  /\ Pending(n.thread)' \in Seq(Notifications)
<1>0. pc \in [Threads -> {"idle", "send", "wait", "busy"}] /\ rateLimitedEventCh \in Seq(Events)
  BY DEF IndInv, TypeOK
<1>1. CASE ~(rateLimiterEnabled /\ rateLimitedEventCh # <<>>)
  <2>1. Polled = {} /\ UNCHANGED <<rateLimitedEventCh, pc>>
    BY <1>1 DEF Polled, PollRateLimitedEventCh
  <2>2. \A u \in Threads : Unsent(u)' = Unsent(u)
    BY <2>1 DEF Unsent
  <2> QED
    BY <1>0, <2>1, <2>2
<1>2. CASE rateLimiterEnabled /\ rateLimitedEventCh # <<>>
  <2>0. PICK n : n = Head(rateLimitedEventCh)
    OBVIOUS
  <2> DEFINE t == n.thread
  <2>1. Polled = {n} /\ rateLimitedEventCh' = Tail(rateLimitedEventCh)
        /\ pc' = Released(WaiterOf(n))
    BY <1>2, <2>0 DEF Polled, PollRateLimitedEventCh
  <2>2. t \in Threads /\ pc[t] = "wait" /\ WaiterOf(n) = t
    BY <2>1, PolledLines DEF Threads
  <2>3. pc' = [pc EXCEPT ![t] = "busy"]
    BY <2>1, <2>2 DEF Released
  <2>4. rateLimitedEventCh' \in Seq(Events)
    BY <1>0, <1>2, <2>1
  <2>5. \A u \in Threads : pc'[u] = pc[u] \/ (pc[u] = "wait" /\ pc'[u] = "busy" /\ u = t)
    BY <1>0, <2>2, <2>3
  <2>6. \A u \in Threads : Unsent(u)' = Unsent(u)
    BY <2>5, UnsentSame
  <2>7. ASSUME NEW u \in Threads, u # t
        PROVE  Of(rateLimitedEventCh, u)' = Of(rateLimitedEventCh, u)
    <3>1. rateLimitedEventCh \in Seq(Notifications)
      BY <1>0, EventsAreNotifications, SeqMonotonic
    <3>2. Of(Tail(rateLimitedEventCh), u) = Of(rateLimitedEventCh, u)
      BY <1>2, <2>0, <2>7, <3>1, OfShorter
    <3> QED
      BY <2>1, <3>2
  <2>8. Of(notificationCh, t)' = Of(notificationCh, t) =>
          Pending(t) = <<n>> \o Pending(t)' /\ Pending(t)' \in Seq(Notifications)
    BY <1>2, <2>0, <2>1, <2>2, <2>6, PendingAfterEvent
  <2>9. pc' \in [Threads -> {"idle", "send", "wait", "busy"}]
    BY <1>0, <2>3
  <2> QED
    BY <2>1, <2>4, <2>5, <2>6, <2>7, <2>8, <2>9
<1> QED
  BY <1>1, <1>2

\* The tick that lets held-back events through keeps the invariant.
LEMMA IntervalKeeps ==
    ASSUME IndInv, Interval
    PROVE  IndInv'
<1>0. /\ PollRateLimitedEventCh /\ LogAll(Polled)
      /\ UNCHANGED <<rateLimiterEnabled, req, ops, nextID, waitingCh, reconcileChMap, did>>
      /\ UNCHANGED <<reconciling, notificationCh, ongoingReconcileCnt, reconcileCntMap,
                     pushing, fatal>>
  BY DEF Interval, unchangedByServer
<1>1. Written(Polled)
  BY <1>0, PolledLines, LogAllWrites
<1>2. TypeOK'
  <2>1. pc' \in [Threads -> {"idle", "send", "wait", "busy"}] /\ rateLimitedEventCh' \in Seq(Events)
    BY <1>0, PollStep
  <2> QED
    BY <1>0, <1>1, <2>1 DEF IndInv, TypeOK, Written
<1>3. LogStep(Polled)
  <2>1. \A n \in Polled : IsNext(n)
    BY PolledLines
  <2>2. ASSUME NEW u \in Threads
        PROVE  \/ pc'[u] = pc[u]
               \/ /\ pc[u] = "wait" /\ pc'[u] = "busy" /\ logged'[u] = did[u]
                  /\ req[u].side = "before" /\ req[u].kind # "reconcile"
    <3>1. CASE pc'[u] = pc[u]
      BY <3>1
    <3>2. CASE pc[u] = "wait" /\ pc'[u] = "busy" /\ \E n \in Polled : n.thread = u
      <4>1. PICK n \in Polled : n.thread = u
        BY <3>2
      <4>2. logged'[u] = did[u]
        BY <1>1, <4>1, PolledLines, LastWritten
      <4> QED
        BY <3>2, <4>1, <4>2, PolledLines
    <3> QED
      BY <1>0, <3>1, <3>2, PollStep
  <2>3. \A n \in Polled : Pending(n.thread) = <<n>> \o Pending(n.thread)'
                          /\ Pending(n.thread)' \in Seq(Notifications)
    BY <1>0, PollStep
  <2>4. \A u \in Threads : ~(\E n \in Polled : n.thread = u) =>
          Pending(u)' = Pending(u) /\ Pending(u)' \in Seq(Notifications)
    BY <1>0, PollStep, PendingSame
  <2> QED
    BY <1>0, <1>1, <2>1, <2>2, <2>3, <2>4 DEF LogStep
<1>4. \A n \in Polled : n.kind # "reconcile"
  BY PolledLines
<1>5. \A w \in Workers : ~(pc[w] = "wait" /\ pc'[w] = "idle")
  BY <1>0, PollStep DEF Threads
<1> QED
  BY <1>0, <1>2, <1>3, <1>4, <1>5, OperationStep

\* The line of a reconcile is written: what is open.
LEMMA ReconcileWritten ==
    ASSUME IndInv, NEW S, \A m \in S : IsNext(m), Written(S), NEW n \in S, n.kind = "reconcile",
           \A m \in S : m.kind = "reconcile" => m = n
    PROVE  LET w == n.thread
               Open == {v \in Workers : OpenReconciles(v) = 1}
               OpenAfter == {v \in Workers : OpenReconciles(v)' = 1}
           IN  /\ w \in Workers /\ IsFiniteSet(Open)
               /\ \A v \in Workers : v # w => OpenReconciles(v)' = OpenReconciles(v)
               /\ n.side = "before" =>
                    OpenReconciles(w) = 0 /\ OpenReconciles(w)' = 1 /\ OpenAfter = Open \cup {w}
               /\ n.side = "after" =>
                    OpenReconciles(w) = 1 /\ OpenReconciles(w)' = 0 /\ OpenAfter = Open \ {w}
<1> DEFINE w == n.thread
<1>1. IsNext(n) /\ n.side \in {"before", "after"}
  BY DEF IsNext, Notifications
<1>2. /\ w \in Workers /\ Count(logged[w], "after") \in Nat /\ Count(logged[w], "before") \in Nat
      /\ n.side = "before" => Count(logged[w], "before") = Count(logged[w], "after")
      /\ n.side = "after" => Count(logged[w], "before") = Count(logged[w], "after") + 1
  BY <1>1, NextReconcile
<1>3. \A v \in Workers, side \in {"before", "after"} :
        /\ Count(logged[v], side) \in Nat
        /\ Count(logged'[v], side) = Count(logged[v], side)
             + (IF \E m \in S : m.thread = v /\ m.kind = "reconcile" /\ m.side = side
                THEN 1 ELSE 0)
  BY WrittenCounts DEF Threads
<1>4. \A v \in Workers, side \in {"before", "after"} : v # w \/ n.side # side =>
        Count(logged'[v], side) = Count(logged[v], side)
  BY <1>3
<1>5. Count(logged'[w], n.side) = Count(logged[w], n.side) + 1
  BY <1>1, <1>2, <1>3
<1>6. \A v \in Workers : v # w => OpenReconciles(v)' = OpenReconciles(v)
  BY <1>4 DEF OpenReconciles, Count
<1>7. /\ OpenReconciles(w) = Count(logged[w], "before") - Count(logged[w], "after")
      /\ OpenReconciles(w)' = Count(logged'[w], "before") - Count(logged'[w], "after")
  BY DEF OpenReconciles, Count
<1>8. ASSUME n.side = "before" PROVE OpenReconciles(w) = 0 /\ OpenReconciles(w)' = 1
  BY <1>2, <1>4, <1>5, <1>7, <1>8
<1>9. ASSUME n.side = "after" PROVE OpenReconciles(w) = 1 /\ OpenReconciles(w)' = 0
  BY <1>2, <1>4, <1>5, <1>7, <1>9
<1>10. IsFiniteSet({v \in Workers : OpenReconciles(v) = 1})
  <2>1. IsFiniteSet(Workers)
    BY LearnAssumption, FS_Subset DEF Threads
  <2> QED
    BY <2>1, FS_Subset
<1> HIDE DEF w
<1>11. n.side = "before" => {v \in Workers : OpenReconciles(v)' = 1} =
                              {v \in Workers : OpenReconciles(v) = 1} \cup {w}
  BY <1>2, <1>6, <1>8
<1>12. n.side = "after" => {v \in Workers : OpenReconciles(v)' = 1} =
                              {v \in Workers : OpenReconciles(v) = 1} \ {w}
  BY <1>2, <1>6, <1>9
<1> QED
  BY <1>2, <1>6, <1>8, <1>9, <1>10, <1>11, <1>12 DEF w

\* Logging the begin of a reconcile keeps the invariant.
LEMMA BeforeControllerReconcileKeeps ==
    ASSUME IndInv, BeforeControllerReconcile
    PROVE  IndInv'
<1>n. PICK n : n = Head(notificationCh)
  OBVIOUS
<1> DEFINE w == n.thread
<1>0. /\ Receive("reconcile", "before")
      /\ ongoingReconcileCnt' = ongoingReconcileCnt + 1
      /\ reconcileCntMap' = [reconcileCntMap EXCEPT ![w] = reconcileCntMap[w] + 1]
      /\ Log(w, [n EXCEPT !.number = reconcileCntMap'[w]])
      /\ pc' = [pc EXCEPT ![w] = "idle"]
      /\ reconciling' = reconciling \cup {w}
      /\ UNCHANGED <<rateLimiterEnabled, req, ops, nextID, waitingCh, reconcileChMap, did>>
      /\ UNCHANGED <<rateLimitedEventCh, pushing, fatal>>
  BY <1>n DEF BeforeControllerReconcile, unchangedByServer
<1>1. /\ pushing = <<>> /\ notificationCh # <<>>
      /\ notificationCh' = Tail(notificationCh) /\ notificationCh' \in Seq(Notifications)
      /\ w \in Threads /\ n.kind = "reconcile" /\ n.side = "before" /\ IsNext(n)
      /\ n \in Notifications
  BY <1>n, <1>0, Received
<1>2. pc[w] = "wait" /\ req[w] = n /\ Len(did[w]) = Len(logged[w]) + 1
  BY <1>n, <1>1, HeadIsNext
<1>3. /\ w \in Workers /\ Count(logged[w], "after") \in Nat
      /\ n.number = Count(logged[w], "before")
      /\ Count(logged[w], "before") = Count(logged[w], "after")
  BY <1>1, NextReconcile
<1>4. /\ pc \in [Threads -> {"idle", "send", "wait", "busy"}]
      /\ reconcileCntMap \in [Workers -> Int] /\ ongoingReconcileCnt \in Int
      /\ reconciling \subseteq Workers
      /\ \A v \in Workers : reconcileCntMap[v] + 1 = Count(logged[v], "before")
  BY DEF IndInv, TypeOK, ReconcileInv, Count
<1>5. [n EXCEPT !.number = reconcileCntMap'[w]] = n
  <2>1. reconcileCntMap'[w] = n.number
    BY <1>0, <1>3, <1>4
  <2> QED
    BY <1>1, <2>1 DEF Notifications
<1>6. Written({n})
  BY <1>0, <1>1, <1>5, LogWrites
<1>7. logged'[w] = did[w]
  BY <1>1, <1>2, <1>6, LastWritten
<1>8. TypeOK'
  <2>1. pc' \in [Threads -> {"idle", "send", "wait", "busy"}]
        /\ reconcileCntMap' \in [Workers -> Int] /\ ongoingReconcileCnt' \in Int
        /\ reconciling' \subseteq Workers
    <3>1. pc' \in [Threads -> {"idle", "send", "wait", "busy"}] /\ reconciling' \subseteq Workers
      BY <1>0, <1>3, <1>4
    <3>2. reconcileCntMap' \in [Workers -> Int] /\ ongoingReconcileCnt' \in Int
      BY <1>0, <1>3, <1>4
    <3> QED
      BY <3>1, <3>2
  <2> QED
    BY <1>0, <1>1, <1>6, <2>1 DEF IndInv, TypeOK, Written
<1>9. \A u \in Threads : Unsent(u)' = Unsent(u)
  BY <1>0, <1>1, <1>2, <1>4, UnsentSame
<1>10. \A u \in Threads : /\ u = w => Pending(u) = <<n>> \o Pending(u)'
                          /\ u # w => Pending(u)' = Pending(u)
                          /\ Pending(u)' \in Seq(Notifications)
  <2>1. \A u \in Threads : Of(rateLimitedEventCh, u)' = Of(rateLimitedEventCh, u)
    BY <1>0
  <2> QED
    BY <1>n, <1>0, <1>1, <1>9, <2>1, PendingAfterHead
<1>11. LogStep({n})
  <2>1. \A u \in Threads :
         \/ pc'[u] = pc[u]
         \/ pc[u] = "wait" /\ pc'[u] = "idle" /\ logged'[u] = did[u]
    BY <1>0, <1>1, <1>2, <1>4, <1>7
  <2> QED
    BY <1>0, <1>1, <1>6, <1>10, <2>1 DEF LogStep
<1>12. \A v \in Workers : Count(logged'[v], "before") = Count(logged[v], "before")
                            + (IF v = w THEN 1 ELSE 0)
       /\ Count(logged[v], "before") \in Nat
  <2>1. ASSUME NEW v \in Workers
        PROVE  Count(logged'[v], "before") = Count(logged[v], "before") + (IF v = w THEN 1 ELSE 0)
               /\ Count(logged[v], "before") \in Nat
    <3>1. (\E m \in {n} : m.thread = v /\ m.kind = "reconcile" /\ m.side = "before") <=> v = w
      BY <1>1
    <3>2. v \in Threads /\ \A m \in {n} : IsNext(m)
      BY <1>1 DEF Threads
    <3>3. /\ Count(logged[v], "before") \in Nat
          /\ Count(logged'[v], "before") = Count(logged[v], "before")
               + (IF \E m \in {n} : m.thread = v /\ m.kind = "reconcile" /\ m.side = "before"
                  THEN 1 ELSE 0)
      BY <1>6, <3>2, WrittenCounts
    <3> QED
      BY <3>1, <3>3
  <2> QED
    BY <2>1
<1>13. reconcileChMap[w] = "channel"
  <2>1. Count(did[w], "before") = Count(did[w], "after")
           + (IF reconcileChMap[w] = "channel" THEN 1 ELSE 0)
    BY <1>3 DEF IndInv, ReconcileInv, Count
  <2>2. Count(did[w], "before") = Count(logged[w], "before") + 1
    BY <1>3, <1>7, <1>12
  <2>3. Count(did[w], "after") = Count(logged[w], "after") + 0
    <3>1. ~(\E m \in {n} : m.thread = w /\ m.kind = "reconcile" /\ m.side = "after")
      BY <1>1
    <3>2. \A m \in {n} : IsNext(m)
      BY <1>1
    <3> QED
      BY <1>1, <1>6, <1>7, <3>1, <3>2, WrittenCounts
  <2> QED
    BY <1>3, <2>1, <2>2, <2>3
<1>14. ReconcileInv'
  <2>1. \A v \in Workers : v \in reconciling' => reconcileChMap[v] = "channel"
    BY <1>0, <1>13 DEF IndInv, ReconcileInv
  <2>2. \A v \in Workers : pc[v] = "wait" /\ pc'[v] = "idle" => v \in reconciling'
    BY <1>0, <1>1, <1>4 DEF Threads
  <2>3. \A v \in Workers : reconcileCntMap'[v] + 1 = Count(logged'[v], "before")
    BY <1>0, <1>3, <1>4, <1>12
  <2>4. reconciling \subseteq reconciling'
    BY <1>0
  <2> QED
    BY <1>11, <2>1, <2>2, <2>3, <2>4, LogStepKeepsReconciles
<1>15. CounterInv'
  <2> DEFINE O == {v \in Workers : OpenReconciles(v) = 1}
             P == {v \in Workers : OpenReconciles(v)' = 1}
  <2>1. IsFiniteSet(O) /\ P = O \cup {w} /\ w \notin O
    <3> DEFINE S == {n}
    <3>1. (\A m \in S : IsNext(m)) /\ n \in S /\ \A m \in S : m.kind = "reconcile" => m = n
      BY <1>1
    <3>2. Written(S)
      BY <1>6
    <3> HIDE DEF S
    <3>3. IsFiniteSet(O) /\ OpenReconciles(w) = 0 /\ P = O \cup {w}
      BY <1>1, <3>1, <3>2, ReconcileWritten
    <3> QED
      BY <3>3
  <2>2. ongoingReconcileCnt = Cardinality(O)
    BY DEF IndInv, CounterInv
  <2> HIDE DEF O, P
  <2>3. ongoingReconcileCnt' = Cardinality(P)
    BY <1>0, <2>1, <2>2, FS_AddElement
  <2> QED
    BY <1>0, <2>3 DEF IndInv, CounterInv, P
<1>16. fatal' = "none"
  BY <1>0 DEF IndInv
<1> QED
  BY <1>8, <1>11, <1>14, <1>15, <1>16, LogStepKeepsLines, LogStepKeepsThreads DEF IndInv

\* The line at the end of a reconcile, possibly with the one of an event.
LEMMA ReconcileEnds ==
    ASSUME IndInv, NEW S, LogStep(S), NEW n \in S, n.kind = "reconcile", n.side = "after",
           \A m \in S : m.kind = "reconcile" => m = n, TypeOK', fatal' = "none",
           ongoingReconcileCnt' = ongoingReconcileCnt - 1,
           UNCHANGED <<reconciling, reconcileCntMap>>,
           \A v \in Workers : ~(pc[v] = "wait" /\ pc'[v] = "idle")
    PROVE  IndInv'
<1>1. (\A m \in S : IsNext(m)) /\ Written(S)
  BY DEF LogStep
<1>2. ReconcileInv'
  <2>1. \A v \in Workers : v \in reconciling' => reconcileChMap[v] = "channel"
    BY DEF IndInv, ReconcileInv
  <2>2. \A v \in Workers : reconcileCntMap'[v] + 1 = Count(logged'[v], "before")
    <3>1. \A v \in Workers : reconcileCntMap[v] + 1 = Count(logged[v], "before")
      BY DEF IndInv, ReconcileInv, Count
    <3>2. \A v \in Workers : Count(logged'[v], "before") = Count(logged[v], "before") + 0
                             /\ Count(logged[v], "before") \in Nat
      <4>1. \A m \in S : ~(m.kind = "reconcile" /\ m.side = "before")
        OBVIOUS
      <4> QED
        BY <1>1, <4>1, WrittenCounts DEF Threads
    <3> QED
      BY <3>1, <3>2
  <2> QED
    BY <2>1, <2>2, LogStepKeepsReconciles
<1>3. CounterInv'
  <2> DEFINE w == n.thread
             O == {v \in Workers : OpenReconciles(v) = 1}
             P == {v \in Workers : OpenReconciles(v)' = 1}
  <2>1. IsFiniteSet(O) /\ P = O \ {w} /\ w \in O
    BY <1>1, ReconcileWritten
  <2>2. ongoingReconcileCnt = Cardinality(O)
    BY DEF IndInv, CounterInv
  <2> HIDE DEF O, P
  <2>3. ongoingReconcileCnt' = Cardinality(P)
    BY <2>1, <2>2, FS_RemoveElement
  <2> QED
    BY <2>3 DEF IndInv, CounterInv, P, LogStep
<1> QED
  BY <1>2, <1>3, LogStepKeepsLines, LogStepKeepsThreads DEF IndInv

\* Logging the end of a reconcile keeps the invariant; ongoingReconcileCnt does not
\* fall below zero, so that log.Fatal is not reached.
LEMMA AfterControllerReconcileKeeps ==
    ASSUME IndInv, AfterControllerReconcile
    PROVE  IndInv'
<1>n. PICK n : n = Head(notificationCh)
  OBVIOUS
<1> DEFINE w == n.thread
           line == [n EXCEPT !.number = reconcileCntMap[w]]
<1>0. /\ Receive("reconcile", "after")
      /\ ongoingReconcileCnt' = ongoingReconcileCnt - 1
      /\ UNCHANGED <<rateLimiterEnabled, req, ops, nextID, waitingCh, reconcileChMap, did>>
      /\ UNCHANGED <<reconciling, reconcileCntMap, pushing>>
  BY <1>n, Zenon DEF AfterControllerReconcile, unchangedByServer
<1>c. \/ /\ ongoingReconcileCnt' = 0
         /\ PollRateLimitedEventCh /\ LogAll(Polled \cup {line}) /\ UNCHANGED fatal
      \/ ongoingReconcileCnt' < 0
      \/ /\ ongoingReconcileCnt' > 0
         /\ LogAll({line}) /\ UNCHANGED <<rateLimitedEventCh, pc, fatal>>
  BY <1>n, Zenon DEF AfterControllerReconcile
<1>1. /\ pushing = <<>> /\ notificationCh # <<>>
      /\ notificationCh' = Tail(notificationCh) /\ notificationCh' \in Seq(Notifications)
      /\ w \in Threads /\ n.kind = "reconcile" /\ n.side = "after" /\ IsNext(n)
      /\ n \in Notifications
  BY <1>n, <1>0, Received
<1>2. /\ w \in Workers /\ Count(logged[w], "after") \in Nat
      /\ n.number = Count(logged[w], "before") - 1
      /\ Count(logged[w], "before") = Count(logged[w], "after") + 1
  BY <1>1, NextReconcile
<1>3. line = n
  <2>1. reconcileCntMap[w] + 1 = Count(logged[w], "before") /\ reconcileCntMap[w] \in Int
    BY <1>2 DEF IndInv, TypeOK, ReconcileInv, Count
  <2>2. reconcileCntMap[w] = n.number
    BY <1>2, <2>1
  <2> QED
    BY <1>1, <2>2 DEF Notifications
<1> HIDE DEF line
<1>4. ongoingReconcileCnt \in Int /\ ongoingReconcileCnt >= 1
  <2> DEFINE O == {v \in Workers : OpenReconciles(v) = 1}
  <2>1. IsFiniteSet(O)
    <3>1. IsFiniteSet(Workers)
      BY LearnAssumption, FS_Subset DEF Threads
    <3> QED
      BY <3>1, FS_Subset
  <2>2. w \in O
    BY <1>2 DEF OpenReconciles, Count
  <2>3. Cardinality(O) \in Nat /\ Cardinality(O) # 0
    BY <2>1, <2>2, FS_CardinalityType, FS_EmptySet
  <2> QED
    BY <2>3 DEF IndInv, CounterInv
<1>5. CASE ongoingReconcileCnt' = 0
  <2> DEFINE S == Polled \cup {n}
  <2>1. PollRateLimitedEventCh /\ LogAll(S) /\ UNCHANGED fatal
    BY <1>3, <1>c, <1>5
  <2>2. \A m \in S : IsNext(m)
    BY <1>1, PolledLines
  <2>3. Written(S)
    BY <2>1, <2>2, LogAllWrites
  <2>4. \A m \in Polled : m.thread # w /\ m.kind # "reconcile" /\ m.thread \in Threads
    BY <1>2, PolledLines, LearnAssumption DEF Threads
  <2>5. TypeOK'
    <3>1. pc' \in [Threads -> {"idle", "send", "wait", "busy"}]
          /\ rateLimitedEventCh' \in Seq(Events)
      BY <1>0, <2>1, PollStep
    <3> QED
      BY <1>0, <1>1, <1>4, <2>3, <3>1 DEF IndInv, TypeOK, Written
  <2>6. ASSUME NEW u \in Threads
        PROVE  \/ pc'[u] = pc[u]
               \/ /\ pc[u] = "wait" /\ pc'[u] = "busy" /\ logged'[u] = did[u]
                  /\ req[u].side = "before" /\ req[u].kind # "reconcile"
    <3>1. CASE pc'[u] = pc[u]
      BY <3>1
    <3>2. CASE pc[u] = "wait" /\ pc'[u] = "busy" /\ \E m \in Polled : m.thread = u
      <4>1. PICK m \in Polled : m.thread = u
        BY <3>2
      <4>2. logged'[u] = did[u]
        BY <2>3, <4>1, PolledLines, LastWritten
      <4> QED
        BY <3>2, <4>1, <4>2, PolledLines
    <3> QED
      BY <1>0, <2>1, <3>1, <3>2, PollStep
  <2>7. \A u \in Threads : Unsent(u)' = Unsent(u)
    BY <1>0, <2>1, PollStep
  <2>8. ASSUME NEW u \in Threads, u # w
        PROVE  Of(notificationCh, u)' = Of(notificationCh, u)
    <3>1. notificationCh \in Seq(Notifications)
      BY DEF IndInv, TypeOK
    <3>2. Of(Tail(notificationCh), u) = Of(notificationCh, u)
      BY <1>n, <1>1, <2>8, <3>1, OfShorter
    <3> QED
      BY <1>1, <3>2
  <2>9. \A m \in Polled : Pending(m.thread) = <<m>> \o Pending(m.thread)'
                          /\ Pending(m.thread)' \in Seq(Notifications)
    BY <1>0, <2>1, <2>4, <2>8, PollStep
  <2>10. Pending(w) = <<n>> \o Pending(w)' /\ Pending(w)' \in Seq(Notifications)
    <3>1. Of(rateLimitedEventCh, w)' = Of(rateLimitedEventCh, w)
      BY <1>0, <1>1, <2>1, <2>4, PollStep
    <3> QED
      BY <1>n, <1>0, <1>1, <2>7, <3>1, PendingAfterHead
  <2>11. ASSUME NEW u \in Threads, ~(\E m \in S : m.thread = u)
         PROVE  Pending(u)' = Pending(u) /\ Pending(u)' \in Seq(Notifications)
    <3>1. u # w /\ ~(\E m \in Polled : m.thread = u)
      BY <2>11
    <3>2. Of(rateLimitedEventCh, u)' = Of(rateLimitedEventCh, u)
      BY <1>0, <2>1, <3>1, PollStep
    <3> QED
      BY <1>0, <2>7, <2>8, <3>1, <3>2, PendingSame
  <2>12. LogStep(S)
    <3>1. \A m \in S : Pending(m.thread) = <<m>> \o Pending(m.thread)'
                       /\ Pending(m.thread)' \in Seq(Notifications)
      BY <2>9, <2>10
    <3>2. \A u \in Threads : Pending(u)' \in Seq(Notifications)
      BY <2>11, <3>1
    <3> QED
      BY <1>0, <2>2, <2>3, <2>6, <2>11, <3>1, <3>2 DEF LogStep
  <2>13. \A m \in S : m.kind = "reconcile" => m = n
    BY <2>4
  <2>14. \A v \in Workers : ~(pc[v] = "wait" /\ pc'[v] = "idle")
    BY <2>6 DEF Threads
  <2>15. fatal' = "none"
    BY <2>1 DEF IndInv
  <2>16. n \in S
    OBVIOUS
  <2> HIDE DEF S
  <2> QED
    BY <1>0, <1>1, <2>5, <2>12, <2>13, <2>14, <2>15, <2>16, ReconcileEnds
<1>6. CASE ongoingReconcileCnt' # 0
  <2>0. ~(ongoingReconcileCnt' < 0)
    BY <1>0, <1>4
  <2>1. LogAll({n}) /\ UNCHANGED <<rateLimitedEventCh, pc, fatal>>
    BY <1>3, <1>c, <1>6, <2>0
  <2>2. Written({n})
    BY <1>1, <2>1, LogAllWrites
  <2>3. TypeOK'
    BY <1>0, <1>1, <1>4, <2>1, <2>2 DEF IndInv, TypeOK, Written
  <2>4. \A u \in Threads : /\ u = w => Pending(u) = <<n>> \o Pending(u)'
                           /\ u # w => Pending(u)' = Pending(u)
                           /\ Pending(u)' \in Seq(Notifications)
    <3>1. \A u \in Threads : Of(rateLimitedEventCh, u)' = Of(rateLimitedEventCh, u)
                             /\ Unsent(u)' = Unsent(u)
      BY <1>0, <2>1 DEF Unsent
    <3> QED
      BY <1>n, <1>0, <1>1, <3>1, PendingAfterHead
  <2>5. LogStep({n})
    BY <1>0, <1>1, <2>1, <2>2, <2>4 DEF LogStep
  <2>6. fatal' = "none" /\ \A v \in Workers : ~(pc[v] = "wait" /\ pc'[v] = "idle")
    BY <2>1 DEF IndInv
  <2> QED
    BY <1>0, <1>1, <2>3, <2>5, <2>6, ReconcileEnds
<1> QED
  BY <1>5, <1>6

-----------------------------------------------------------------------------
(* The invariant.                                                           *)

\* The invariant holds initially.
LEMMA InitHolds ==
    ASSUME Init
    PROVE  IndInv
<1> USE DEF Init
<1>1. TypeOK
  BY DEF TypeOK, Notification, Notifications, Kinds, Counters
<1>2. GoodLines /\ IDsDiffer /\ ThreadInv
  BY DEF GoodLines, IDsDiffer, ThreadInv
<1>3. \A w \in Workers : did[w] = <<>> /\ logged[w] = <<>>
  BY DEF Threads
<1>4. \A w \in Workers, side \in {"before", "after"} :
        Lines(did[w], "reconcile", side) = {} /\ Lines(logged[w], "reconcile", side) = {}
  BY <1>3 DEF Lines
<1>5. \A w \in Workers, side \in {"before", "after"} :
        Cardinality(Lines(did[w], "reconcile", side)) = 0
        /\ Cardinality(Lines(logged[w], "reconcile", side)) = 0
  BY <1>4, FS_EmptySet
<1>6. ReconcileInv
  <2>1. \A w \in Workers : reconcileChMap[w] = "absent" /\ reconcileCntMap[w] = -1
                           /\ w \notin reconciling
    OBVIOUS
  <2>2. -1 + 1 = 0
    OBVIOUS
  <2> QED
    BY <1>5, <2>1, <2>2 DEF ReconcileInv
<1>7. CounterInv
  <2>1. \A w \in Workers : OpenReconciles(w) = 0
    BY <1>5 DEF OpenReconciles
  <2>2. {w \in Workers : OpenReconciles(w) = 1} = {}
    BY <2>1
  <2>3. \A c \in Counters : Len(waitingCh[c]) = nextID[c]
    OBVIOUS
  <2> QED
    BY <2>2, <2>3, FS_EmptySet DEF CounterInv
<1>8. LogFollowsProgramOrder
  <2>1. ASSUME NEW t \in Threads PROVE Pending(t) = <<>>
    <3>1. Of(rateLimitedEventCh, t) = <<>> /\ Of(pushing, t) = <<>> /\ Of(notificationCh, t) = <<>>
      BY OfEmpty
    <3>2. Unsent(t) = <<>>
      BY DEF Unsent
    <3> QED
      BY <3>1, <3>2 DEF Pending
  <2> QED
    BY <2>1 DEF LogFollowsProgramOrder
<1> QED
  BY <1>1, <1>2, <1>6, <1>7, <1>8 DEF IndInv

\* A step that changes nothing keeps it.
LEMMA StutterKeeps ==
    ASSUME IndInv, UNCHANGED vars
    PROVE  IndInv'
<1> USE DEF vars, clientVars, serverVars
<1>1. TypeOK' /\ IDsDiffer' /\ fatal' = "none"
  BY DEF IndInv, TypeOK, IDsDiffer
<1>4. GoodLines'
  BY DEF IndInv, GoodLines, GoodLine
<1>5. ThreadInv'
  BY DEF IndInv, ThreadInv
<1>6. ReconcileInv'
  BY DEF IndInv, ReconcileInv
<1>2. CounterInv'
  BY LogSame
<1>3. LogFollowsProgramOrder'
  BY DEF IndInv, LogFollowsProgramOrder, Pending, Unsent
<1> QED
  BY <1>1, <1>2, <1>3, <1>4, <1>5, <1>6 DEF IndInv

\* Every step keeps it.
LEMMA NextKeeps ==
    ASSUME IndInv, [Next]_vars
    PROVE  IndInv'
<1>1. CASE CoordinatingEvents
  <2>1. CASE \E kind \in OperationKinds : BeforeOperation(kind)
    BY <2>1, BeforeOperationKeeps
  <2>2. CASE \E kind \in OperationKinds \cup {"recv", "cacheRead"} : AfterOperation(kind)
    BY <2>2, AfterOperationKeeps
  <2> QED
    BY <1>1, <2>1, <2>2, BeforeControllerReconcileKeeps, AfterControllerReconcileKeeps,
       BeforeControllerRecvKeeps DEF CoordinatingEvents
<1>2. CASE Interval
  BY <1>2, IntervalKeeps
<1>3. ASSUME NEW t \in Threads, ClientStep(t) \/ SendNotification(t)
      PROVE  IndInv'
  <2>1. CASE t \in Workers /\ (NotifyLearnBeforeReconcile(t) \/ NotifyLearnAfterReconcile(t)
                               \/ NotifyLearnAfterCacheRead(t))
    BY <2>1, BeforeReconcileKeeps, AfterReconcileKeeps, CacheReadKeeps
  <2>2. CASE \E kind \in KindsOf(t) : NotifyLearnBefore(t, kind)
    BY <2>2, BeforeKeeps
  <2> QED
    BY <1>3, <2>1, <2>2, AfterKeeps, RestCallReturnsKeeps, SendKeeps DEF ClientStep
<1> QED
  BY <1>1, <1>2, <1>3, StutterKeeps DEF Next

\* The inductive invariant of the learn server and its clients.
THEOREM Invariance == Spec => []IndInv
<1>1. Init => IndInv
  BY InitHolds
<1>2. IndInv /\ [Next]_vars => IndInv'
  BY NextKeeps
<1> QED
  BY <1>1, <1>2, PTL DEF Spec

\* coordinatingEvents writes the lines of every thread in the order in which the thread
\* made them, with the right numbers, and none is lost or written twice, however many
\* workers and receivers there are and however large the two channels.
THEOREM ProgramOrder == Spec => []LogFollowsProgramOrder
<1>1. IndInv => LogFollowsProgramOrder
  BY DEF IndInv
<1> QED
  BY <1>1, Invariance, PTL

\* The three log.Fatal of the server cannot be reached: reconcileChMap is never set
\* twice or cleared twice, and ongoingReconcileCnt is never below 0.
THEOREM NeverFatal == Spec => [](fatal = "none")
<1>1. IndInv => fatal = "none"
  BY DEF IndInv
<1> QED
  BY <1>1, Invariance, PTL

-----------------------------------------------------------------------------
(* The log passes sanity_check_sieve_server_log.                            *)

\* The lines that a step of the server writes: at most one of each kind.
LEMMA NextWrites ==
    ASSUME IndInv, [Next]_vars
    PROVE  \E S : /\ \A n \in S : IsNext(n)
                  /\ Written(S)
                  /\ \A m, n \in S : m.kind = n.kind => m = n
<1>1. ASSUME logged' = logged
      PROVE  \E S : /\ \A n \in S : IsNext(n)
                    /\ Written(S)
                    /\ \A m, n \in S : m.kind = n.kind => m = n
  BY <1>1, NothingWritten
<1>2. ASSUME NEW n, IsNext(n), Written({n})
      PROVE  \E S : /\ \A m \in S : IsNext(m)
                    /\ Written(S)
                    /\ \A m, o \in S : m.kind = o.kind => m = o
  BY <1>2
<1>3. ASSUME NEW n, IsNext(n), Log(n.thread, n)
      PROVE  \E S : /\ \A m \in S : IsNext(m)
                    /\ Written(S)
                    /\ \A m, o \in S : m.kind = o.kind => m = o
  BY <1>2, <1>3, LogWrites
<1>4. CASE BeforeControllerReconcile
  <2>n. PICK n : n = Head(notificationCh)
    OBVIOUS
  <2>1. Receive("reconcile", "before") /\ Log(n.thread, [n EXCEPT !.number = reconcileCntMap'[n.thread]])
        /\ reconcileCntMap' = [reconcileCntMap EXCEPT ![n.thread] = reconcileCntMap[n.thread] + 1]
    BY <1>4, <2>n DEF BeforeControllerReconcile
  <2>2. n.kind = "reconcile" /\ n.side = "before" /\ IsNext(n) /\ n \in Notifications
    BY <2>n, <2>1, Received
  <2>3. n.thread \in Workers /\ n.number = Count(logged[n.thread], "before")
    BY <2>2, NextReconcile
  <2>4. reconcileCntMap \in [Workers -> Int]
        /\ reconcileCntMap[n.thread] + 1 = Count(logged[n.thread], "before")
    BY <2>3 DEF IndInv, TypeOK, ReconcileInv, Count
  <2>5. reconcileCntMap'[n.thread] = n.number
    BY <2>1, <2>3, <2>4
  <2>6. [n EXCEPT !.number = reconcileCntMap'[n.thread]] = n
    BY <2>2, <2>5 DEF Notifications
  <2> QED
    BY <1>3, <2>1, <2>2, <2>6
<1>5. CASE AfterControllerReconcile
  <2>n. PICK n : n = Head(notificationCh)
    OBVIOUS
  <2> DEFINE line == [n EXCEPT !.number = reconcileCntMap[n.thread]]
  <2>0. Receive("reconcile", "after")
    BY <1>5, Zenon DEF AfterControllerReconcile
  <2>1. n.kind = "reconcile" /\ n.side = "after" /\ IsNext(n) /\ n \in Notifications
    BY <2>n, <2>0, Received
  <2>2. /\ n.thread \in Workers /\ n.number = Count(logged[n.thread], "before") - 1
        /\ Count(logged[n.thread], "before") \in Nat
    BY <2>1, NextReconcile
  <2>3. line = n
    <3>1. reconcileCntMap[n.thread] + 1 = Count(logged[n.thread], "before")
          /\ reconcileCntMap[n.thread] \in Int
      BY <2>2 DEF IndInv, TypeOK, ReconcileInv, Count
    <3>2. reconcileCntMap[n.thread] = n.number
      BY <2>2, <3>1
    <3> QED
      BY <2>1, <3>2 DEF Notifications
  <2> HIDE DEF line
  <2>4. LogAll(Polled \cup {line}) \/ logged' = logged \/ LogAll({line})
    BY <1>5, <2>n, Zenon DEF AfterControllerReconcile, line
  <2>5. CASE LogAll(Polled \cup {line})
    <3> DEFINE S == Polled \cup {n}
    <3>1. \A m \in S : IsNext(m)
      BY <2>1, PolledLines
    <3>2. \A m, o \in S : m.kind = o.kind => m = o
      BY <2>1, PolledLines
    <3>3. Written(S)
      BY <2>3, <2>5, <3>1, LogAllWrites
    <3> QED
      BY <3>1, <3>2, <3>3
  <2>6. CASE LogAll({line})
    <3>1. Written({n})
      BY <2>1, <2>3, <2>6, LogAllWrites
    <3> QED
      BY <1>2, <2>1, <3>1
  <2> QED
    BY <1>1, <2>4, <2>5, <2>6
<1>6. CASE BeforeControllerRecv
  <2>1. Receive("recv", "before")
    BY <1>6, Zenon DEF BeforeControllerRecv
  <2>2. logged' = logged \/ Log(Head(notificationCh).thread, Head(notificationCh))
    BY <1>6, Zenon DEF BeforeControllerRecv, LogAndRelease
  <2>3. IsNext(Head(notificationCh))
    BY <2>1, Received
  <2> QED
    BY <1>1, <1>3, <2>2, <2>3
<1>7. ASSUME NEW kind, BeforeOperation(kind) \/ AfterOperation(kind)
      PROVE  \E S : /\ \A m \in S : IsNext(m)
                    /\ Written(S)
                    /\ \A m, o \in S : m.kind = o.kind => m = o
  <2>1. \E side : Receive(kind, side)
    BY <1>7 DEF BeforeOperation, AfterOperation
  <2>2. Log(Head(notificationCh).thread, Head(notificationCh))
    BY <1>7 DEF BeforeOperation, AfterOperation, LogAndRelease
  <2>3. IsNext(Head(notificationCh))
    BY <2>1, Received
  <2> QED
    BY <1>3, <2>2, <2>3
<1>8. CASE Interval
  <2>1. LogAll(Polled)
    BY <1>8 DEF Interval
  <2>2. \A m \in Polled : IsNext(m)
    BY PolledLines
  <2>3. Written(Polled)
    BY <2>1, <2>2, LogAllWrites
  <2>4. \A m, o \in Polled : m.kind = o.kind => m = o
    BY PolledLines
  <2> QED
    BY <2>2, <2>3, <2>4
<1>9. ASSUME NEW t \in Threads, ClientStep(t) \/ SendNotification(t)
      PROVE  logged' = logged
  <2> USE DEF serverVars
  <2>1. CASE NotifyLearnBeforeReconcile(t)
    BY <2>1, Zenon DEF NotifyLearnBeforeReconcile
  <2>2. CASE NotifyLearnAfterReconcile(t)
    BY <2>2, Zenon DEF NotifyLearnAfterReconcile
  <2>3. CASE NotifyLearnAfterCacheRead(t)
    BY <2>3 DEF NotifyLearnAfterCacheRead
  <2>4. CASE \E kind \in KindsOf(t) : NotifyLearnBefore(t, kind)
    BY <2>4 DEF NotifyLearnBefore
  <2>5. CASE NotifyLearnAfter(t) \/ AfterRestCallReturns(t) \/ SendNotification(t)
    BY <2>5 DEF NotifyLearnAfter, AfterRestCallReturns, SendNotification
  <2> QED
    BY <1>9, <2>1, <2>2, <2>3, <2>4, <2>5 DEF ClientStep
<1>10. CASE UNCHANGED vars
  BY <1>1, <1>10 DEF vars, serverVars
<1> QED
  BY <1>1, <1>4, <1>5, <1>6, <1>7, <1>8, <1>9, <1>10 DEF Next, CoordinatingEvents

\* What the lines of a kind are, before and after a step.
LEMMA LinesOfIs ==
    ASSUME NEW kind, NEW e
    PROVE  /\ e \in LinesOf(kind) <=>
                \E t \in Threads : \E i \in DOMAIN logged[t] :
                    e = <<t, i>> /\ logged[t][i].kind = kind
           /\ e \in LinesOf(kind)' <=>
                \E t \in Threads : \E i \in DOMAIN logged'[t] :
                    e = <<t, i>> /\ logged'[t][i].kind = kind
BY DEF LinesOf

\* The line that e stands for.
At(e) == logged[e[1]][e[2]]

\* Writing lines adds them to those of the log.
LEMMA OldLines ==
    ASSUME IndInv, NEW S, \A m \in S : IsNext(m), Written(S), NEW kind
    PROVE  /\ \A e \in LinesOf(kind) : e \in LinesOf(kind)' /\ At(e)' = At(e)
           /\ \A e \in LinesOf(kind)' :
                \/ e \in LinesOf(kind)
                \/ \E m \in S : /\ m.kind = kind /\ At(e)' = m
                                /\ e = <<m.thread, Len(logged[m.thread]) + 1>>
           /\ \A m \in S : m.kind = kind =>
                <<m.thread, Len(logged[m.thread]) + 1>> \in LinesOf(kind)'
<1>0. \A t \in Threads : logged[t] \in Seq(Notifications)
  BY DEF IndInv, TypeOK
<1>1. ASSUME NEW t \in Threads, NEW i \in DOMAIN logged[t]
      PROVE  i \in DOMAIN logged'[t] /\ logged'[t][i] = logged[t][i]
  <2>1. CASE \E m \in S : m.thread = t
    <3>1. PICK m \in S : m.thread = t
      BY <2>1
    <3>2. logged'[t] = Append(logged[t], m) /\ m \in Notifications
      BY <3>1 DEF Written, IsNext
    <3> QED
      BY <1>0, <3>2
  <2>2. CASE ~(\E m \in S : m.thread = t)
    BY <2>2 DEF Written
  <2> QED
    BY <2>1, <2>2
<1>2. ASSUME NEW m \in S
      PROVE  /\ m.thread \in Threads
             /\ Len(logged[m.thread]) + 1 \in DOMAIN logged'[m.thread]
             /\ logged'[m.thread][Len(logged[m.thread]) + 1] = m
  <2>1. m.thread \in Threads /\ logged'[m.thread] = Append(logged[m.thread], m)
        /\ m \in Notifications
    BY DEF Written, IsNext
  <2> QED
    BY <1>0, <2>1
<1>3. ASSUME NEW t \in Threads, NEW i \in DOMAIN logged'[t], i \notin DOMAIN logged[t]
      PROVE  \E m \in S : m.thread = t /\ i = Len(logged[t]) + 1
  <2>1. PICK m \in S : m.thread = t
    BY <1>3 DEF Written
  <2>2. logged'[t] = Append(logged[t], m) /\ m \in Notifications
    BY <2>1 DEF Written, IsNext
  <2>3. i = Len(logged[t]) + 1
    BY <1>0, <1>3, <2>2
  <2> QED
    BY <2>1, <2>3
<1>4. ASSUME NEW e \in LinesOf(kind)
      PROVE  e \in LinesOf(kind)' /\ At(e)' = At(e)
  <2>1. PICK t \in Threads : \E i \in DOMAIN logged[t] : e = <<t, i>> /\ logged[t][i].kind = kind
    BY LinesOfIs
  <2>2. PICK i \in DOMAIN logged[t] : e = <<t, i>> /\ logged[t][i].kind = kind
    BY <2>1
  <2>3. e \in LinesOf(kind)'
    BY <1>1, <2>2, LinesOfIs
  <2> QED
    BY <1>1, <2>2, <2>3 DEF At
<1>5. ASSUME NEW e \in LinesOf(kind)', e \notin LinesOf(kind)
      PROVE  \E m \in S : /\ m.kind = kind /\ At(e)' = m
                          /\ e = <<m.thread, Len(logged[m.thread]) + 1>>
  <2>1. PICK t \in Threads : \E i \in DOMAIN logged'[t] :
                                e = <<t, i>> /\ logged'[t][i].kind = kind
    BY LinesOfIs
  <2>2. PICK i \in DOMAIN logged'[t] : e = <<t, i>> /\ logged'[t][i].kind = kind
    BY <2>1
  <2>3. i \notin DOMAIN logged[t]
    BY <1>1, <1>5, <2>2, LinesOfIs
  <2>4. PICK m \in S : m.thread = t /\ i = Len(logged[t]) + 1
    BY <1>3, <2>3
  <2> QED
    BY <1>2, <2>2, <2>4 DEF At
<1>6. ASSUME NEW m \in S, m.kind = kind
      PROVE  <<m.thread, Len(logged[m.thread]) + 1>> \in LinesOf(kind)'
  BY <1>2, <1>6, LinesOfIs
<1> QED
  BY <1>4, <1>5, <1>6

\* The kinds of lines that the check keeps a status of.
Checked == {"restWrite", "recv"}

\* Of two lines of an operation one is the line before it, with the same ID: whoever
\* has a line with the ID of n has the line before, at the place where n's thread has it.
LEMMA SameID ==
    ASSUME IndInv, NEW kind \in Checked, NEW e \in LinesOf(kind), NEW n, IsNext(n),
           n.kind = kind, At(e).number = n.number
    PROVE  /\ n.side = "after" /\ At(e).side = "before"
           /\ e = <<n.thread, Len(logged[n.thread])>>
<1>0. /\ \A t \in Threads : logged[t] \in Seq(Notifications) /\ did[t] \in Seq(Notifications)
      /\ n.thread \in Threads /\ n \in Notifications
      /\ Len(logged[n.thread]) < Len(did[n.thread])
      /\ did[n.thread][Len(logged[n.thread]) + 1] = n
  BY DEF IndInv, TypeOK, IsNext
<1>1. PICK u \in Threads : \E j \in DOMAIN logged[u] : e = <<u, j>> /\ logged[u][j].kind = kind
  BY LinesOfIs
<1>2. PICK j \in DOMAIN logged[u] : e = <<u, j>> /\ logged[u][j].kind = kind
  BY <1>1
<1> DEFINE t == n.thread
           k == Len(logged[t]) + 1
           m == logged[u][j]
<1>3. At(e) = m /\ did[u][j] = m /\ j \in 1 .. Len(logged[u]) /\ j \in DOMAIN did[u]
      /\ Len(logged[u]) <= Len(did[u])
  <2>1. Len(did[u]) >= Len(logged[u])
    <3> DEFINE a == Len(Of(rateLimitedEventCh, u))
               b == Len(Of(pushing, u))
               c == Len(Of(notificationCh, u))
               d == Len(Unsent(u))
    <3>1. Len(did[u]) = Len(logged[u]) + a + b + c + d
      BY DidAndLogged
    <3>2. a \in Nat /\ b \in Nat /\ c \in Nat /\ d \in Nat /\ Len(logged[u]) \in Nat
      BY <1>0, PendingParts, LenProperties DEF IndInv
    <3> HIDE DEF a, b, c, d
    <3> QED
      BY <3>1, <3>2
  <2>2. j \in 1 .. Len(logged[u]) /\ Len(did[u]) \in Nat /\ DOMAIN did[u] = 1 .. Len(did[u])
        /\ Len(logged[u]) \in Nat
    BY <1>0
  <2>3. did[u][j] = logged[u][j]
    BY <2>2, DidAndLogged
  <2> QED
    BY <1>2, <2>1, <2>2, <2>3 DEF At
<1>4. GoodLine(u, j) /\ GoodLine(t, k) /\ k \in DOMAIN did[t] /\ k \in Nat
  BY <1>0, <1>3 DEF IndInv, GoodLines
<1>5. /\ IsOperation(n) /\ IsOperation(m) /\ m.kind = n.kind /\ m.number = n.number
      /\ m \in Notifications /\ m.side \in {"before", "after"} /\ n.side \in {"before", "after"}
  <2>1. m \in Notifications
    BY <1>0
  <2>2. m.kind = n.kind /\ m.number = n.number
    BY <1>2, <1>3
  <2>3. IsOperation(n) /\ IsOperation(m)
    BY <2>2 DEF IsOperation, Checked, OperationKinds
  <2> QED
    BY <1>0, <2>1, <2>2, <2>3 DEF Notifications
\* The line before each of the two.
<1>6. ASSUME m.side = "after"
      PROVE  /\ j - 1 \in DOMAIN did[u] /\ did[u][j - 1].side = "before"
             /\ did[u][j - 1].kind = kind /\ did[u][j - 1].number = n.number
  <2>1. j > 1 /\ did[u][j - 1] = [m EXCEPT !.side = "before"]
    BY <1>3, <1>4, <1>5, <1>6 DEF GoodLine
  <2>2. j - 1 \in DOMAIN did[u]
    BY <1>0, <1>3, <2>1
  <2> QED
    BY <1>2, <1>5, <2>1, <2>2 DEF Notifications
<1>7. ASSUME n.side = "after"
      PROVE  /\ k - 1 \in DOMAIN did[t] /\ did[t][k - 1].side = "before"
             /\ did[t][k - 1].kind = kind /\ did[t][k - 1].number = n.number
  <2>1. k > 1 /\ did[t][k - 1] = [n EXCEPT !.side = "before"]
    BY <1>0, <1>4, <1>5, <1>7 DEF GoodLine
  <2>2. k - 1 \in DOMAIN did[t]
    BY <1>0, <1>4, <2>1
  <2> QED
    BY <1>0, <2>1, <2>2 DEF Notifications
<1>8. \A i \in DOMAIN did[u], l \in DOMAIN did[t] :
        /\ did[u][i].kind = kind /\ did[u][i].side = "before" /\ did[u][i].number = n.number
        /\ did[t][l].kind = kind /\ did[t][l].side = "before" /\ did[t][l].number = n.number
        => u = t /\ i = l
  <2>1. \A x : x.kind = kind => IsOperation(x)
    BY DEF IsOperation, Checked, OperationKinds
  <2> QED
    BY <1>0, <2>1 DEF IndInv, IDsDiffer
<1>9. n.side = "after"
  <2> SUFFICES ASSUME n.side = "before" PROVE FALSE
    BY <1>5
  <2>1. CASE m.side = "before"
    <3>1. u = t /\ j = k
      BY <1>0, <1>2, <1>3, <1>4, <1>5, <1>8, <2>1
    <3> QED
      BY <1>0, <1>3, <3>1
  <2>2. CASE m.side = "after"
    <3>1. u = t /\ j - 1 = k
      BY <1>0, <1>4, <1>6, <1>8, <2>2
    <3> QED
      BY <1>0, <1>3, <3>1
  <2> QED
    BY <1>5, <2>1, <2>2
<1>10. m.side = "before"
  <2> SUFFICES ASSUME m.side = "after" PROVE FALSE
    BY <1>5
  <2>1. u = t /\ j - 1 = k - 1
    BY <1>6, <1>7, <1>8, <1>9
  <2> QED
    BY <1>0, <1>3, <2>1
<1>11. u = t /\ j = k - 1
  BY <1>2, <1>3, <1>5, <1>7, <1>8, <1>9, <1>10
<1>12. j = Len(logged[t])
  BY <1>0, <1>11
<1> QED
  BY <1>2, <1>3, <1>9, <1>10, <1>11, <1>12

\* StatusOf, with the lines that it counts.
Numbers(kind) == {At(e).number : e \in LinesOf(kind)}

\* The status that the sanity check keeps for a kind of operation.
LEMMA StatusIs ==
    ASSUME NEW kind
    PROVE  /\ StatusOf(kind) = [id \in Numbers(kind) |->
                <<Cardinality(LinesWith(kind, "before", id)),
                  Cardinality(LinesWith(kind, "after", id))>>]
           /\ StatusOf(kind)' = [id \in Numbers(kind)' |->
                <<Cardinality(LinesWith(kind, "before", id)'),
                  Cardinality(LinesWith(kind, "after", id)')>>]
BY DEF StatusOf, Numbers, At

\* The lines of a side and a number.
LEMMA LinesWithIs ==
    ASSUME NEW kind, NEW side, NEW id
    PROVE  /\ LinesWith(kind, side, id) =
                {e \in LinesOf(kind) : At(e).side = side /\ At(e).number = id}
           /\ LinesWith(kind, side, id)' =
                {e \in LinesOf(kind)' : At(e)'.side = side /\ At(e)'.number = id}
BY DEF LinesWith, At

\* Lines of other kinds leave the status of a kind alone.
LEMMA StatusSame ==
    ASSUME IndInv, NEW S, \A m \in S : IsNext(m), Written(S), NEW kind,
           \A m \in S : m.kind # kind
    PROVE  StatusOf(kind)' = StatusOf(kind)
<1>1. LinesOf(kind)' = LinesOf(kind) /\ \A e \in LinesOf(kind) : At(e)' = At(e)
  BY OldLines
<1>2. \A side, id : LinesWith(kind, side, id)' = LinesWith(kind, side, id)
  <2> TAKE side, id
  <2> QED
    BY <1>1, LinesWithIs
<1>3. Numbers(kind)' = Numbers(kind)
  BY <1>1 DEF Numbers
<1> QED
  BY <1>2, <1>3, StatusIs

\* A line of the kind is written.
LEMMA StatusStep ==
    ASSUME IndInv, NEW S, \A m \in S : IsNext(m), Written(S), NEW kind \in Checked,
           NEW n \in S, n.kind = kind, \A m \in S : m.kind = kind => m = n
    PROVE  \/ Check!Begins(StatusOf(kind), StatusOf(kind)')
           \/ Check!Ends(StatusOf(kind), StatusOf(kind)')
<1> DEFINE L == Len(logged[n.thread])
<1>e. PICK e : e = <<n.thread, L + 1>>
  OBVIOUS
<1>f. PICK f : f = <<n.thread, L>>
  OBVIOUS
<1>0. /\ n.thread \in Threads /\ n \in Notifications /\ n.side \in {"before", "after"}
      /\ logged[n.thread] \in Seq(Notifications) /\ did[n.thread] \in Seq(Notifications)
      /\ L \in Nat /\ IsNext(n)
  <2>1. IsNext(n)
    OBVIOUS
  <2>2. n.thread \in Threads /\ n \in Notifications
    BY <2>1 DEF IsNext
  <2>3. n.side \in {"before", "after"}
    BY <2>2 DEF Notifications
  <2>4. logged[n.thread] \in Seq(Notifications) /\ did[n.thread] \in Seq(Notifications)
    BY <2>2 DEF IndInv, TypeOK
  <2> QED
    BY <2>1, <2>2, <2>3, <2>4, LenProperties
<1>1. e \notin LinesOf(kind)
  <2>1. L + 1 \notin DOMAIN logged[n.thread]
    BY <1>0
  <2> QED
    BY <1>e, <2>1, LinesOfIs
<1>2. /\ \A x \in LinesOf(kind) : x \in LinesOf(kind)' /\ At(x)' = At(x)
      /\ LinesOf(kind)' = LinesOf(kind) \cup {e}
      /\ At(e)' = n
  <2>1. /\ \A x \in LinesOf(kind) : x \in LinesOf(kind)' /\ At(x)' = At(x)
        /\ \A x \in LinesOf(kind)' :
             x \in LinesOf(kind) \/ (At(x)' = n /\ x = e)
        /\ e \in LinesOf(kind)'
    BY <1>e, OldLines
  <2> QED
    BY <1>1, <2>1
<1>3. ASSUME NEW side, NEW id
      PROVE  LinesWith(kind, side, id)' = LinesWith(kind, side, id)
               \cup (IF n.side = side /\ n.number = id THEN {e} ELSE {})
  BY <1>2, LinesWithIs
<1>4. Numbers(kind)' = Numbers(kind) \cup {n.number}
  BY <1>2 DEF Numbers
<1>5. ASSUME NEW id, id # n.number, NEW side
      PROVE  LinesWith(kind, side, id)' = LinesWith(kind, side, id)
  <2>1. LinesWith(kind, side, id)' = LinesWith(kind, side, id)
          \cup (IF n.side = side /\ n.number = id THEN {e} ELSE {})
    BY <1>3
  <2> QED
    BY <1>5, <2>1
<1>6. \A x \in LinesOf(kind) : At(x).number = n.number =>
        n.side = "after" /\ At(x).side = "before" /\ x = f
  BY <1>f, <1>0, SameID
<1>7. Cardinality({}) = 0 /\ Cardinality({e}) = 1 /\ Cardinality({f}) = 1
  BY FS_EmptySet, FS_Singleton
<1>8. CASE n.side = "before"
  <2>1. n.number \notin Numbers(kind)
    BY <1>6, <1>8 DEF Numbers
  <2>2. LinesWith(kind, "before", n.number)' = {e} /\ LinesWith(kind, "after", n.number)' = {}
    <3>1. LinesWith(kind, "before", n.number) = {} /\ LinesWith(kind, "after", n.number) = {}
      BY <1>6, <1>8, LinesWithIs
    <3> QED
      BY <1>3, <1>8, <3>1
  <2> DEFINE s == StatusOf(kind)
             t == StatusOf(kind)'
  <2>3. DOMAIN s = Numbers(kind) /\ DOMAIN t = Numbers(kind) \cup {n.number}
    BY <1>4, StatusIs
  <2>4. t[n.number] = <<1, 0>>
    <3>1. n.number \in Numbers(kind)'
      BY <1>4
    <3>2. t[n.number] = <<Cardinality(LinesWith(kind, "before", n.number)'),
                          Cardinality(LinesWith(kind, "after", n.number)')>>
      BY <3>1, StatusIs
    <3> QED
      BY <1>7, <2>2, <3>2
  <2>5. \A id \in Numbers(kind) : t[id] = s[id]
    BY <1>4, <1>5, <2>1, StatusIs
  <2>6. t = [id \in DOMAIN t |-> t[id]]
    BY <2>3, StatusIs
  <2> HIDE DEF s, t
  <2>7. t = [i \in DOMAIN s \cup {n.number} |-> IF i = n.number THEN <<1, 0>> ELSE s[i]]
    BY <2>1, <2>3, <2>4, <2>5, <2>6
  <2>8. n.number \in DOMAIN t \ DOMAIN s
    BY <2>1, <2>3
  <2>9. Check!Begins(s, t)
    BY <2>7, <2>8 DEF Check!Begins
  <2> QED
    BY <2>9 DEF s, t
<1>9. CASE n.side = "after"
  <2>1. f \in LinesOf(kind) /\ At(f).number = n.number /\ At(f).side = "before"
    <3>1. GoodLine(n.thread, L + 1) /\ did[n.thread][L + 1] = n
      BY <1>0 DEF IsNext, IndInv, GoodLines
    <3>2. L + 1 > 1 /\ did[n.thread][(L + 1) - 1] = [n EXCEPT !.side = "before"]
      <4>1. IsOperation(n)
        BY DEF IsOperation, Checked, OperationKinds
      <4> QED
        BY <1>9, <3>1, <4>1 DEF GoodLine
    <3>3. L \in DOMAIN logged[n.thread] /\ did[n.thread][L] = [n EXCEPT !.side = "before"]
      BY <1>0, <3>2
    <3>4. logged[n.thread][L] = [n EXCEPT !.side = "before"]
      <4>1. L \in 1 .. Len(logged[n.thread])
        BY <1>0, <3>2
      <4>2. did[n.thread][L] = logged[n.thread][L]
        BY <1>0, <4>1, DidAndLogged
      <4> QED
        BY <3>3, <4>2
    <3>5. /\ logged[n.thread][L].kind = kind /\ logged[n.thread][L].number = n.number
          /\ logged[n.thread][L].side = "before"
      BY <1>0, <3>4 DEF Notifications
    <3> QED
      BY <1>f, <1>0, <3>3, <3>5, LinesOfIs DEF At
  <2>2. LinesWith(kind, "before", n.number) = {f} /\ LinesWith(kind, "after", n.number) = {}
    BY <1>6, <2>1, LinesWithIs
  <2>3. LinesWith(kind, "before", n.number)' = {f} /\ LinesWith(kind, "after", n.number)' = {e}
    BY <1>3, <1>9, <2>2
  <2> DEFINE s == StatusOf(kind)
             t == StatusOf(kind)'
  <2>4. n.number \in Numbers(kind)
    BY <2>1 DEF Numbers
  <2>5. DOMAIN s = Numbers(kind) /\ DOMAIN t = Numbers(kind)
    BY <1>4, <2>4, StatusIs
  <2>6. t[n.number] = <<1, 1>> /\ s[n.number] = <<1, 0>>
    <3>1. n.number \in Numbers(kind)'
      BY <1>4
    <3>2. t[n.number] = <<Cardinality(LinesWith(kind, "before", n.number)'),
                          Cardinality(LinesWith(kind, "after", n.number)')>>
      BY <3>1, StatusIs
    <3>3. s[n.number] = <<Cardinality(LinesWith(kind, "before", n.number)),
                          Cardinality(LinesWith(kind, "after", n.number))>>
      BY <2>4, StatusIs
    <3> QED
      BY <1>7, <2>2, <2>3, <3>2, <3>3
  <2>7. \A id \in Numbers(kind) : id # n.number => t[id] = s[id]
    BY <1>4, <1>5, StatusIs
  <2>8. t = [id \in DOMAIN t |-> t[id]] /\ s = [id \in DOMAIN s |-> s[id]]
    BY <2>5, StatusIs
  <2> HIDE DEF s, t
  <2>9. t = [s EXCEPT ![n.number] = <<1, 1>>]
    BY <2>4, <2>5, <2>6, <2>7, <2>8
  <2>10. Check!Ends(s, t)
    BY <2>4, <2>5, <2>6, <2>9 DEF Check!Ends
  <2> QED
    BY <2>10 DEF s, t
<1> QED
  BY <1>0, <1>8, <1>9

\* A step keeps to what the check lets pass.
LEMMA CheckedStep ==
    ASSUME IndInv, [Next]_vars
    PROVE  Check!Next
<1>1. PICK S : /\ \A n \in S : IsNext(n)
               /\ Written(S)
               /\ \A m, n \in S : m.kind = n.kind => m = n
  BY NextWrites
<1>2. ASSUME NEW kind \in Checked
      PROVE  Check!OperationLine(StatusOf(kind), StatusOf(kind)')
  <2>1. CASE \A m \in S : m.kind # kind
    <3>1. StatusOf(kind)' = StatusOf(kind)
      BY <1>1, <2>1, StatusSame
    <3> QED
      BY <3>1 DEF Check!OperationLine
  <2>2. CASE \E n \in S : n.kind = kind
    <3>1. PICK n \in S : n.kind = kind
      BY <2>2
    <3>2. \A m \in S : m.kind = kind => m = n
      BY <1>1, <3>1
    <3> QED
      BY <1>1, <3>1, <3>2, StatusStep DEF Check!OperationLine
  <2> QED
    BY <2>1, <2>2
<1>w. ASSUME NEW w \in Threads, NEW side
      PROVE  /\ Count(logged[w], side) \in Nat
             /\ Count(logged'[w], side) = Count(logged[w], side)
                + (IF \E n \in S : n.thread = w /\ n.kind = "reconcile" /\ n.side = side
                   THEN 1 ELSE 0)
  <2>1. (\A n \in S : IsNext(n)) /\ Written(S)
    BY <1>1
  <2> QED
    BY <2>1, WrittenCounts
<1>3. Check!ReconcileLine
  <2> DEFINE s == [w \in Workers |-> OpenReconciles(w)]
             t == [w \in Workers |-> OpenReconciles(w)']
  <2>0. [w \in Workers |-> OpenReconciles(w)]' = t
    OBVIOUS
  <2>1. CASE \A m \in S : m.kind # "reconcile"
    <3>1. ASSUME NEW w \in Workers PROVE OpenReconciles(w)' = OpenReconciles(w)
      <4>0. w \in Threads
        BY DEF Threads
      <4>1. \A side \in {"before", "after"} : Count(logged'[w], side) = Count(logged[w], side) + 0
                     /\ Count(logged[w], side) \in Nat
        <5> TAKE side \in {"before", "after"}
        <5>1. ~ \E m \in S : m.thread = w /\ m.kind = "reconcile" /\ m.side = side
          BY <2>1
        <5>2. /\ Count(logged[w], side) \in Nat
              /\ Count(logged'[w], side) = Count(logged[w], side)
                + (IF \E n \in S : n.thread = w /\ n.kind = "reconcile" /\ n.side = side
                   THEN 1 ELSE 0)
          BY <1>w, <4>0
        <5> QED
          BY <5>1, <5>2
      <4>2. Count(logged'[w], "before") = Count(logged[w], "before")
            /\ Count(logged'[w], "after") = Count(logged[w], "after")
        BY <4>1
      <4> QED
        BY <4>2 DEF OpenReconciles, Count
    <3> QED
      BY <2>0, <3>1 DEF Check!ReconcileLine
  <2>2. CASE \E n \in S : n.kind = "reconcile"
    <3>1. PICK n \in S : n.kind = "reconcile"
      BY <2>2
    <3>2. \A m \in S : m.kind = "reconcile" => m = n
      BY <1>1, <3>1
    <3>3. n.side \in {"before", "after"}
      BY <1>1 DEF IsNext, Notifications
    <3>4. /\ n.thread \in Workers
          /\ \A v \in Workers : v # n.thread => OpenReconciles(v)' = OpenReconciles(v)
          /\ \/ OpenReconciles(n.thread) = 0 /\ t[n.thread] = 1
             \/ OpenReconciles(n.thread) = 1 /\ t[n.thread] = 0
      BY <1>1, <3>1, <3>2, <3>3, ReconcileWritten
    <3>5. t = [s EXCEPT ![n.thread] = 1 - s[n.thread]]
      BY <3>4
    <3> QED
      BY <2>0, <3>4, <3>5 DEF Check!ReconcileLine
  <2> QED
    BY <2>1, <2>2
<1> QED
  BY <1>2, <1>3 DEF Check!Next, Checked

\* The learn server implements what sanity_check_sieve_server_log asserts of its log: for
\* any number of workers, receivers and operations, the log passes at every moment.
THEOREM SanityCheckPasses == Spec => LogPassesSanityCheck
<1>1. Init => Check!Init
  <2> SUFFICES ASSUME Init PROVE Check!Init
    OBVIOUS
  <2>1. IndInv
    BY InitHolds
  <2>2. \A kind : LinesOf(kind) = {}
    BY LinesOfIs DEF Init
  <2>3. \A kind : StatusOf(kind) = <<>>
    <3> TAKE kind
    <3>1. Numbers(kind) = {}
      BY <2>2 DEF Numbers
    <3>2. StatusOf(kind) = [id \in Numbers(kind) |->
                <<Cardinality(LinesWith(kind, "before", id)),
                  Cardinality(LinesWith(kind, "after", id))>>]
      BY StatusIs
    <3>3. [id \in {} |-> <<Cardinality(LinesWith(kind, "before", id)),
                           Cardinality(LinesWith(kind, "after", id))>>] = <<>>
      OBVIOUS
    <3>4. StatusOf(kind) = [id \in {} |-> <<Cardinality(LinesWith(kind, "before", id)),
                           Cardinality(LinesWith(kind, "after", id))>>]
      BY <3>1, <3>2
    <3> QED
      BY <3>3, <3>4
  <2>4. ASSUME NEW w \in Workers PROVE OpenReconciles(w) = 0
    <3>1. logged[w] = <<>>
      BY DEF Init, Threads
    <3>2. \A side : Lines(logged[w], "reconcile", side) = {}
      BY <3>1 DEF Lines
    <3> QED
      BY <3>2, FS_EmptySet DEF OpenReconciles
  <2> QED
    BY <2>3, <2>4 DEF Check!Init
<1>2. IndInv /\ [Next]_vars => Check!Next
  BY CheckedStep
<1> QED
  BY <1>1, <1>2, Invariance, PTL DEF Spec, LogPassesSanityCheck, Check!Spec
=============================================================================
