--------------------------- MODULE ReactorProofs ---------------------------
(* The reactor's dispatch is right for any number of connections, timers,    *)
(* delays and opens, and for every limit.                                    *)
EXTENDS Reactor, FiniteSetTheorems, SequenceTheorems, TLAPS

-----------------------------------------------------------------------------
(* Linked lists *)

\* What taking one node out of a list leaves, node by node.
LEMMA RemoveAtNodes ==
  ASSUME NEW S, NEW s \in Seq(S), NEW p \in 1 .. Len(s)
  PROVE  /\ RemoveAt(s, p) \in Seq(S) /\ Len(RemoveAt(s, p)) = Len(s) - 1
         /\ \A i \in 1 .. Len(s) - 1 :
              RemoveAt(s, p)[i] = IF i < p THEN s[i] ELSE s[i + 1]
<1> DEFINE a == SubSeq(s, 1, p - 1)
           b == SubSeq(s, p + 1, Len(s))
<1>1. p \in Nat /\ Len(s) \in Nat /\ p >= 1 /\ p <= Len(s)
  OBVIOUS
<1>2. a \in Seq(S) /\ Len(a) = p - 1 /\ \A i \in 1 .. p - 1 : a[i] = s[i]
  BY <1>1
<1>3. b \in Seq(S) /\ Len(b) = Len(s) - p /\ \A i \in 1 .. Len(s) - p : b[i] = s[p + i]
  BY <1>1
<1>4. RemoveAt(s, p) = a \o b
  BY DEF RemoveAt
<1> HIDE DEF a, b
<1>5. a \o b \in Seq(S) /\ Len(a \o b) = Len(s) - 1
  <2>1. a \o b \in Seq(S) /\ Len(a \o b) = Len(a) + Len(b)
    BY <1>2, <1>3, ConcatProperties
  <2>2. (p - 1) + (Len(s) - p) = Len(s) - 1
    BY <1>1
  <2> QED BY <1>2, <1>3, <2>1, <2>2
<1>6. ASSUME NEW i \in 1 .. Len(s) - 1 PROVE (a \o b)[i] = IF i < p THEN s[i] ELSE s[i + 1]
  <2>1. CASE i < p
    BY <1>1, <1>2, <1>3, <2>1
  <2>2. CASE ~(i < p)
    <3>1. (a \o b)[i] = b[i - (p - 1)] /\ i - (p - 1) \in 1 .. Len(s) - p
      BY <1>1, <1>2, <1>3, <2>2
    <3>2. p + (i - (p - 1)) = i + 1
      BY <1>1
    <3> QED BY <1>3, <2>2, <3>1, <3>2
  <2> QED BY <2>1, <2>2
<1> QED BY <1>4, <1>5, <1>6

\* Unlinking takes out the node and keeps the others in their order.
LEMMA Unlinked ==
  ASSUME NEW S, NEW s \in Seq(S), NEW e, Distinct(s)
  PROVE  /\ Unlink(s, e) \in Seq(S) /\ Distinct(Unlink(s, e))
         /\ Range(Unlink(s, e)) = Range(s) \ {e}
         /\ \A i, j \in DOMAIN Unlink(s, e) : i < j =>
              \E k, l \in DOMAIN s : k < l /\ s[k] = Unlink(s, e)[i] /\ s[l] = Unlink(s, e)[j]
<1>1. CASE ~\E i \in DOMAIN s : s[i] = e
  BY <1>1 DEF Unlink, Range
<1>2. CASE \E i \in DOMAIN s : s[i] = e
  <2> DEFINE p == CHOOSE i \in DOMAIN s : s[i] = e
             u == RemoveAt(s, p)
  <2>1. p \in DOMAIN s /\ s[p] = e /\ p \in 1 .. Len(s) /\ DOMAIN s = 1 .. Len(s)
    BY <1>2
  <2>2. Unlink(s, e) = u
    BY <1>2 DEF Unlink
  <2> HIDE DEF p
  <2>3. /\ u \in Seq(S) /\ Len(u) = Len(s) - 1
        /\ \A i \in 1 .. Len(s) - 1 : u[i] = IF i < p THEN s[i] ELSE s[i + 1]
    BY <2>1, RemoveAtNodes
  <2> HIDE DEF u
  <2>4. DOMAIN u = 1 .. Len(s) - 1 /\ Len(s) \in Nat /\ p \in Nat
    BY <2>1, <2>3
  <2> DEFINE m(i) == IF i < p THEN i ELSE i + 1
  <2>5. \A i \in DOMAIN u : m(i) \in DOMAIN s /\ m(i) # p /\ u[i] = s[m(i)]
    BY <2>1, <2>3, <2>4
  <2>6. \A i, j \in DOMAIN u : i < j => m(i) < m(j)
    BY <2>4
  <2>7. \A i, j \in DOMAIN u : i # j => m(i) # m(j)
    BY <2>4
  <2>8. \A k \in DOMAIN s : k # p => \E i \in DOMAIN u : m(i) = k
    <3> SUFFICES ASSUME NEW k \in DOMAIN s, k # p PROVE \E i \in DOMAIN u : m(i) = k
      OBVIOUS
    <3>1. CASE k < p
      BY <2>1, <2>4, <3>1
    <3>2. CASE k > p
      <4>1. k - 1 \in DOMAIN u /\ m(k - 1) = k
        BY <2>1, <2>4, <3>2
      <4> QED BY <4>1
    <3> QED BY <2>1, <2>4, <3>1, <3>2
  <2> HIDE DEF m
  <2>9. Distinct(u)
    BY <2>5, <2>7 DEF Distinct
  <2>10. Range(u) = Range(s) \ {e}
    <3>1. \A i \in DOMAIN u : u[i] \in Range(s) /\ u[i] # e
      BY <2>1, <2>5 DEF Range, Distinct
    <3>2. \A k \in DOMAIN s : s[k] # e => s[k] \in Range(u)
      <4> SUFFICES ASSUME NEW k \in DOMAIN s, s[k] # e PROVE s[k] \in Range(u)
        OBVIOUS
      <4>1. PICK i \in DOMAIN u : m(i) = k
        BY <2>1, <2>8
      <4> QED BY <2>5, <4>1 DEF Range
    <3> QED BY <3>1, <3>2 DEF Range
  <2> QED BY <2>2, <2>3, <2>5, <2>6, <2>9, <2>10
<1> QED BY <1>1, <1>2

\* Putting a node that is not there in front of a list.
LEMMA Prepended ==
  ASSUME NEW S, NEW s \in Seq(S), NEW e \in S, Distinct(s), e \notin Range(s)
  PROVE  /\ <<e>> \o s \in Seq(S) /\ Distinct(<<e>> \o s)
         /\ Range(<<e>> \o s) = {e} \cup Range(s)
<1> DEFINE u == <<e>> \o s
<1>1. /\ u \in Seq(S) /\ Len(s) \in Nat /\ DOMAIN s = 1 .. Len(s)
      /\ DOMAIN u = 1 .. Len(s) + 1 /\ u[1] = e
      /\ \A i \in 1 .. Len(s) : u[i + 1] = s[i]
  OBVIOUS
<1>2. \A i \in DOMAIN u : i = 1 \/ (i - 1 \in DOMAIN s /\ u[i] = s[i - 1] /\ i \in Nat)
  BY <1>1
<1> HIDE DEF u
<1>3. Distinct(u)
  <2> SUFFICES ASSUME NEW i \in DOMAIN u, NEW j \in DOMAIN u, i # j PROVE u[i] # u[j]
    BY DEF Distinct
  <2>1. CASE i = 1
    BY <1>1, <1>2, <2>1 DEF Range
  <2>2. CASE j = 1
    BY <1>1, <1>2, <2>2 DEF Range
  <2>3. CASE i # 1 /\ j # 1
    <3>1. i - 1 \in DOMAIN s /\ j - 1 \in DOMAIN s /\ i \in Nat /\ j \in Nat
          /\ u[i] = s[i - 1] /\ u[j] = s[j - 1]
      BY <1>2, <2>3
    <3>2. i - 1 # j - 1
      BY <3>1
    <3> QED BY <3>1, <3>2 DEF Distinct
  <2> QED BY <2>1, <2>2, <2>3
<1>4. Range(u) = {e} \cup Range(s)
  <2>1. \A i \in DOMAIN u : u[i] \in {e} \cup Range(s)
    BY <1>1, <1>2 DEF Range
  <2>2. \A i \in DOMAIN s : s[i] \in Range(u)
    <3> SUFFICES ASSUME NEW i \in DOMAIN s PROVE s[i] \in Range(u)
      OBVIOUS
    <3>1. i + 1 \in DOMAIN u /\ u[i + 1] = s[i]
      BY <1>1
    <3> QED BY <3>1 DEF Range
  <2>3. e \in Range(u)
    <3>1. 1 \in DOMAIN u
      BY <1>1
    <3> QED BY <1>1, <3>1 DEF Range
  <2> QED BY <2>1, <2>2, <2>3 DEF Range
<1> QED BY <1>1, <1>3, <1>4 DEF u

\* Taking the first node of a list.
LEMMA First ==
  ASSUME NEW S, NEW s \in Seq(S), s # <<>>, Distinct(s)
  PROVE  /\ Head(s) \in S /\ Head(s) \in Range(s) /\ Head(s) \notin Range(Tail(s))
         /\ Tail(s) \in Seq(S) /\ Distinct(Tail(s)) /\ Range(s) = {Head(s)} \cup Range(Tail(s))
         /\ \A i \in DOMAIN Tail(s) : i + 1 \in DOMAIN s /\ Tail(s)[i] = s[i + 1]
         /\ Head(s) = s[1] /\ 1 \in DOMAIN s
<1> DEFINE u == Tail(s)
<1>1. /\ u \in Seq(S) /\ Len(s) \in Nat /\ Len(s) >= 1 /\ DOMAIN s = 1 .. Len(s)
      /\ DOMAIN u = 1 .. Len(s) - 1 /\ Head(s) = s[1] /\ s[1] \in S
      /\ \A i \in 1 .. Len(s) - 1 : u[i] = s[i + 1]
  OBVIOUS
<1> HIDE DEF u
<1>2. /\ \A i \in DOMAIN u : i + 1 \in DOMAIN s /\ u[i] = s[i + 1] /\ i \in Nat /\ i + 1 # 1
      /\ 1 \in DOMAIN s
      /\ \A k \in DOMAIN s : k = 1 \/ (k - 1 \in DOMAIN u /\ u[k - 1] = s[k])
  BY <1>1
<1>3. Distinct(u)
  <2> SUFFICES ASSUME NEW i \in DOMAIN u, NEW j \in DOMAIN u, i # j PROVE u[i] # u[j]
    BY DEF Distinct
  <2>1. i \in Nat /\ j \in Nat /\ i + 1 # j + 1
    BY <1>2
  <2> QED BY <1>2, <2>1 DEF Distinct
<1>4. s[1] \notin Range(u)
  BY <1>2 DEF Range, Distinct
<1>5. Range(s) = {s[1]} \cup Range(u)
  <2>1. \A k \in DOMAIN s : s[k] \in {s[1]} \cup Range(u)
    BY <1>2 DEF Range
  <2>2. Range(u) \subseteq Range(s) /\ s[1] \in Range(s)
    BY <1>2 DEF Range
  <2> QED BY <2>1, <2>2 DEF Range
<1> QED BY <1>1, <1>2, <1>3, <1>4, <1>5 DEF u

-----------------------------------------------------------------------------
(* What a handler's steps do to the invariant *)

\* A handler that was called, to its end.
Returns ==
  /\ IInv /\ ~stale /\ call # <<>> /\ call' = <<>>
  /\ UNCHANGED <<loop, twice, now, stale>>

\* An operation that does not depend on the handler.
Waiting(o) == o[2] \in wait[o[1]] \/ <<o[1], o[2], "operation">> \in Range(jobs)

\* Jobs and operations by their parts.
LEMMA Parts ==
  /\ \A job \in Jobs : /\ job[1] \in Fds
                       /\ \/ job = <<job[1], "read", "operation">> \/ job = <<job[1], "read", "done">>
                          \/ job = <<job[1], "write", "operation">> \/ job = <<job[1], "write", "done">>
  /\ \A f \in Fds : \A d \in Dirs :
       <<f, d, "operation">> \in Jobs /\ <<f, d, "done">> \in Jobs /\ <<f, d>> \in Ops
  /\ \A o \in Ops : o[1] \in Fds /\ o[2] \in Dirs /\ o = <<o[1], o[2]>>
BY DEF Jobs, Ops, Dirs

\* The loop runs while a handler does, and lists are as they should be.
LEMMA ReturnsFacts ==
  ASSUME Returns
  PROVE  /\ loop = "run" /\ BlockedOK' /\ NoStaleDispatch'
         /\ jobs \in Seq(Jobs) /\ Distinct(jobs) /\ \A job \in Range(jobs) : job \in Jobs
         /\ \A job \in Range(jobs) : active[job[1]]
<1>1. loop = "run"
  BY DEF Returns, IInv, TypeOK, BlockedOK
<1>2. \A job \in Range(jobs) : job \in Jobs
  BY DEF Returns, IInv, TypeOK, Range
<1> QED BY <1>1, <1>2 DEF Returns, IInv, TypeOK, BlockedOK, NoStaleDispatch, JobsOK

\* What only concerns the timers and the jobs leaves the connections as they were.
LEMMA KeepsEvents ==
  ASSUME IInv, ~stale, ~stale', UNCHANGED <<twice, results, pos, pointer, gen, active>>
  PROVE  PointersOK' /\ ResultsOK'
BY DEF IInv, PointersOK, ResultsOK, Gone

\* The jobs that are left when a connection is freed.
LEMMA FreeJobs ==
  ASSUME Returns, NEW f \in Fds
  PROVE  LET left == FreeInterface(FreeInterface(jobs, f, "read"), f, "write")
         IN  /\ left \in Seq(Jobs) /\ Distinct(left)
             /\ \A job \in Range(left) : job \in Range(jobs) /\ job[1] # f
             /\ \A job \in Range(jobs) : job[1] # f => job \in Range(left)
<1> DEFINE j1 == Unlink(jobs, <<f, "read", "done">>)
           j2 == Unlink(j1, <<f, "read", "operation">>)
           j3 == Unlink(j2, <<f, "write", "done">>)
           j4 == Unlink(j3, <<f, "write", "operation">>)
<1>1. j1 \in Seq(Jobs) /\ Distinct(j1) /\ Range(j1) = Range(jobs) \ {<<f, "read", "done">>}
  BY ReturnsFacts, Unlinked
<1> HIDE DEF j1
<1>2. j2 \in Seq(Jobs) /\ Distinct(j2) /\ Range(j2) = Range(j1) \ {<<f, "read", "operation">>}
  BY <1>1, Unlinked
<1> HIDE DEF j2
<1>3. j3 \in Seq(Jobs) /\ Distinct(j3) /\ Range(j3) = Range(j2) \ {<<f, "write", "done">>}
  BY <1>2, Unlinked
<1> HIDE DEF j3
<1>4. j4 \in Seq(Jobs) /\ Distinct(j4) /\ Range(j4) = Range(j3) \ {<<f, "write", "operation">>}
  BY <1>3, Unlinked
<1>5. FreeInterface(FreeInterface(jobs, f, "read"), f, "write") = j4
  BY DEF FreeInterface, j1, j2, j3
<1> HIDE DEF j4
<1>6. \A job \in Range(j4) : job \in Range(jobs) /\ job[1] # f
  BY <1>1, <1>2, <1>3, <1>4, ReturnsFacts, Parts
<1>7. \A job \in Range(jobs) : job[1] # f => job \in Range(j4)
  BY <1>1, <1>2, <1>3, <1>4
<1> QED BY <1>4, <1>5, <1>6, <1>7

\* A connection is freed.
LEMMA FreeInv ==
  ASSUME Returns, NEW f \in Fds, BConnection_Free(f), UNCHANGED tvars,
         \A o \in busy : o[1] # f => Waiting(o)
  PROVE  IInv'
<1>1. /\ active[f] /\ active' = [active EXCEPT ![f] = FALSE] /\ wait' = [wait EXCEPT ![f] = {}]
      /\ results' = ClearReturned(f) /\ busy' = {o \in busy : o[1] # f}
      /\ count' = [o \in Ops |-> IF o[1] = f THEN 0 ELSE count[o]]
      /\ UNCHANGED <<pos, pointer, gen, timer, absTime, expired>>
  BY DEF BConnection_Free, tvars
<1>2. /\ jobs' \in Seq(Jobs) /\ Distinct(jobs')
      /\ \A job \in Range(jobs') : job \in Range(jobs) /\ job[1] # f
      /\ \A job \in Range(jobs) : job[1] # f => job \in Range(jobs')
  BY FreeJobs DEF BConnection_Free
<1>3. /\ results' \in Seq({<<>>} \cup Entries) /\ Len(results') = Len(results)
      /\ \A i \in 1 .. Len(results) :
           results'[i] = IF i = pointer[f] THEN <<>> ELSE results[i]
  <2>1. results \in Seq({<<>>} \cup Entries) /\ pointer[f] \in Nat
    BY DEF Returns, IInv, TypeOK
  <2>2. CASE pointer[f] = 0
    BY <1>1, <2>1, <2>2 DEF ClearReturned
  <2>3. CASE pointer[f] # 0
    <3>1. results' = [results EXCEPT ![pointer[f]] = <<>>]
      BY <1>1, <2>3 DEF ClearReturned
    <3>2. pointer[f] \in 1 .. Len(results)
      BY <1>1, <2>1, <2>3 DEF Returns, IInv, TypeOK, PointersOK
    <3>3. <<>> \in {<<>>} \cup Entries
      OBVIOUS
    <3> QED BY <2>1, <3>1, <3>2, <3>3, ExceptSeq
  <2> QED BY <2>2, <2>3
<1>4. TypeOK'
  <2>1. active' \in [Fds -> BOOLEAN] /\ wait' \in [Fds -> SUBSET Dirs]
    BY <1>1 DEF Returns, IInv, TypeOK
  <2>2. busy' \subseteq Ops /\ count' \in [Ops -> 0 .. Limit]
    BY <1>1, ReactorAssumption DEF Returns, IInv, TypeOK
  <2>3. call' \in {<<>>} \cup Calls \cup (Timers \X {"timer"}) /\ pos' \in 0 .. Len(results')
    BY <1>1, <1>3 DEF Returns, IInv, TypeOK
  <2> QED BY <1>1, <1>2, <1>3, <2>1, <2>2, <2>3 DEF Returns, IInv, TypeOK
<1>5. TimersInOrder'
  BY <1>1 DEF Returns, IInv, TimersInOrder
<1>6. JobsOK'
  <2>1. \A job \in Range(jobs') : active'[job[1]]
    BY <1>1, <1>2, ReturnsFacts, Parts DEF Returns, IInv, TypeOK
  <2>2. \A g \in Fds : ~active'[g] => wait'[g] = {}
    BY <1>1 DEF Returns, IInv, TypeOK, JobsOK
  <2>3. call' \notin Calls
    BY DEF Returns, Calls
  <2> QED BY <1>2, <2>1, <2>2, <2>3 DEF JobsOK
<1>7. PointersOK'
  <2> SUFFICES ASSUME NEW g \in Fds, active'[g], pointer[g] # 0
               PROVE  /\ pointer[g] \in pos + 1 .. Len(results)
                      /\ results'[pointer[g]] # <<>> /\ results'[pointer[g]][1] = g
    BY <1>1, <1>3 DEF PointersOK
  <2>1. g # f /\ active[g]
    BY <1>1 DEF Returns, IInv, TypeOK
  <2>2. /\ pointer[g] \in pos + 1 .. Len(results)
        /\ results[pointer[g]] # <<>> /\ results[pointer[g]][1] = g
        /\ pointer[f] # 0 => results[pointer[f]][1] = f
    BY <1>1, <2>1 DEF Returns, IInv, PointersOK
  <2>3. pointer[g] \in 1 .. Len(results) /\ pointer[g] # pointer[f]
    BY <2>1, <2>2 DEF Returns, IInv, TypeOK
  <2> QED BY <1>3, <2>2, <2>3
<1>8. ResultsOK'
  <2> SUFFICES ASSUME ~twice, NEW i \in pos + 1 .. Len(results), results'[i] # <<>>
               PROVE  /\ active'[results'[i][1]] /\ gen[results'[i][1]] = results'[i][3]
                      /\ pointer[results'[i][1]] = i
    BY <1>1, <1>3 DEF ResultsOK, Returns, Gone
  <2>1. i \in 1 .. Len(results)
    BY DEF Returns, IInv, TypeOK
  <2>2. results'[i] = results[i] /\ i # pointer[f]
    BY <1>3, <2>1
  <2>3. results[i] \in Entries
    BY <2>1, <2>2 DEF Returns, IInv, TypeOK
  <2>4. results[i][1] \in Fds
    BY <2>3 DEF Entries
  <2>5. ~Gone(results[i][1], results[i][3]) /\ pointer[results[i][1]] = i
    BY <2>2 DEF Returns, IInv, ResultsOK
  <2>6. results[i][1] # f
    BY <2>2, <2>5
  <2> QED BY <1>1, <2>2, <2>4, <2>5, <2>6 DEF Gone, Returns, IInv, TypeOK
<1>9. BusyIsAwaited'
  <2> SUFFICES ASSUME NEW o \in busy, o[1] # f
               PROVE  /\ active'[o[1]]
                      /\ o[2] \in wait'[o[1]] \/ <<o[1], o[2], "operation">> \in Range(jobs')
    BY <1>1 DEF BusyIsAwaited
  <2>1. o[1] \in Fds /\ active[o[1]] /\ Waiting(o)
    BY Parts DEF Returns, IInv, TypeOK, BusyIsAwaited
  <2>2. <<o[1], o[2], "operation">>[1] = o[1]
    OBVIOUS
  <2> QED BY <1>1, <1>2, <2>1, <2>2 DEF Waiting, Returns, IInv, TypeOK
<1> QED BY <1>4, <1>5, <1>6, <1>7, <1>8, <1>9, ReturnsFacts DEF IInv

\* A connection is opened, and its operations begin.
LEMMA OpenInv ==
  ASSUME Returns, NEW f \in Fds, BConnection_Init(f), UNCHANGED tvars,
         \A o \in busy : Waiting(o)
  PROVE  IInv'
<1> DEFINE w == <<f, "write", "operation">>
           r == <<f, "read", "operation">>
<1>1. /\ ~active[f] /\ gen' = [gen EXCEPT ![f] = @ + 1] /\ active' = [active EXCEPT ![f] = TRUE]
      /\ wait' = [wait EXCEPT ![f] = {}] /\ pointer' = [pointer EXCEPT ![f] = 0]
      /\ busy' = busy \cup {<<f, "read">>, <<f, "write">>}
      /\ jobs' = <<w, r>> \o jobs
      /\ UNCHANGED <<results, pos, count, timer, absTime, expired>>
  BY DEF BConnection_Init, tvars
<1>2. jobs' \in Seq(Jobs) /\ Distinct(jobs') /\ Range(jobs') = {w, r} \cup Range(jobs)
  <2>1. w \in Jobs /\ r \in Jobs /\ w # r /\ w[1] = f /\ r[1] = f
    BY DEF Jobs, Dirs
  <2>2. w \notin Range(jobs) /\ r \notin Range(jobs)
    BY <1>1, <2>1, ReturnsFacts
  <2>3. <<r>> \o jobs \in Seq(Jobs) /\ Distinct(<<r>> \o jobs) /\ Range(<<r>> \o jobs) = {r} \cup Range(jobs)
    BY <2>1, <2>2, ReturnsFacts, Prepended
  <2>4. w \notin Range(<<r>> \o jobs)
    BY <2>1, <2>2, <2>3
  <2>5. /\ <<w>> \o (<<r>> \o jobs) \in Seq(Jobs) /\ Distinct(<<w>> \o (<<r>> \o jobs))
        /\ Range(<<w>> \o (<<r>> \o jobs)) = {w} \cup Range(<<r>> \o jobs)
    BY <2>1, <2>3, <2>4, Prepended
  <2>6. <<w, r>> \o jobs = <<w>> \o (<<r>> \o jobs)
    <3> HIDE DEF w, r
    <3>1. <<w>> \in Seq(Jobs) /\ <<r>> \in Seq(Jobs) /\ <<w, r>> = <<w>> \o <<r>>
      <4>1. /\ <<w>> \in Seq(Jobs) /\ <<r>> \in Seq(Jobs) /\ <<w, r>> \in Seq(Jobs)
            /\ Len(<<w, r>>) = 2 /\ <<w, r>>[1] = w /\ <<w, r>>[2] = r
            /\ Len(<<w>>) = 1 /\ Len(<<r>>) = 1 /\ <<w>>[1] = w /\ <<r>>[1] = r
        BY <2>1
      <4> DEFINE c == <<w>> \o <<r>>
      <4>2. c \in Seq(Jobs) /\ Len(c) = 2
        BY <4>1, ConcatProperties
      <4>3. c[1] = w /\ c[2] = r
        BY <4>1, ConcatProperties
      <4> HIDE DEF c
      <4>4. \A i \in 1 .. 2 : i = 1 \/ i = 2
        OBVIOUS
      <4>5. \A i \in 1 .. Len(c) : c[i] = <<w, r>>[i]
        BY <4>1, <4>2, <4>3, <4>4
      <4>6. c = <<w, r>>
        BY <4>1, <4>2, <4>5, SeqEqual
      <4> QED BY <4>1, <4>6 DEF c
    <3>2. \A s, t, u \in Seq(Jobs) : (s \o t) \o u = s \o (t \o u)
      BY ConcatAssociative
    <3> QED BY <3>1, <3>2, ReturnsFacts
  <2> QED BY <1>1, <2>3, <2>5, <2>6
<1>3. TypeOK'
  <2>1. active' \in [Fds -> BOOLEAN] /\ wait' \in [Fds -> SUBSET Dirs]
    BY <1>1 DEF Returns, IInv, TypeOK
  <2>2. gen' \in [Fds -> Nat] /\ pointer' \in [Fds -> Nat]
    BY <1>1 DEF Returns, IInv, TypeOK
  <2>3. busy' \subseteq Ops
    BY <1>1 DEF Returns, IInv, TypeOK, Ops, Dirs
  <2>4. call' \in {<<>>} \cup Calls \cup (Timers \X {"timer"}) /\ pos' \in 0 .. Len(results')
    BY <1>1 DEF Returns, IInv, TypeOK
  <2> QED BY <1>1, <1>2, <2>1, <2>2, <2>3, <2>4 DEF Returns, IInv, TypeOK
<1>4. TimersInOrder'
  BY <1>1 DEF Returns, IInv, TimersInOrder
<1>5. JobsOK'
  <2>1. active'[f] /\ w[1] = f /\ r[1] = f
    BY <1>1 DEF Returns, IInv, TypeOK
  <2>2. \A job \in Range(jobs) : active'[job[1]]
    BY <1>1, ReturnsFacts, Parts DEF Returns, IInv, TypeOK
  <2>3. \A g \in Fds : ~active'[g] => wait'[g] = {}
    BY <1>1 DEF Returns, IInv, TypeOK, JobsOK
  <2>4. call' \notin Calls
    BY DEF Returns, Calls
  <2> HIDE DEF w, r
  <2> QED BY <1>2, <2>1, <2>2, <2>3, <2>4 DEF JobsOK
<1>6. PointersOK'
  <2> SUFFICES ASSUME NEW g \in Fds, active'[g], pointer'[g] # 0
               PROVE  /\ pointer'[g] \in pos + 1 .. Len(results)
                      /\ results[pointer'[g]] # <<>> /\ results[pointer'[g]][1] = g
    BY <1>1 DEF PointersOK
  <2>1. g # f /\ active[g] /\ pointer'[g] = pointer[g]
    BY <1>1 DEF Returns, IInv, TypeOK
  <2> QED BY <2>1 DEF Returns, IInv, PointersOK
<1>7. ResultsOK'
  <2> SUFFICES ASSUME ~twice, NEW i \in pos + 1 .. Len(results), results[i] # <<>>
               PROVE  /\ active'[results[i][1]] /\ gen'[results[i][1]] = results[i][3]
                      /\ pointer'[results[i][1]] = i
    BY <1>1 DEF ResultsOK, Returns, Gone
  <2>1. i \in 1 .. Len(results)
    BY DEF Returns, IInv, TypeOK
  <2>2. results[i] \in Entries
    BY <2>1 DEF Returns, IInv, TypeOK
  <2>3. results[i][1] \in Fds
    BY <2>2 DEF Entries
  <2>4. /\ active[results[i][1]] /\ gen[results[i][1]] = results[i][3]
        /\ pointer[results[i][1]] = i
    BY DEF Returns, IInv, ResultsOK, Gone
  <2>5. results[i][1] # f
    BY <1>1, <2>4
  <2> QED BY <1>1, <2>3, <2>4, <2>5 DEF Returns, IInv, TypeOK
<1>8. BusyIsAwaited'
  <2>1. active'[f] /\ w \in Range(jobs') /\ r \in Range(jobs')
    BY <1>1, <1>2 DEF Returns, IInv, TypeOK
  <2>2. ASSUME NEW o \in busy
        PROVE  /\ active'[o[1]]
               /\ o[2] \in wait'[o[1]] \/ <<o[1], o[2], "operation">> \in Range(jobs')
    <3>1. o[1] \in Fds /\ active[o[1]] /\ Waiting(o) /\ o[1] # f
      BY <1>1, Parts DEF Returns, IInv, TypeOK, BusyIsAwaited
    <3>2. active'[o[1]] /\ wait'[o[1]] = wait[o[1]]
      BY <1>1, <3>1 DEF Returns, IInv, TypeOK
    <3> QED BY <1>2, <3>1, <3>2 DEF Waiting
  <2>3. ASSUME NEW o \in {<<f, "read">>, <<f, "write">>}
        PROVE  active'[o[1]] /\ <<o[1], o[2], "operation">> \in Range(jobs')
    BY <2>1
  <2> HIDE DEF w, r
  <2> QED BY <1>1, <2>2, <2>3 DEF BusyIsAwaited
<1> QED BY <1>3, <1>4, <1>5, <1>6, <1>7, <1>8, ReturnsFacts DEF IInv

\* The expired timers are a list without repetition.
LEMMA ExpiredDistinct == IInv => Distinct(expired)
<1> SUFFICES ASSUME IInv, NEW i \in DOMAIN expired, NEW j \in DOMAIN expired, i # j
             PROVE  expired[i] # expired[j]
  BY DEF Distinct
<1>1. i \in Nat /\ j \in Nat
  BY DEF IInv, TypeOK
<1> QED BY <1>1 DEF IInv, TimersInOrder

\* A timer is removed, or set: it is no longer among the expired ones.
LEMMA TimerInv ==
  ASSUME Returns, NEW t \in Timers, NEW s \in {"inactive", "running"}, NEW at \in 0 .. Horizon,
         timer' = [timer EXCEPT ![t] = s], absTime' = [absTime EXCEPT ![t] = at],
         expired' = Unlink(expired, t), UNCHANGED <<jobs, fvars>>,
         \A o \in busy : Waiting(o)
  PROVE  IInv'
<1>1. UNCHANGED <<jobs, results, pos, pointer, gen, active, wait, busy, count>>
  BY DEF fvars
<1>2. /\ expired' \in Seq(Timers) /\ Range(expired') = Range(expired) \ {t}
      /\ \A i, j \in DOMAIN expired' : i < j =>
           \E k, l \in DOMAIN expired : k < l /\ expired[k] = expired'[i] /\ expired[l] = expired'[j]
  <2>1. expired \in Seq(Timers) /\ Distinct(expired)
    BY ExpiredDistinct DEF Returns, IInv, TypeOK
  <2> QED BY <2>1, Unlinked
<1>3. TypeOK'
  <2>1. timer' \in [Timers -> {"inactive", "running", "expired"}] /\ absTime' \in [Timers -> 0 .. Horizon]
    BY DEF Returns, IInv, TypeOK
  <2>2. call' \in {<<>>} \cup Calls \cup (Timers \X {"timer"}) /\ pos' \in 0 .. Len(results')
    BY <1>1 DEF Returns, IInv, TypeOK
  <2> QED BY <1>1, <1>2, <2>1, <2>2 DEF Returns, IInv, TypeOK
<1>4. TimersInOrder'
  <2>0. \A u \in Range(expired') : /\ u \in Timers /\ timer'[u] = "expired" /\ absTime'[u] = absTime[u]
                                   /\ absTime[u] <= now
    <3> SUFFICES ASSUME NEW u \in Range(expired'), u \in Range(expired), u # t
                 PROVE  /\ u \in Timers /\ timer'[u] = "expired" /\ absTime'[u] = absTime[u]
                        /\ absTime[u] <= now
      BY <1>2
    <3>1. PICK k \in DOMAIN expired : expired[k] = u
      BY DEF Range
    <3>2. u \in Timers /\ timer[u] = "expired" /\ absTime[u] <= now
      BY <3>1 DEF Returns, IInv, TypeOK, TimersInOrder
    <3> QED BY <3>2 DEF Returns, IInv, TypeOK
  <2>1. ASSUME NEW i \in DOMAIN expired' PROVE expired'[i] \in Range(expired')
    BY DEF Range
  <2>2. ASSUME NEW i \in DOMAIN expired', NEW j \in DOMAIN expired', i < j
        PROVE  expired'[i] # expired'[j] /\ absTime'[expired'[i]] <= absTime'[expired'[j]]
    <3>1. PICK k \in DOMAIN expired, l \in DOMAIN expired :
            k < l /\ expired[k] = expired'[i] /\ expired[l] = expired'[j]
      BY <1>2, <2>2
    <3>2. expired[k] # expired[l] /\ absTime[expired[k]] <= absTime[expired[l]]
      BY <3>1 DEF Returns, IInv, TimersInOrder
    <3> QED BY <2>0, <2>1, <3>1, <3>2
  <2>3. now' = now
    BY DEF Returns
  <2> QED BY <2>0, <2>1, <2>2, <2>3 DEF TimersInOrder
<1>5. JobsOK'
  <2>1. call' \notin Calls
    BY DEF Returns, Calls
  <2> QED BY <1>1, <2>1 DEF Returns, IInv, JobsOK
<1>6. PointersOK' /\ ResultsOK'
  BY <1>1, KeepsEvents DEF Returns
<1>7. BusyIsAwaited'
  BY <1>1 DEF Returns, IInv, BusyIsAwaited, Waiting
<1> QED BY <1>3, <1>4, <1>5, <1>6, <1>7, ReturnsFacts DEF IInv

\* What only concerns the jobs and the operations of an open connection.
LEMMA OperationInv ==
  ASSUME Returns, NEW f \in Fds, active[f],
         jobs' \in Seq(Jobs), Distinct(jobs'), \A job \in Range(jobs') : job \in Range(jobs) \/ job[1] = f,
         NEW w \in SUBSET Dirs, wait' = [wait EXCEPT ![f] = w],
         busy' \subseteq Ops, count' \in [Ops -> 0 .. Limit],
         \A o \in busy' :
           /\ active[o[1]]
           /\ o[2] \in wait'[o[1]] \/ <<o[1], o[2], "operation">> \in Range(jobs'),
         UNCHANGED <<tvars, results, pos, pointer, gen, active>>
  PROVE  IInv'
<1>1. UNCHANGED <<timer, absTime, expired>>
  BY DEF tvars
<1>2. TypeOK'
  <2>1. wait' \in [Fds -> SUBSET Dirs]
    BY DEF Returns, IInv, TypeOK
  <2>2. call' \in {<<>>} \cup Calls \cup (Timers \X {"timer"}) /\ pos' \in 0 .. Len(results')
    BY DEF Returns, IInv, TypeOK
  <2> QED BY <1>1, <2>1, <2>2 DEF Returns, IInv, TypeOK
<1>3. TimersInOrder'
  BY <1>1 DEF Returns, IInv, TimersInOrder
<1>4. JobsOK'
  <2>1. \A job \in Range(jobs') : active'[job[1]]
    BY ReturnsFacts
  <2>2. \A g \in Fds : ~active'[g] => wait'[g] = {}
    BY DEF Returns, IInv, TypeOK, JobsOK
  <2>3. call' \notin Calls
    BY DEF Returns, Calls
  <2> QED BY <2>1, <2>2, <2>3 DEF JobsOK
<1>5. PointersOK' /\ ResultsOK'
  BY KeepsEvents DEF Returns
<1>6. BusyIsAwaited'
  BY DEF BusyIsAwaited
<1> QED BY <1>2, <1>3, <1>4, <1>5, <1>6, ReturnsFacts DEF IInv

\* What BPending_Set leaves in the list of jobs.
LEMMA PendingSet ==
  ASSUME Returns, NEW job \in Jobs, BPending_Set(job)
  PROVE  jobs' \in Seq(Jobs) /\ Distinct(jobs') /\ Range(jobs') = {job} \cup Range(jobs)
<1> DEFINE left == Unlink(jobs, job)
<1>1. left \in Seq(Jobs) /\ Distinct(left) /\ Range(left) = Range(jobs) \ {job}
  BY ReturnsFacts, Unlinked
<1>2. jobs' = <<job>> \o left
  BY DEF BPending_Set
<1> HIDE DEF left
<1>3. /\ <<job>> \o left \in Seq(Jobs) /\ Distinct(<<job>> \o left)
      /\ Range(<<job>> \o left) = {job} \cup Range(left)
  BY <1>1, Prepended
<1> QED BY <1>1, <1>2, <1>3

\* An attempt to send or to receive.
LEMMA AttemptInv ==
  ASSUME Returns, NEW f \in Fds, NEW d \in Dirs, active[f], connection_op(f, d), UNCHANGED tvars,
         \A o \in busy : o # <<f, d>> => Waiting(o)
  PROVE  IInv'
<1>1. /\ wait \in [Fds -> SUBSET Dirs] /\ busy \subseteq Ops /\ count \in [Ops -> 0 .. Limit]
      /\ <<f, d>> \in Ops /\ Limit \in Nat /\ \A o \in busy : active[o[1]]
  BY ReactorAssumption, Parts DEF Returns, IInv, TypeOK, BusyIsAwaited
<1>2. HasRoom(f, d) /\ BReactorLimit_Increment(f, d) => count' \in [Ops -> 0 .. Limit]
  BY <1>1 DEF HasRoom, BReactorLimit_Increment
<1>3. CASE /\ wait' = WaitFor(f, d) /\ count' \in [Ops -> 0 .. Limit]
           /\ UNCHANGED <<jobs, results, pos, pointer, gen, active, busy>>
  <2> DEFINE w == wait[f] \cup {d}
  <2>1. w \in SUBSET Dirs /\ wait' = [wait EXCEPT ![f] = w]
    BY <1>1, <1>3 DEF WaitFor
  <2> HIDE DEF w
  <2>2. ASSUME NEW o \in busy'
        PROVE  /\ active[o[1]]
               /\ o[2] \in wait'[o[1]] \/ <<o[1], o[2], "operation">> \in Range(jobs')
    <3>1. o \in busy /\ o[1] \in Fds /\ active[o[1]] /\ jobs' = jobs
      BY <1>1, <1>3, Parts
    <3>2. CASE o = <<f, d>>
      BY <1>1, <2>1, <3>1, <3>2 DEF w
    <3>3. CASE o # <<f, d>>
      <4>1. Waiting(o) /\ wait[o[1]] \subseteq wait'[o[1]]
        BY <1>1, <2>1, <3>1, <3>3 DEF w
      <4> QED BY <3>1, <4>1 DEF Waiting
    <3> QED BY <3>2, <3>3
  <2>3. busy' \subseteq Ops
    BY <1>1, <1>3
  <2> QED BY <1>3, <2>1, <2>2, <2>3, ReturnsFacts, OperationInv
<1>4. CASE /\ wait' = [wait EXCEPT ![f] = @ \ {d}] /\ count' \in [Ops -> 0 .. Limit]
           /\ busy' = busy \ {<<f, d>>} /\ BPending_Set(<<f, d, "done">>)
           /\ UNCHANGED <<results, pos, pointer, gen, active>>
  <2> DEFINE w == wait[f] \ {d}
             job == <<f, d, "done">>
  <2>1. w \in SUBSET Dirs /\ wait' = [wait EXCEPT ![f] = w]
    BY <1>1, <1>4
  <2>2. job \in Jobs /\ job[1] = f
    BY Parts
  <2>3. jobs' \in Seq(Jobs) /\ Distinct(jobs') /\ Range(jobs') = {job} \cup Range(jobs)
    BY <1>4, <2>2, PendingSet
  <2> HIDE DEF w, job
  <2>4. ASSUME NEW o \in busy'
        PROVE  /\ active[o[1]]
               /\ o[2] \in wait'[o[1]] \/ <<o[1], o[2], "operation">> \in Range(jobs')
    <3>1. o \in busy /\ o[1] \in Fds /\ active[o[1]] /\ o = <<o[1], o[2]>> /\ Waiting(o)
          /\ (o[1] = f => o[2] # d)
      BY <1>1, <1>4, Parts
    <3>2. o[2] \in wait[o[1]] => o[2] \in wait'[o[1]]
      BY <1>1, <2>1, <3>1 DEF w
    <3> QED BY <2>3, <3>1, <3>2 DEF Waiting
  <2>5. busy' \subseteq Ops
    BY <1>1, <1>4
  <2> QED BY <1>4, <2>1, <2>2, <2>3, <2>4, <2>5, OperationInv
<1>5. CASE BConnection_Free(f)
  <2>1. \A o \in busy : o[1] # f => Waiting(o)
    OBVIOUS
  <2> QED BY <1>5, <2>1, FreeInv
<1> QED BY <1>1, <1>2, <1>3, <1>4, <1>5 DEF connection_op

\* What is called, by its last part.
LEMMA CallParts ==
  ASSUME IInv, call # <<>>
  PROVE  /\ call[Len(call)] \in {"event", "operation", "done"} =>
              /\ call[1] \in Fds /\ call[2] \in Dirs /\ call \in Calls
              /\ call = <<call[1], call[2], call[Len(call)]>>
         /\ call[Len(call)] = "timer" =>
              call[1] \in Timers /\ \A a, b : call # <<a, b, "operation">>
<1>1. CASE call \in Calls
  <2>1. PICK a \in Fds, b \in Dirs, c \in {"event", "operation", "done"} : call = <<a, b, c>>
    BY <1>1 DEF Calls
  <2>2. Len(call) = 3 /\ call[1] = a /\ call[2] = b /\ call[3] = c
    BY <2>1
  <2> QED BY <1>1, <2>1, <2>2
<1>2. CASE call \in Timers \X {"timer"}
  <2>1. PICK a \in Timers : call = <<a, "timer">>
    BY <1>2
  <2>2. Len(call) = 2 /\ call[1] = a /\ call[2] = "timer"
    BY <2>1
  <2>3. \A x, y : Len(<<x, y, "operation">>) = 3
    OBVIOUS
  <2> QED BY <2>1, <2>2, <2>3
<1> QED BY <1>1, <1>2 DEF IInv, TypeOK

\* Operations do not depend on a call that is not one of them.
LEMMA OthersWait ==
  ASSUME IInv, NEW f, NEW d, NEW h, call = <<f, d, h>> \/ \A a, b : call # <<a, b, "operation">>
  PROVE  /\ \A o \in busy : o # <<f, d>> => Waiting(o)
         /\ h # "operation" => \A o \in busy : Waiting(o)
<1> SUFFICES ASSUME NEW o \in busy, o # <<f, d>> \/ h # "operation" PROVE Waiting(o)
  OBVIOUS
<1>1. o = <<o[1], o[2]>>
  BY Parts DEF IInv, TypeOK
<1>2. call # <<o[1], o[2], "operation">>
  BY <1>1
<1> QED BY <1>2 DEF IInv, BusyIsAwaited, Waiting

\* A handler that does something else.
LEMMA UserInv ==
  ASSUME Returns, UserStep, \A o \in busy : Waiting(o)
  PROVE  IInv'
<1>1. CASE UNCHANGED <<jobs, tvars, fvars>>
  <2>1. UNCHANGED <<jobs, timer, absTime, expired, results, pos, pointer, gen, active, wait, busy, count>>
    BY <1>1 DEF tvars, fvars
  <2>2. TypeOK'
    <3>1. call' \in {<<>>} \cup Calls \cup (Timers \X {"timer"}) /\ pos' \in 0 .. Len(results')
      BY <2>1 DEF Returns, IInv, TypeOK
    <3> QED BY <2>1, <3>1 DEF Returns, IInv, TypeOK
  <2>3. TimersInOrder'
    BY <2>1 DEF Returns, IInv, TimersInOrder
  <2>4. JobsOK'
    <3>1. call' \notin Calls
      BY DEF Returns, Calls
    <3> QED BY <2>1, <3>1 DEF Returns, IInv, JobsOK
  <2>5. PointersOK' /\ ResultsOK'
    BY <2>1, KeepsEvents DEF Returns
  <2>6. BusyIsAwaited'
    BY <2>1 DEF Returns, IInv, BusyIsAwaited, Waiting
  <2> QED BY <2>2, <2>3, <2>4, <2>5, <2>6, ReturnsFacts DEF IInv
<1>2. ASSUME NEW f \in Fds, BConnection_Free(f) \/ BConnection_Init(f), UNCHANGED tvars PROVE IInv'
  BY <1>2, FreeInv, OpenInv
<1>3. ASSUME NEW t \in Timers, BReactor_RemoveTimer(t), UNCHANGED <<jobs, fvars>> PROVE IInv'
  <2>1. absTime' = [absTime EXCEPT ![t] = absTime[t]] /\ absTime[t] \in 0 .. Horizon
    BY <1>3 DEF BReactor_RemoveTimer, Returns, IInv, TypeOK
  <2> QED BY <1>3, <2>1, TimerInv DEF BReactor_RemoveTimer
<1>4. ASSUME NEW t \in Timers, NEW d \in Delays, BReactor_SetTimer(t, d), UNCHANGED <<jobs, fvars>>
      PROVE  IInv'
  <2>1. now + d \in 0 .. Horizon
    BY <1>4, ReactorAssumption DEF BReactor_SetTimer, Returns, IInv, TypeOK
  <2> QED BY <1>4, <2>1, TimerInv DEF BReactor_SetTimer
<1> QED BY <1>1, <1>2, <1>3, <1>4 DEF UserStep

\* The handlers keep the invariant.
LEMMA HandlersInv ==
  ASSUME IInv, ~stale,
         connection_fd_handler \/ job_operation \/ job_done \/ timer_handler
  PROVE  IInv'
<1>1. Returns
  BY DEF Returns, connection_fd_handler, job_operation, job_done, timer_handler, Handling
<1>2. CASE connection_fd_handler \/ job_operation
  <2>1. PICK h \in {"event", "operation"} :
          /\ call # <<>> /\ call[Len(call)] = h /\ connection_op(call[1], call[2]) /\ UNCHANGED tvars
    BY <1>2 DEF connection_fd_handler, job_operation, Handling
  <2>2. call[1] \in Fds /\ call[2] \in Dirs /\ call \in Calls /\ call = <<call[1], call[2], h>>
    BY <2>1, CallParts
  <2>3. active[call[1]]
    BY <2>2 DEF IInv, JobsOK
  <2>4. \A o \in busy : o # <<call[1], call[2]>> => Waiting(o)
    BY <2>2, OthersWait
  <2> QED BY <1>1, <2>1, <2>2, <2>3, <2>4, AttemptInv
<1>3. CASE job_done
  <2>1. call # <<>> /\ call[Len(call)] = "done"
    BY <1>3 DEF job_done, Handling
  <2>2. call[1] \in Fds /\ call[2] \in Dirs /\ call \in Calls /\ call = <<call[1], call[2], "done">>
    BY <2>1, CallParts
  <2>3. \A o \in busy : Waiting(o)
    BY <2>2, OthersWait
  <2>4. CASE UserStep
    BY <1>1, <2>3, <2>4, UserInv
  <2> DEFINE f == call[1]
             d == call[2]
             job == <<f, d, "operation">>
             w == wait[f]
  <2>5. CASE /\ BPending_Set(job) /\ busy' = busy \cup {<<f, d>>}
             /\ UNCHANGED <<tvars, results, pos, pointer, gen, active, wait, count>>
    <3>1. job \in Jobs /\ job[1] = f /\ <<f, d>> \in Ops
      BY <2>2, Parts
    <3>2. jobs' \in Seq(Jobs) /\ Distinct(jobs') /\ Range(jobs') = {job} \cup Range(jobs)
      BY <1>1, <2>5, <3>1, PendingSet
    <3>3. w \in SUBSET Dirs /\ wait' = [wait EXCEPT ![f] = w] /\ busy' \subseteq Ops
          /\ count' \in [Ops -> 0 .. Limit] /\ active[f]
      BY <2>2, <2>5, <3>1 DEF IInv, TypeOK, JobsOK
    <3>4. ASSUME NEW o \in busy'
          PROVE  /\ active[o[1]]
                 /\ o[2] \in wait'[o[1]] \/ <<o[1], o[2], "operation">> \in Range(jobs')
      <4>1. CASE o \in busy
        BY <2>3, <2>5, <3>2, <4>1 DEF IInv, BusyIsAwaited, Waiting
      <4>2. CASE o = <<f, d>>
        BY <3>2, <3>3, <4>2
      <4> QED BY <2>5, <4>1, <4>2
    <3>5. f \in Fds
      BY <2>2
    <3>6. \A j \in Range(jobs') : j \in Range(jobs) \/ j[1] = f
      BY <3>1, <3>2
    <3> HIDE DEF f, d, job, w
    <3> QED BY <1>1, <2>5, <3>2, <3>3, <3>4, <3>5, <3>6, OperationInv
  <2> QED BY <1>3, <2>4, <2>5 DEF job_done
<1>4. CASE timer_handler
  <2>1. call # <<>> /\ call[Len(call)] = "timer"
    BY <1>4 DEF timer_handler, Handling
  <2>2. call[1] \in Timers /\ \A a, b : call # <<a, b, "operation">>
    BY <2>1, CallParts
  <2>3. \A o \in busy : Waiting(o)
    <3>1. "timer" # "operation"
      OBVIOUS
    <3> QED BY <2>2, <3>1, OthersWait
  <2> QED BY <1>1, <1>4, <2>3, UserInv DEF timer_handler
<1> QED BY <1>2, <1>3, <1>4

-----------------------------------------------------------------------------
(* The steps of the loop *)

\* What SetToSeqs gives of a finite set: sequences without repetition.
LEMMA Sequenced ==
  ASSUME NEW S, IsFiniteSet(S), NEW s \in SetToSeqs(S)
  PROVE  /\ s \in Seq(S) /\ Distinct(s)
         /\ Len(s) = Cardinality(S) /\ DOMAIN s = 1 .. Cardinality(S) /\ Cardinality(S) \in Nat
<1>1. Cardinality(S) \in Nat
  BY FS_CardinalityType
<1>2. /\ s \in [1 .. Cardinality(S) -> S]
      /\ \A i, j \in 1 .. Cardinality(S) : i # j => s[i] # s[j]
  BY DEF SetToSeqs
<1> QED BY <1>1, <1>2 DEF Distinct

\* Timers that are due become expired ones in their order.
LEMMA MovedInv ==
  ASSUME IInv, expired = <<>>, NEW S \in SUBSET Timers, \A t \in S : absTime[t] <= now,
         MoveExpired(S), now' = now
  PROVE  /\ TimersInOrder' /\ expired' \in Seq(Timers) /\ absTime' = absTime
         /\ timer' \in [Timers -> {"inactive", "running", "expired"}]
<1>1. PICK s \in InOrder(S) : expired' = expired \o s
  BY DEF MoveExpired
<1>2. timer' = [t \in Timers |-> IF t \in S THEN "expired" ELSE timer[t]] /\ absTime' = absTime
  BY DEF MoveExpired
<1>3. IsFiniteSet(S)
  BY ReactorAssumption, FS_Subset
<1>4. s \in SetToSeqs(S) /\ \A i, j \in DOMAIN s : i < j => absTime[s[i]] <= absTime[s[j]]
  BY DEF InOrder
<1>5. s \in Seq(S) /\ Distinct(s) /\ DOMAIN s = 1 .. Cardinality(S) /\ Cardinality(S) \in Nat
  BY <1>3, <1>4, Sequenced
<1>6. expired' = s
  BY <1>1, <1>5
<1>7. \A i \in DOMAIN s : s[i] \in S /\ s[i] \in Timers
  BY <1>5
<1>8. \A i, j \in DOMAIN s : i < j => s[i] # s[j]
  <2> SUFFICES ASSUME NEW i \in DOMAIN s, NEW j \in DOMAIN s, i < j PROVE s[i] # s[j]
    OBVIOUS
  <2>1. i # j
    BY <1>5
  <2> QED BY <1>5, <2>1 DEF Distinct
<1>9. TimersInOrder'
  <2>1. \A i \in DOMAIN s : timer'[s[i]] = "expired" /\ absTime[s[i]] <= now
    BY <1>2, <1>7
  <2> QED BY <1>2, <1>4, <1>6, <1>8, <2>1 DEF TimersInOrder
<1>10. expired' \in Seq(Timers)
  BY <1>5, <1>6, <1>7
<1> QED BY <1>2, <1>9, <1>10 DEF IInv, TypeOK

\* The first job is taken: its connection is open.
LEMMA DispatchJobInv ==
  ASSUME IInv, ~stale, dispatch_job
  PROVE  IInv'
<1>1. /\ loop = "run" /\ call = <<>> /\ jobs # <<>> /\ call' = Head(jobs) /\ jobs' = Tail(jobs)
      /\ UNCHANGED <<loop, twice, now, timer, absTime, expired, results, pos, pointer, gen, active,
                     wait, busy, count>>
      /\ stale' = (stale \/ ~active[Head(jobs)[1]])
  BY DEF dispatch_job, Ready, tvars, fvars
<1>2. /\ Head(jobs) \in Jobs /\ Head(jobs) \in Range(jobs) /\ Tail(jobs) \in Seq(Jobs)
      /\ Distinct(Tail(jobs)) /\ Range(jobs) = {Head(jobs)} \cup Range(Tail(jobs))
  BY <1>1, First DEF IInv, TypeOK, JobsOK
<1>3. active[Head(jobs)[1]] /\ stale' = FALSE /\ stale = FALSE
  BY <1>1, <1>2 DEF IInv, TypeOK, JobsOK
<1>4. Head(jobs) \in Calls
  BY <1>2 DEF Jobs, Calls
<1>5. TypeOK'
  <2>1. pos' \in 0 .. Len(results')
    BY <1>1 DEF IInv, TypeOK
  <2> QED BY <1>1, <1>2, <1>3, <1>4, <2>1 DEF IInv, TypeOK
<1>6. BlockedOK' /\ TimersInOrder' /\ NoStaleDispatch'
  BY <1>1, <1>3 DEF IInv, BlockedOK, TimersInOrder, NoStaleDispatch
<1>7. JobsOK'
  <2>1. \A job \in Range(jobs') : active[job[1]]
    BY <1>1, <1>2 DEF IInv, JobsOK
  <2> QED BY <1>1, <1>2, <1>3, <2>1 DEF IInv, JobsOK
<1>8. PointersOK' /\ ResultsOK'
  BY <1>1, <1>3, KeepsEvents
<1>9. BusyIsAwaited'
  <2>1. \A o \in busy : <<o[1], o[2], "operation">> # <<>>
    OBVIOUS
  <2> QED BY <1>1, <1>2, <2>1 DEF IInv, BusyIsAwaited
<1> QED BY <1>5, <1>6, <1>7, <1>8, <1>9 DEF IInv

\* The first expired timer is taken.
LEMMA DispatchTimerInv ==
  ASSUME IInv, ~stale, dispatch_timer
  PROVE  IInv'
<1>1. /\ loop = "run" /\ call = <<>> /\ expired # <<>> /\ call' = <<Head(expired), "timer">>
      /\ expired' = Tail(expired) /\ timer' = [timer EXCEPT ![Head(expired)] = "inactive"]
      /\ UNCHANGED <<loop, twice, now, jobs, absTime, results, pos, pointer, gen, active, wait, busy,
                     count, stale>>
  BY DEF dispatch_timer, Ready, fvars
<1>2. /\ Head(expired) \in Timers /\ Tail(expired) \in Seq(Timers)
      /\ Head(expired) \notin Range(Tail(expired))
      /\ \A i \in DOMAIN Tail(expired) : i + 1 \in DOMAIN expired /\ Tail(expired)[i] = expired[i + 1]
  BY <1>1, First, ExpiredDistinct DEF IInv, TypeOK
<1>3. TypeOK'
  <2>1. call' \in {<<>>} \cup Calls \cup (Timers \X {"timer"}) /\ pos' \in 0 .. Len(results')
    BY <1>1, <1>2 DEF IInv, TypeOK
  <2>2. timer' \in [Timers -> {"inactive", "running", "expired"}]
    BY <1>1 DEF IInv, TypeOK
  <2> QED BY <1>1, <1>2, <2>1, <2>2 DEF IInv, TypeOK
<1>4. BlockedOK' /\ NoStaleDispatch'
  BY <1>1 DEF IInv, BlockedOK, NoStaleDispatch
<1>5. TimersInOrder'
  <2>1. ASSUME NEW i \in DOMAIN expired'
        PROVE  /\ i \in Nat /\ i + 1 \in DOMAIN expired /\ expired'[i] = expired[i + 1]
               /\ timer'[expired'[i]] = "expired" /\ absTime[expired'[i]] <= now
    <3>1. i \in Nat /\ i + 1 \in DOMAIN expired /\ expired'[i] = expired[i + 1]
          /\ expired'[i] # Head(expired)
      BY <1>1, <1>2 DEF Range
    <3>2. expired[i + 1] \in Timers /\ timer[expired[i + 1]] = "expired"
          /\ absTime[expired[i + 1]] <= now
      BY <3>1 DEF IInv, TypeOK, TimersInOrder
    <3> QED BY <1>1, <3>1, <3>2 DEF IInv, TypeOK
  <2>2. ASSUME NEW i \in DOMAIN expired', NEW j \in DOMAIN expired', i < j
        PROVE  expired'[i] # expired'[j] /\ absTime[expired'[i]] <= absTime[expired'[j]]
    <3>1. i + 1 < j + 1
      BY <2>1, <2>2
    <3> QED BY <2>1, <3>1 DEF IInv, TimersInOrder
  <2> QED BY <1>1, <2>1, <2>2 DEF TimersInOrder
<1>6. JobsOK'
  <2>1. call' \notin Calls
    <3>1. Len(call') = 2
      BY <1>1
    <3>2. \A c \in Calls : Len(c) = 3
      BY DEF Calls
    <3> QED BY <3>1, <3>2
  <2> QED BY <1>1, <2>1 DEF IInv, JobsOK
<1>7. PointersOK' /\ ResultsOK'
  BY <1>1, KeepsEvents
<1>8. BusyIsAwaited'
  <2>1. \A o \in busy : <<o[1], o[2], "operation">> # <<>>
    OBVIOUS
  <2> QED BY <1>1, <2>1 DEF IInv, BusyIsAwaited
<1> QED BY <1>3, <1>4, <1>5, <1>6, <1>7, <1>8 DEF IInv

\* The next entry of the results: if each descriptor came back once, its
\* connection is still the one it was returned for.
LEMMA DispatchEventInv ==
  ASSUME IInv, ~stale, dispatch_kevent
  PROVE  IInv'
<1> DEFINE e == results[pos + 1]
<1>1. /\ loop = "run" /\ call = <<>> /\ pos < Len(results) /\ pos' = pos + 1
      /\ IF e = <<>> THEN UNCHANGED <<call, pointer, stale>>
         ELSE /\ pointer' = [pointer EXCEPT ![e[1]] = 0]
              /\ stale' = (stale \/ Gone(e[1], e[3]))
              /\ call' = IF e[2] \in wait[e[1]] THEN <<e[1], e[2], "event">> ELSE <<>>
      /\ UNCHANGED <<loop, twice, now, jobs, timer, absTime, expired, results, gen, active, wait, busy,
                     count>>
  BY DEF dispatch_kevent, Idle, Ready, tvars
<1>2. /\ pos \in Nat /\ Len(results) \in Nat /\ pos + 1 \in 1 .. Len(results)
      /\ pos + 1 \in pos + 1 .. Len(results) /\ e \in {<<>>} \cup Entries
  BY <1>1 DEF IInv, TypeOK
<1> HIDE DEF e
<1>3. e # <<>> => e[1] \in Fds /\ e[2] \in Dirs
  BY <1>2 DEF Entries
<1>4. e # <<>> /\ ~twice => ~Gone(e[1], e[3]) /\ pointer[e[1]] = pos + 1
  BY <1>2 DEF e, IInv, ResultsOK
<1>5. e # <<>> => (stale' <=> Gone(e[1], e[3])) /\ stale' \in BOOLEAN
  BY <1>1, Zenon DEF Gone
<1>6. stale' \in BOOLEAN /\ (stale' => e # <<>> /\ Gone(e[1], e[3]))
  BY <1>1, <1>5 DEF IInv, TypeOK
<1>7. TypeOK'
  <2>1. pos' \in 0 .. Len(results')
    BY <1>1, <1>2
  <2>2. pointer' \in [Fds -> Nat]
    <3>1. pointer \in [Fds -> Nat]
      BY DEF IInv, TypeOK
    <3>2. pointer' = pointer \/ pointer' = [pointer EXCEPT ![e[1]] = 0]
      BY <1>1
    <3>3. [pointer EXCEPT ![e[1]] = 0] \in [Fds -> Nat]
      BY <3>1
    <3> QED BY <3>1, <3>2, <3>3
  <2>3. call' \in {<<>>} \cup Calls
    <3>1. e # <<>> => <<e[1], e[2], "event">> \in Calls
      BY <1>3 DEF Calls
    <3> QED BY <1>1, <3>1
  <2> QED BY <1>1, <1>6, <2>1, <2>2, <2>3 DEF IInv, TypeOK
<1>8. BlockedOK' /\ TimersInOrder'
  BY <1>1 DEF IInv, BlockedOK, TimersInOrder
<1>9. NoStaleDispatch'
  BY <1>1, <1>4, <1>6 DEF NoStaleDispatch
<1>10. JobsOK'
  <2>1. call' \in Calls /\ ~stale' => active[call'[1]]
    <3>1. <<>> \notin Calls
      BY DEF Calls
    <3>2. call' \in Calls => e # <<>> /\ call'[1] = e[1]
      BY <1>1, <3>1
    <3> QED BY <1>5, <3>2 DEF Gone
  <2> QED BY <1>1, <2>1 DEF IInv, JobsOK
<1>11. PointersOK'
  <2> SUFFICES ASSUME NEW f \in Fds, active[f], pointer'[f] # 0
               PROVE  /\ pointer'[f] \in pos' + 1 .. Len(results)
                      /\ results[pointer'[f]] # <<>> /\ results[pointer'[f]][1] = f
    BY <1>1 DEF PointersOK
  <2>1. pointer'[f] = pointer[f] /\ (e # <<>> => e[1] # f)
    BY <1>1 DEF IInv, TypeOK
  <2>2. /\ pointer[f] \in pos + 1 .. Len(results)
        /\ results[pointer[f]] # <<>> /\ results[pointer[f]][1] = f
    BY <2>1 DEF IInv, PointersOK
  <2>3. pointer[f] # pos + 1
    BY <2>1, <2>2 DEF e
  <2>4. pointer[f] \in pos' + 1 .. Len(results)
    BY <1>1, <1>2, <2>2, <2>3
  <2> QED BY <2>1, <2>2, <2>4
<1>12. ResultsOK'
  <2> SUFFICES ASSUME ~twice, NEW i \in pos' + 1 .. Len(results), results[i] # <<>>
               PROVE  ~Gone(results[i][1], results[i][3]) /\ pointer'[results[i][1]] = i
    BY <1>1 DEF ResultsOK, Gone
  <2>1. i \in pos + 1 .. Len(results) /\ i # pos + 1 /\ i \in 1 .. Len(results)
    BY <1>1, <1>2
  <2>2. ~Gone(results[i][1], results[i][3]) /\ pointer[results[i][1]] = i
    BY <2>1 DEF IInv, ResultsOK
  <2>3. results[i] \in Entries
    BY <2>1 DEF IInv, TypeOK
  <2>4. results[i][1] \in Fds
    BY <2>3 DEF Entries
  <2>5. e # <<>> => e[1] # results[i][1]
    BY <1>4, <2>1, <2>2
  <2> QED BY <1>1, <2>2, <2>4, <2>5 DEF IInv, TypeOK
<1>13. BusyIsAwaited'
  <2>1. \A o \in busy : <<o[1], o[2], "operation">> # <<>>
    OBVIOUS
  <2> QED BY <1>1, <2>1 DEF IInv, BusyIsAwaited
<1> QED BY <1>7, <1>8, <1>9, <1>10, <1>11, <1>12, <1>13 DEF IInv

\* With nothing left in the results no open connection points into them.
LEMMA NoPointers ==
  ASSUME IInv, pos = Len(results) \/ results = <<>>
  PROVE  \A f \in Fds : active[f] => pointer[f] = 0
<1> SUFFICES ASSUME NEW f \in Fds, active[f], pointer[f] # 0 PROVE FALSE
  OBVIOUS
<1>1. pointer[f] \in pos + 1 .. Len(results) /\ pos \in 0 .. Len(results)
  BY DEF IInv, TypeOK, PointersOK
<1>2. Len(results) \in Nat /\ (results = <<>> => Len(results) = 0)
  BY DEF IInv, TypeOK
<1> QED BY <1>1, <1>2

\* Timers that are due are all wait_for_events returns, or it goes on to block.
LEMMA WaitForEventsInv ==
  ASSUME IInv, ~stale, move_expired_timers \/ kevent
  PROVE  IInv'
<1>1. /\ loop = "run" /\ call = <<>> /\ jobs = <<>> /\ expired = <<>> /\ pos = Len(results)
      /\ results' = <<>> /\ pos' = 0 /\ twice' = FALSE
      /\ UNCHANGED <<call, now, jobs, pointer, gen, active, wait, busy, count, stale>>
  BY DEF move_expired_timers, kevent, Idle, Ready
<1>2. results' \in Seq({<<>>} \cup Entries) /\ Len(results') = 0 /\ pos' \in 0 .. Len(results')
  BY <1>1
<1>3. /\ TimersInOrder' /\ expired' \in Seq(Timers) /\ absTime' \in [Timers -> 0 .. Horizon]
      /\ timer' \in [Timers -> {"inactive", "running", "expired"}]
  <2>1. CASE move_expired_timers
    <3> DEFINE S == {t \in Timers : Due(t)}
    <3>1. S \in SUBSET Timers /\ MoveExpired(S) /\ \A t \in S : absTime[t] <= now
      BY <2>1 DEF move_expired_timers, Due
    <3> HIDE DEF S
    <3> QED BY <1>1, <3>1, MovedInv DEF IInv, TypeOK
  <2>2. CASE kevent
    <3>1. UNCHANGED <<timer, absTime, expired>>
      BY <2>2 DEF kevent, tvars
    <3> QED BY <1>1, <3>1 DEF IInv, TypeOK, TimersInOrder
  <2> QED BY <2>1, <2>2
<1>4. loop' \in {"run", "blocked"} /\ (loop' = "blocked" => expired' = <<>>)
  BY <1>1 DEF move_expired_timers, kevent, tvars
<1>5. TypeOK'
  BY <1>1, <1>2, <1>3, <1>4 DEF IInv, TypeOK
<1>6. BlockedOK' /\ NoStaleDispatch'
  BY <1>1, <1>4 DEF BlockedOK, NoStaleDispatch
<1>7. JobsOK' /\ BusyIsAwaited'
  BY <1>1 DEF IInv, JobsOK, BusyIsAwaited
<1>8. PointersOK' /\ ResultsOK'
  <2>1. PointersOK'
    BY <1>1, NoPointers DEF PointersOK
  <2>2. pos' + 1 .. Len(results') = {}
    BY <1>1, <1>2
  <2> QED BY <2>1, <2>2 DEF ResultsOK
<1> QED BY <1>3, <1>5, <1>6, <1>7, <1>8 DEF IInv

\* The time the loop waited for has come.
LEMMA TimeoutInv ==
  ASSUME IInv, ~stale, kevent_timeout
  PROVE  IInv'
<1>1. /\ loop = "blocked" /\ loop' = "run" /\ FirstTime <= now /\ MoveFirst
      /\ count' = [o \in Ops |-> 0]
      /\ UNCHANGED <<call, twice, now, jobs, results, pos, pointer, gen, active, wait, busy, stale>>
  BY DEF kevent_timeout, ResetLimits
<1>2. call = <<>> /\ jobs = <<>> /\ expired = <<>> /\ results = <<>>
  BY <1>1 DEF IInv, BlockedOK
<1>3. /\ TimersInOrder' /\ expired' \in Seq(Timers) /\ absTime' \in [Timers -> 0 .. Horizon]
      /\ timer' \in [Timers -> {"inactive", "running", "expired"}]
  <2> DEFINE S == {t \in Running : absTime[t] = FirstTime}
  <2>1. S \in SUBSET Timers /\ MoveExpired(S) /\ \A t \in S : absTime[t] <= now
    BY <1>1 DEF MoveFirst, Running
  <2> HIDE DEF S
  <2> QED BY <1>1, <1>2, <2>1, MovedInv DEF IInv, TypeOK
<1>4. TypeOK'
  <2>1. count' \in [Ops -> 0 .. Limit]
    BY <1>1, ReactorAssumption
  <2>2. pos' \in 0 .. Len(results')
    BY <1>1 DEF IInv, TypeOK
  <2> QED BY <1>1, <1>3, <2>1, <2>2 DEF IInv, TypeOK
<1>5. BlockedOK' /\ NoStaleDispatch' /\ JobsOK' /\ BusyIsAwaited'
  BY <1>1 DEF IInv, BlockedOK, NoStaleDispatch, JobsOK, BusyIsAwaited
<1>6. PointersOK' /\ ResultsOK'
  BY <1>1, KeepsEvents
<1> QED BY <1>3, <1>4, <1>5, <1>6 DEF IInv

\* The last of one or two places.
LEMMA LastPlace ==
  ASSUME NEW I \in SUBSET Nat, NEW i \in I, NEW j \in I, \A k \in I : k = i \/ k = j
  PROVE  Max(I) \in I
<1>1. \E x \in I : \A y \in I : x >= y
  <2>1. CASE i >= j
    BY <2>1
  <2>2. CASE ~(i >= j)
    <3>1. j >= i
      BY <2>2
    <3> QED BY <3>1
  <2> QED BY <2>1, <2>2
<1> QED BY <1>1 DEF Max

\* Events are returned for open connections; a pointer is set to the last entry
\* of each, which is the only one unless the descriptor came back twice.
LEMMA EventsInv ==
  ASSUME IInv, ~stale, kevent_events
  PROVE  IInv'
<1>1. /\ loop = "blocked" /\ loop' = "run" /\ count' = [o \in Ops |-> 0]
      /\ UNCHANGED <<call, now, jobs, timer, absTime, expired, pos, gen, active, wait, busy, stale>>
  BY DEF kevent_events, ResetLimits, tvars
<1>2. PICK E \in (SUBSET {o \in Ops : o[2] \in wait[o[1]]}) \ {{}} : \E s \in SetToSeqs(E) :
       /\ results' = [i \in 1 .. Len(s) |-> <<s[i][1], s[i][2], gen[s[i][1]]>>]
       /\ pointer' = [f \in Fds |-> LET I == {i \in DOMAIN s : s[i][1] = f}
                                    IN  IF I = {} THEN pointer[f] ELSE Max(I)]
       /\ twice' = \E f \in Fds : {f} \X Dirs \subseteq E
  BY DEF kevent_events
<1>3. PICK s \in SetToSeqs(E) :
       /\ results' = [i \in 1 .. Len(s) |-> <<s[i][1], s[i][2], gen[s[i][1]]>>]
       /\ pointer' = [f \in Fds |-> LET I == {i \in DOMAIN s : s[i][1] = f}
                                    IN  IF I = {} THEN pointer[f] ELSE Max(I)]
       /\ twice' = \E f \in Fds : {f} \X Dirs \subseteq E
  BY <1>2
<1> DEFINE At(f) == {i \in DOMAIN s : s[i][1] = f}
<1>4. call = <<>> /\ jobs = <<>> /\ expired = <<>> /\ results = <<>> /\ pos = 0
  <2>1. call = <<>> /\ jobs = <<>> /\ expired = <<>> /\ results = <<>>
    BY <1>1 DEF IInv, BlockedOK
  <2>2. Len(results) = 0 /\ pos \in 0 .. Len(results)
    BY <2>1 DEF IInv, TypeOK
  <2> QED BY <2>1, <2>2
<1>5. IsFiniteSet(E)
  <2>1. IsFiniteSet(Dirs)
    <3>1. IsFiniteSet({"read"})
      BY FS_Singleton
    <3>2. IsFiniteSet({"read"} \cup {"write"})
      BY <3>1, FS_AddElement
    <3>3. Dirs = {"read"} \cup {"write"}
      BY DEF Dirs
    <3> QED BY <3>2, <3>3
  <2>2. IsFiniteSet(Ops)
    BY <2>1, ReactorAssumption, FS_Product DEF Ops
  <2> QED BY <1>2, <2>2, FS_Subset
<1>6. /\ s \in Seq(E) /\ Distinct(s) /\ DOMAIN s = 1 .. Len(s) /\ Len(s) \in Nat
  BY <1>5, Sequenced
<1>7. \A i \in DOMAIN s : /\ s[i] \in E /\ s[i] = <<s[i][1], s[i][2]>> /\ s[i][1] \in Fds
                          /\ s[i][2] \in Dirs /\ active[s[i][1]]
  <2> SUFFICES ASSUME NEW i \in DOMAIN s
               PROVE  /\ s[i] \in E /\ s[i] = <<s[i][1], s[i][2]>> /\ s[i][1] \in Fds
                      /\ s[i][2] \in Dirs /\ active[s[i][1]]
    OBVIOUS
  <2>1. s[i] \in E /\ s[i] \in Ops /\ s[i][2] \in wait[s[i][1]]
    BY <1>2, <1>6
  <2> QED BY <2>1, Parts DEF IInv, JobsOK
<1>8. /\ DOMAIN results' = 1 .. Len(s) /\ Len(results') = Len(s)
      /\ results' \in Seq({<<>>} \cup Entries)
      /\ \A i \in DOMAIN s : results'[i] = <<s[i][1], s[i][2], gen[s[i][1]]>>
  <2>1. \A i \in 1 .. Len(s) : <<s[i][1], s[i][2], gen[s[i][1]]>> \in Entries
    BY <1>6, <1>7 DEF Entries, IInv, TypeOK
  <2> QED BY <1>3, <1>6, <2>1
<1>9. \A f \in Fds : At(f) \in SUBSET Nat /\ (At(f) # {} => pointer'[f] \in At(f))
  <2> SUFFICES ASSUME NEW f \in Fds, At(f) # {} PROVE pointer'[f] \in At(f)
    BY <1>6
  <2>1. At(f) \in SUBSET Nat
    BY <1>6
  <2>2. PICK i \in At(f) : TRUE
    OBVIOUS
  <2>3. PICK j \in At(f) : (\A k \in At(f) : k = i) \/ j # i
    BY <2>2
  <2>4. \A k \in At(f) : k = i \/ k = j
    <3> SUFFICES ASSUME NEW k \in At(f), k # i PROVE k = j
      OBVIOUS
    <3>1. /\ s[i] \in {<<f, "read">>, <<f, "write">>} /\ s[j] \in {<<f, "read">>, <<f, "write">>}
          /\ s[k] \in {<<f, "read">>, <<f, "write">>}
      BY <1>7 DEF Dirs
    <3>2. s[i] # s[j] /\ s[i] # s[k] /\ (k # j => s[k] # s[j])
      BY <1>6, <2>3 DEF Distinct
    <3> QED BY <3>1, <3>2
  <2>5. pointer'[f] = Max(At(f))
    BY <1>3
  <2> HIDE DEF At
  <2> QED BY <2>1, <2>4, <2>5, LastPlace
<1>10. \A f \in Fds : At(f) = {} => pointer'[f] = pointer[f]
  BY <1>3
<1>11. twice' \in BOOLEAN /\ (~twice' => \A f \in Fds : \A i, j \in At(f) : i = j)
  <2>1. twice' \in BOOLEAN
    BY <1>3, Zenon
  <2> SUFFICES ASSUME ~twice', NEW f \in Fds, NEW i \in At(f), NEW j \in At(f), i # j PROVE FALSE
    BY <2>1
  <2>2. s[i] # s[j]
    BY <1>6 DEF Distinct
  <2>3. /\ s[i] = <<f, s[i][2]>> /\ s[j] = <<f, s[j][2]>> /\ s[i] \in E /\ s[j] \in E
        /\ s[i][2] \in {"read", "write"} /\ s[j][2] \in {"read", "write"}
    BY <1>7 DEF Dirs
  <2>4. <<f, "read">> \in E /\ <<f, "write">> \in E
    BY <2>2, <2>3
  <2>5. {f} \X Dirs \subseteq E
    BY <2>4 DEF Dirs
  <2> QED BY <1>3, <2>5
<1>12. TypeOK'
  <2>1. pointer' \in [Fds -> Nat]
    <3>1. \A f \in Fds : pointer'[f] \in Nat
      BY <1>9, <1>10 DEF IInv, TypeOK
    <3> HIDE DEF At
    <3> QED BY <1>3, <3>1
  <2>2. count' \in [Ops -> 0 .. Limit]
    BY <1>1, ReactorAssumption
  <2>3. pos' \in 0 .. Len(results')
    BY <1>1, <1>4, <1>6, <1>8
  <2> QED BY <1>1, <1>8, <1>11, <2>1, <2>2, <2>3 DEF IInv, TypeOK
<1>13. BlockedOK' /\ TimersInOrder' /\ NoStaleDispatch' /\ JobsOK' /\ BusyIsAwaited'
  BY <1>1 DEF IInv, TypeOK, BlockedOK, TimersInOrder, NoStaleDispatch, JobsOK, BusyIsAwaited
<1>14. PointersOK'
  <2> SUFFICES ASSUME NEW f \in Fds, active[f], pointer'[f] # 0
               PROVE  /\ pointer'[f] \in 1 .. Len(s)
                      /\ results'[pointer'[f]] # <<>> /\ results'[pointer'[f]][1] = f
    BY <1>1, <1>4, <1>8 DEF PointersOK
  <2>1. pointer'[f] \in At(f)
    BY <1>4, <1>9, <1>10, NoPointers
  <2>2. pointer'[f] \in DOMAIN s /\ s[pointer'[f]][1] = f
    BY <2>1
  <2>3. results'[pointer'[f]] = <<s[pointer'[f]][1], s[pointer'[f]][2], gen[s[pointer'[f]][1]]>>
    BY <1>8, <2>2
  <2> QED BY <1>6, <2>2, <2>3
<1>15. ResultsOK'
  <2> SUFFICES ASSUME ~twice', NEW i \in 1 .. Len(s)
               PROVE  ~Gone(results'[i][1], results'[i][3]) /\ pointer'[results'[i][1]] = i
    BY <1>1, <1>4, <1>8 DEF ResultsOK, Gone
  <2>1. i \in DOMAIN s /\ i \in At(s[i][1]) /\ s[i][1] \in Fds
    BY <1>6, <1>7
  <2>2. results'[i][1] = s[i][1] /\ results'[i][3] = gen[s[i][1]]
    BY <1>8, <2>1
  <2>3. pointer'[s[i][1]] = i
    BY <1>9, <1>11, <2>1
  <2> QED BY <1>7, <2>1, <2>2, <2>3 DEF Gone
<1> QED BY <1>12, <1>13, <1>14, <1>15 DEF IInv

-----------------------------------------------------------------------------
(* The theorems *)

\* Nothing is set up yet but the timers.
LEMMA InitInv == Init => IInv
<1> SUFFICES ASSUME Init PROVE IInv
  OBVIOUS
<1>1. TypeOK
  <2>1. absTime \in [Timers -> 0 .. Horizon]
    <3>1. ASSUME NEW d \in Delays, d <= Horizon PROVE d \in 0 .. Horizon
      <4>1. d \in Nat /\ Horizon \in Nat
        BY ReactorAssumption
      <4> QED BY <3>1, <4>1
    <3>2. absTime \in [Timers -> {d \in Delays : d <= Horizon}]
      BY DEF Init
    <3> QED BY <3>1, <3>2
  <2>2. pos \in 0 .. Len(results) /\ now \in 0 .. Horizon /\ count \in [Ops -> 0 .. Limit]
    BY ReactorAssumption DEF Init
  <2>3. call \in {<<>>} \cup Calls \cup (Timers \X {"timer"}) /\ loop \in {"run", "blocked"}
    BY DEF Init
  <2>4. jobs \in Seq(Jobs) /\ expired \in Seq(Timers) /\ results \in Seq({<<>>} \cup Entries)
    BY EmptySeq DEF Init
  <2>5. pointer \in [Fds -> Nat] /\ gen \in [Fds -> Nat]
    BY DEF Init
  <2>6. timer \in [Timers -> {"inactive", "running", "expired"}]
    BY DEF Init
  <2>7. active \in [Fds -> BOOLEAN] /\ twice \in BOOLEAN /\ stale \in BOOLEAN
    BY Zenon DEF Init
  <2>8. wait \in [Fds -> SUBSET Dirs] /\ busy \subseteq Ops
    BY DEF Init
  <2> QED BY <2>1, <2>2, <2>3, <2>4, <2>5, <2>6, <2>7, <2>8 DEF TypeOK
<1>2. BlockedOK /\ TimersInOrder /\ PointersOK /\ BusyIsAwaited /\ NoStaleDispatch
  BY DEF Init, BlockedOK, TimersInOrder, PointersOK, BusyIsAwaited, NoStaleDispatch
<1>3. JobsOK
  <2>1. call \notin Calls
    BY DEF Init, Calls
  <2> QED BY <2>1 DEF Init, JobsOK, Distinct, Range
<1>4. ResultsOK
  BY DEF Init, ResultsOK
<1> QED BY <1>1, <1>2, <1>3, <1>4 DEF IInv

\* Every step keeps the invariant.
LEMMA StepInv == IInv /\ [Next]_vars => IInv'
<1> SUFFICES ASSUME IInv, [Next]_vars PROVE IInv'
  OBVIOUS
<1>1. CASE ~stale /\ LoopStep
  BY <1>1, HandlersInv, DispatchJobInv, DispatchTimerInv, DispatchEventInv, WaitForEventsInv
     DEF LoopStep
<1>2. CASE ~stale /\ (kevent_timeout \/ kevent_events)
  BY <1>2, TimeoutInv, EventsInv
<1>3. CASE tick \/ UNCHANGED vars
  <2>1. UNCHANGED <<loop, call, twice, jobs, timer, absTime, expired, results, pos, pointer, gen, active,
                    wait, busy, count, stale>>
    BY <1>3 DEF tick, vars, tvars, fvars
  <2>2. now' \in 0 .. Horizon /\ now <= now' /\ now \in Nat
    <3>1. now \in 0 .. Horizon /\ now \in Nat /\ Horizon \in Nat
      BY ReactorAssumption DEF IInv, TypeOK
    <3>2. CASE tick
      BY <3>1, <3>2 DEF tick
    <3>3. CASE UNCHANGED vars
      BY <3>1, <3>3 DEF vars
    <3> QED BY <1>3, <3>2, <3>3
  <2>3. TypeOK'
    <3>1. pos' \in 0 .. Len(results')
      BY <2>1 DEF IInv, TypeOK
    <3> QED BY <2>1, <2>2, <3>1 DEF IInv, TypeOK
  <2>4. TimersInOrder'
    <3>1. \A i \in DOMAIN expired : timer[expired[i]] = "expired" /\ absTime[expired[i]] <= now'
      <4> SUFFICES ASSUME NEW i \in DOMAIN expired
                   PROVE  timer[expired[i]] = "expired" /\ absTime[expired[i]] <= now'
        OBVIOUS
      <4>1. expired[i] \in Timers
        BY DEF IInv, TypeOK
      <4>2. absTime[expired[i]] \in Nat
        BY <4>1 DEF IInv, TypeOK
      <4>3. timer[expired[i]] = "expired" /\ absTime[expired[i]] <= now
        BY DEF IInv, TimersInOrder
      <4> QED BY <2>2, <4>2, <4>3
    <3> QED BY <2>1, <3>1 DEF IInv, TimersInOrder
  <2>5. BlockedOK' /\ JobsOK' /\ BusyIsAwaited' /\ NoStaleDispatch'
    BY <2>1 DEF IInv, BlockedOK, JobsOK, BusyIsAwaited, NoStaleDispatch
  <2>6. PointersOK' /\ (~stale' => ResultsOK')
    BY <2>1 DEF IInv, PointersOK, ResultsOK, Gone
  <2> QED BY <2>3, <2>4, <2>5, <2>6 DEF IInv
<1> QED BY <1>1, <1>2, <1>3 DEF Next

\* Lists, pointers and results belong together in every state of the loop.
THEOREM Invariant == Spec => []IInv
BY InitInv, StepInv, PTL DEF Spec

\* The state keeps its types: the position never runs past the results, and no
\* limit is exceeded.
THEOREM TypeCorrect == Spec => []TypeOK
<1>1. IInv => TypeOK
  BY DEF IInv
<1> QED BY <1>1, Invariant, PTL

\* As long as each descriptor comes back once, no handler is called for a
\* connection that was freed, not even if another was opened in its place.
THEOREM NothingStale == Spec => []NoStaleDispatch
<1>1. IInv => NoStaleDispatch
  BY DEF IInv
<1> QED BY <1>1, Invariant, PTL

\* The expired timers wait in the order of their times, each once and each due;
\* one that a handler removes or sets again meanwhile is no longer among them.
THEOREM TimersOrdered == Spec => []TimersInOrder
<1>1. IInv => TimersInOrder
  BY DEF IInv
<1> QED BY <1>1, Invariant, PTL

\* An operation under way has its job, or its event is waited for.
THEOREM OperationsAwaited == Spec => []BusyIsAwaited
<1>1. IInv => BusyIsAwaited
  BY DEF IInv
<1> QED BY <1>1, Invariant, PTL

=============================================================================
