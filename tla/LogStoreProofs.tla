--------------------------- MODULE LogStoreProofs ---------------------------
(***************************************************************************)
(* Proofs about LogStore, for any number of records and of power failures  *)
(* and for any sizes of the index: the types, that the log that goes on    *)
(* being used is whole, that it keeps what was written, and that what a    *)
(* flush has removed does not come back.                                   *)
(***************************************************************************)
EXTENDS LogStore, FiniteSetTheorems, SequenceTheorems, TLAPS

Procs == {"user", "task"}
Seqs == Seq(0..MaxRec)
Files == {<<>>} \cup {Log(i, b) : i \in Seqs, b \in Seqs}

IdxOf(f) == IF f = <<>> THEN <<>> ELSE f[1].idx
BodyOf(f) == IF f = <<>> THEN <<>> ELSE f[1].body

L == file["log"]
S == file["sum"]
O == file["old"]
Z == file["oldSum"]

\* The places of the two programs: before the record's place is known, before the
\* record is in the log, before the mutex is given back; in a flush.
Back == {"cpBack", "cpBackSum", "rmLog", "rmSum", "rmOld", "rmOldSum"}
Pre == {"check", "mkSum", "cpOld", "cpOldSum", "open"} \cup Back
Before == Pre \cup {"room", "rm", "mv", "append"}
Writes == Before \cup {"index", "newSum", "end"}
Flushing == {"cut", "flSum", "flOld", "flOldSum", "flEnd"}

-----------------------------------------------------------------------------
(* Contents.  A whole log has the index of its records, in order; it keeps *)
(* the records d when each is in it or Keep newer ones are, the oldest of  *)
(* these Keep places from its end.                                         *)

Sorted(s) == \A i, j \in DOMAIN s : i < j => s[i] < s[j]
Fine(f) == f # <<>> /\ IdxOf(f) = BodyOf(f) /\ Sorted(BodyOf(f))

KeptOf(s, d) == \A i \in DOMAIN d :
    \/ d[i] \in Ranged(s)
    \/ Len(s) >= Keep /\ s[Len(s) - Keep + 1] > d[i]
Good(f, d) == Fine(f) /\ KeptOf(BodyOf(f), d)

LEMMA LogFacts ==
    ASSUME NEW i, NEW b
    PROVE  Log(i, b) # <<>> /\ IdxOf(Log(i, b)) = i /\ BodyOf(Log(i, b)) = b
BY DEF Log, IdxOf, BodyOf

LEMMA NoFile == IdxOf(<<>>) = <<>> /\ BodyOf(<<>>) = <<>> /\ ~Fine(<<>>)
BY DEF IdxOf, BodyOf, Fine

LEMMA SeqForm ==
    ASSUME NEW s \in Seqs
    PROVE  /\ s \in Seq(Nat) /\ Len(s) \in Nat /\ DOMAIN s = 1..Len(s)
           /\ \A k \in 1..Len(s) : s[k] \in 0..MaxRec /\ s[k] \in Nat
<1>1. 0..MaxRec \subseteq Nat
  OBVIOUS
<1>2. /\ Len(s) \in Nat /\ DOMAIN s = 1..Len(s)
      /\ \A k \in 1..Len(s) : s[k] \in 0..MaxRec
  <2> DEFINE T == 0..MaxRec
  <2>1. s \in Seq(T)
    BY DEF Seqs
  <2> HIDE DEF T
  <2>2. Len(s) \in Nat /\ DOMAIN s = 1..Len(s) /\ \A k \in 1..Len(s) : s[k] \in T
    BY <2>1
  <2> QED BY <2>2 DEF T
<1>3. s \in Seq(Nat)
  BY <1>1, SeqMonotonic DEF Seqs
<1> QED BY <1>1, <1>2, <1>3

LEMMA FileForm ==
    ASSUME NEW f \in Files
    PROVE  /\ IdxOf(f) \in Seqs /\ BodyOf(f) \in Seqs
           /\ f # <<>> => f = Log(IdxOf(f), BodyOf(f))
<1>1. CASE f = <<>>
  BY <1>1, NoFile, EmptySeq DEF Seqs
<1>2. ASSUME NEW i \in Seqs, NEW b \in Seqs, f = Log(i, b)
      PROVE  IdxOf(f) \in Seqs /\ BodyOf(f) \in Seqs /\ f = Log(IdxOf(f), BodyOf(f))
  BY <1>2, LogFacts
<1> QED BY <1>1, <1>2 DEF Files

LEMMA LogIsFile == \A i, b \in Seqs : Log(i, b) \in Files
BY DEF Files

LEMMA SeqsHas ==
    /\ <<>> \in Seqs
    /\ <<Part>> \in Seqs
    /\ \A s \in Seqs, r \in 0..MaxRec : Append(s, r) \in Seqs /\ Len(Append(s, r)) = Len(s) + 1
    /\ \A s \in Seqs : Len(s) \in Nat
BY LogAssumption DEF LogAssumption, Seqs, Part

LEMMA Special ==
    /\ Empty \in Files /\ Torn \in Files /\ NoSum \in Files
    /\ Fine(Empty) /\ ~Fine(Torn) /\ ~Fine(NoSum) /\ Torn # NoSum
    /\ Empty # <<>> /\ Torn # <<>> /\ NoSum # <<>>
    /\ IdxOf(Empty) = <<>> /\ BodyOf(Empty) = <<>>
    /\ IdxOf(Torn) = <<>> /\ BodyOf(Torn) = <<Part>>
    /\ IdxOf(NoSum) = <<Part>> /\ BodyOf(NoSum) = <<>>
<1>1. <<Part>> # <<>>
  OBVIOUS
<1>2. /\ IdxOf(Empty) = <<>> /\ BodyOf(Empty) = <<>>
      /\ IdxOf(Torn) = <<>> /\ BodyOf(Torn) = <<Part>>
      /\ IdxOf(NoSum) = <<Part>> /\ BodyOf(NoSum) = <<>>
      /\ Empty # <<>> /\ Torn # <<>> /\ NoSum # <<>>
  BY LogFacts DEF Empty, Torn, NoSum
<1>3. Empty \in Files /\ Torn \in Files /\ NoSum \in Files
  BY LogIsFile, SeqsHas DEF Empty, Torn, NoSum
<1>4. Sorted(<<>>)
  BY DEF Sorted
<1>5. Torn # NoSum
  BY <1>1, <1>2
<1> QED BY <1>1, <1>2, <1>3, <1>4, <1>5 DEF Fine

-----------------------------------------------------------------------------
\* Nothing written, nothing to be kept; and nothing is kept in nothing.
LEMMA KeptNone == \A s : KeptOf(s, <<>>)
BY DEF KeptOf

LEMMA NothingKept ==
    ASSUME NEW d \in Seq(Nat), KeptOf(<<>>, d)
    PROVE  d = <<>>
<1>1. \A i \in DOMAIN d : FALSE
  BY LogAssumption DEF KeptOf, Ranged, LogAssumption
<1>2. Len(d) \in Nat /\ DOMAIN d = 1..Len(d)
  OBVIOUS
<1>3. Len(d) = 0
  <2> SUFFICES ASSUME Len(d) > 0 PROVE FALSE
    BY <1>2
  <2>1. 1 \in DOMAIN d
    BY <1>2
  <2> QED BY <1>1, <2>1
<1> QED BY <1>3

LEMMA NewestFacts ==
    ASSUME NEW s \in Seqs
    PROVE  /\ Newest(s) \in Seqs /\ Len(Newest(s)) <= Keep
           /\ Ranged(Newest(s)) \subseteq Ranged(s)
           /\ Len(s) >= Keep => /\ Len(Newest(s)) = Keep
                                /\ \A k \in 1..Keep : Newest(s)[k] = s[k + (Len(s) - Keep)]
<1> DEFINE n == IF Len(s) > Keep THEN Len(s) - Keep ELSE 0
<1>1. Keep \in Nat /\ Keep > 0 /\ n \in 0..Len(s) /\ Newest(s) = SubSeq(s, n + 1, Len(s))
  BY LogAssumption, SeqForm DEF LogAssumption, Newest
<1> HIDE DEF n
<1>2. /\ Newest(s) \in Seqs /\ Len(Newest(s)) = Len(s) - n
      /\ \A k \in 1..Len(Newest(s)) : Newest(s)[k] = s[k + n]
  <2> DEFINE T == 0..MaxRec
  <2>1. s \in Seq(T) /\ Len(s) \in Nat
    BY SeqForm DEF Seqs
  <2> HIDE DEF T
  <2>2. /\ SubSeq(s, n + 1, Len(s)) \in Seq(T) /\ Len(SubSeq(s, n + 1, Len(s))) = Len(s) - n
        /\ \A k \in 1..Len(s) - n : SubSeq(s, n + 1, Len(s))[k] = s[k + n]
    BY <1>1, <2>1
  <2> QED BY <1>1, <2>2 DEF T, Seqs
<1>3. Ranged(Newest(s)) \subseteq Ranged(s)
  <2> SUFFICES ASSUME NEW k \in DOMAIN Newest(s) PROVE Newest(s)[k] \in Ranged(s)
    BY DEF Ranged
  <2>1. k \in 1..Len(Newest(s))
    BY <1>2, SeqForm
  <2>2. k + n \in DOMAIN s
    BY <1>1, <1>2, <2>1, SeqForm
  <2> QED BY <1>2, <2>1, <2>2 DEF Ranged
<1>4. Len(s) \in Nat
  BY SeqForm
<1>5. Len(s) >= Keep => n = Len(s) - Keep
  BY <1>1, <1>4 DEF n
<1>6. Len(Newest(s)) <= Keep
  BY <1>1, <1>2, <1>4 DEF n
<1> QED BY <1>1, <1>2, <1>3, <1>4, <1>5, <1>6

LEMMA NewestKeeps ==
    ASSUME NEW s \in Seqs, Sorted(s), Len(s) >= Keep, NEW d \in Seq(Nat), KeptOf(s, d)
    PROVE  Sorted(Newest(s)) /\ KeptOf(Newest(s), d)
<1> DEFINE t == Newest(s)
           n == Len(s) - Keep
<1>1. Keep \in Nat /\ Keep > 0 /\ Len(s) \in Nat /\ n \in Nat
  BY LogAssumption, SeqForm DEF LogAssumption
<1>2. /\ t \in Seqs /\ Len(t) = Keep /\ \A k \in 1..Keep : t[k] = s[k + n]
  BY NewestFacts
<1>3. DOMAIN s = 1..Len(s) /\ DOMAIN t = 1..Keep /\ \A k \in 1..Keep : k + n \in 1..Len(s)
  BY <1>1, <1>2, SeqForm
<1>4. \A k \in 1..Len(s) : s[k] \in Nat
  BY SeqForm
<1> HIDE DEF t, n
<1>5. Sorted(t)
  <2> SUFFICES ASSUME NEW i \in 1..Keep, NEW j \in 1..Keep, i < j PROVE t[i] < t[j]
    BY <1>3 DEF Sorted
  <2>1. i + n \in DOMAIN s /\ j + n \in DOMAIN s /\ i + n < j + n
    BY <1>1, <1>3
  <2> QED BY <1>2, <2>1 DEF Sorted
<1>6. ASSUME NEW i \in DOMAIN d PROVE d[i] \in Ranged(t) \/ t[1] > d[i]
  <2>1. d[i] \in Nat
    OBVIOUS
  <2>2. CASE d[i] \in Ranged(s)
    <3>1. PICK j \in 1..Len(s) : d[i] = s[j]
      BY <1>3, <2>2 DEF Ranged
    <3>2. CASE j > n
      <4>1. j - n \in 1..Keep /\ t[j - n] = s[j]
        BY <1>1, <1>2, <3>2 DEF n
      <4> QED BY <1>3, <3>1, <4>1 DEF Ranged
    <3>3. CASE j <= n
      <4>1. 1 + n \in DOMAIN s /\ j < 1 + n /\ t[1] = s[1 + n]
        BY <1>1, <1>2, <1>3, <3>3
      <4>2. s[j] < s[1 + n]
        BY <1>3, <4>1 DEF Sorted
      <4> QED BY <1>3, <1>4, <3>1, <4>1, <4>2
    <3> QED BY <1>1, <3>2, <3>3
  <2>3. CASE s[Len(s) - Keep + 1] > d[i]
    <3>1. t[1] = s[1 + n] /\ 1 + n = Len(s) - Keep + 1
      BY <1>1, <1>2 DEF n
    <3> QED BY <2>3, <3>1
  <2> QED BY <2>2, <2>3 DEF KeptOf
<1>7. KeptOf(t, d)
  BY <1>1, <1>2, <1>6 DEF KeptOf
<1> QED BY <1>5, <1>7 DEF t

LEMMA AppendKeeps ==
    ASSUME NEW s \in Seqs, Sorted(s), NEW r \in Nat, r \in 0..MaxRec,
           \A k \in Ranged(s) : k < r, NEW d \in Seq(Nat), KeptOf(s, d)
    PROVE  /\ Sorted(Append(s, r)) /\ KeptOf(Append(s, r), d)
           /\ r \in Ranged(Append(s, r))
<1> DEFINE t == Append(s, r)
<1>1. /\ Keep \in Nat /\ Keep > 0 /\ Len(s) \in Nat
      /\ Len(t) = Len(s) + 1 /\ DOMAIN t = 1..Len(s) + 1 /\ DOMAIN s = 1..Len(s)
      /\ \A k \in 1..Len(s) : t[k] = s[k] /\ s[k] \in Nat
      /\ t[Len(s) + 1] = r
  BY LogAssumption, SeqForm DEF LogAssumption
<1>2. \A k \in 1..Len(s) : s[k] < r
  BY <1>1 DEF Ranged
<1> HIDE DEF t
<1>3. Sorted(t)
  BY <1>1, <1>2 DEF Sorted
<1>4. ASSUME NEW i \in DOMAIN d
      PROVE  d[i] \in Ranged(t) \/ (Len(t) >= Keep /\ t[Len(t) - Keep + 1] > d[i])
  <2>1. d[i] \in Nat
    OBVIOUS
  <2>2. CASE d[i] \in Ranged(s)
    BY <1>1, <2>2 DEF Ranged
  <2>3. CASE Len(s) >= Keep /\ s[Len(s) - Keep + 1] > d[i]
    <3> DEFINE m == Len(s) - Keep + 1
    <3>0. m \in 1..Len(s) /\ Len(t) - Keep + 1 = m + 1 /\ m \in DOMAIN t /\ m + 1 \in DOMAIN t
          /\ m < m + 1
      BY <1>1, <2>3
    <3>1. /\ Len(s) - Keep + 1 \in DOMAIN t /\ Len(t) - Keep + 1 \in DOMAIN t
          /\ Len(s) - Keep + 1 < Len(t) - Keep + 1 /\ Len(t) >= Keep
          /\ t[Len(s) - Keep + 1] = s[Len(s) - Keep + 1]
          /\ \A k \in DOMAIN t : t[k] \in Nat
      <4>1. \A k \in DOMAIN t : t[k] \in Nat
        BY <1>1
      <4>2. Len(t) >= Keep
        BY <1>1, <2>3
      <4> QED BY <1>1, <3>0, <4>1, <4>2
    <3>2. t[Len(s) - Keep + 1] < t[Len(t) - Keep + 1]
      BY <1>3, <3>1 DEF Sorted
    <3> QED BY <2>1, <2>3, <3>1, <3>2
  <2> QED BY <2>2, <2>3 DEF KeptOf
<1>5. r \in Ranged(t)
  BY <1>1 DEF Ranged
<1> QED BY <1>3, <1>4, <1>5 DEF KeptOf, t

LEMMA WrittenKept ==
    ASSUME NEW s, NEW r, r \in Ranged(s), NEW d \in Seq(Nat), r \in Nat, KeptOf(s, d)
    PROVE  KeptOf(s, Append(d, r))
<1>1. DOMAIN Append(d, r) = 1..Len(d) + 1 /\ DOMAIN d = 1..Len(d)
  OBVIOUS
<1>2. ASSUME NEW i \in DOMAIN Append(d, r)
      PROVE  Append(d, r)[i] = r \/ (i \in DOMAIN d /\ Append(d, r)[i] = d[i])
  BY <1>1
<1> QED BY <1>2 DEF KeptOf

LEMMA PutFacts ==
    ASSUME NEW s \in Seqs, NEW i \in Nat, NEW r \in 0..MaxRec
    PROVE  /\ Put(s, i, r) \in Seqs /\ Len(Put(s, i, r)) = i + 1
           /\ \A k \in 1..i + 1 :
                Put(s, i, r)[k] = IF k > i THEN r ELSE IF k <= Len(s) THEN s[k] ELSE Part
<1> DEFINE T == 0..MaxRec
<1>1. s \in Seq(T) /\ r \in T /\ Part \in T
  BY LogAssumption DEF Seqs, Part, LogAssumption
<1> HIDE DEF T
<1>2. Put(s, i, r) \in Seq(T) /\ Len(Put(s, i, r)) = i + 1
  BY <1>1 DEF Put
<1>3. \A k \in 1..i + 1 :
        Put(s, i, r)[k] = IF k > i THEN r ELSE IF k <= Len(s) THEN s[k] ELSE Part
  BY DEF Put
<1> QED BY <1>2, <1>3 DEF T, Seqs

LEMMA PutIsAppend ==
    ASSUME NEW s \in Seqs, NEW r \in 0..MaxRec
    PROVE  Put(s, Len(s), r) = Append(s, r)
<1>1. /\ Len(s) \in Nat /\ Put(s, Len(s), r) \in Seqs /\ Append(s, r) \in Seqs
      /\ Len(Put(s, Len(s), r)) = Len(s) + 1 /\ Len(Append(s, r)) = Len(s) + 1
  BY SeqForm, PutFacts, SeqsHas
<1>2. \A k \in 1..Len(s) + 1 : Append(s, r)[k] = IF k > Len(s) THEN r ELSE s[k]
  BY SeqForm
<1>3. \A k \in 1..Len(s) + 1 : Put(s, Len(s), r)[k] = Append(s, r)[k]
  <2>1. \A k \in 1..Len(s) + 1 :
          Put(s, Len(s), r)[k] = IF k > Len(s) THEN r ELSE IF k <= Len(s) THEN s[k] ELSE Part
    BY <1>1, PutFacts
  <2> QED BY <1>1, <1>2, <2>1
<1> QED BY <1>1, <1>3, SeqEqual DEF Seqs

-----------------------------------------------------------------------------
(* The steps, by what they do to a file and to a place.                    *)

TypedFiles == file \in [Names -> Files] /\ tmp \in Files /\ mem \in Seqs

TypedRun ==
    /\ init \in BOOLEAN /\ re \in [Procs -> BOOLEAN] /\ idx \in Nat
    /\ pc = [q \in Procs |-> pc[q]]
    /\ pc["user"] \in {"idle"} \cup Writes \cup Flushing
    /\ pc["task"] \in {"wait", "ready"} \cup Pre

TypedHist ==
    /\ rec \in 0..MaxRec /\ env \in 0..MaxEnv
    /\ pc["user"] \in Writes => rec > 0
    /\ done \in Seq(Nat) /\ \A i \in DOMAIN done : done[i] \in 1..rec
    /\ gone \subseteq 1..rec /\ harm \subseteq {"start", "move", "read", "bare"}

Typed == TypedFiles /\ TypedRun /\ TypedHist

Sets(n, f) == file' = [file EXCEPT ![n] = f]
Turn(p, from, n, f, to) == pc[p] = from /\ Sets(n, f) /\ Goes(p, to)

LEMMA Going ==
    ASSUME Typed, NEW p \in Procs, NEW l, Goes(p, l)
    PROVE  /\ pc' = [q \in Procs |-> pc'[q]] /\ pc'[p] = l
           /\ \A q \in Procs : q # p => pc'[q] = pc[q]
           /\ p = "user" => pc'["user"] = l /\ pc'["task"] = pc["task"]
           /\ p = "task" => pc'["task"] = l /\ pc'["user"] = pc["user"]
BY DEF Typed, TypedRun, Goes, Procs

LEMMA Setting ==
    ASSUME Typed, NEW n \in Names, NEW f \in Files, Sets(n, f)
    PROVE  /\ file' \in [Names -> Files] /\ file'[n] = f
           /\ \A m \in Names : m # n => file'[m] = file[m]
BY DEF Typed, TypedFiles, Sets

LEMMA FourFiles ==
    ASSUME Typed
    PROVE  /\ L \in Files /\ S \in Files /\ O \in Files /\ Z \in Files /\ <<>> \in Files
           /\ Idx = IdxOf(L) /\ Body = BodyOf(L) /\ Idx \in Seqs /\ Body \in Seqs
<1>1. L \in Files /\ S \in Files /\ O \in Files /\ Z \in Files /\ <<>> \in Files
  BY DEF Typed, TypedFiles, L, S, O, Z, Names, Files
<1>2. Idx = IdxOf(L) /\ Body = BodyOf(L)
  BY DEF Idx, Body, IdxOf, BodyOf, L
<1> QED BY <1>1, <1>2, FileForm

\* What is written to the log, if there is one.
LEMMA Rewriting ==
    ASSUME Typed, NEW i \in Seqs, NEW b \in Seqs
    PROVE  Rewritten(i, b) = [file EXCEPT !["log"] = IF L = <<>> THEN <<>> ELSE Log(i, b)]
BY DEF Typed, TypedFiles, Rewritten, L, Names

LEMMA OpsAre ==
    /\ Ops["mkSum"] = Op("log", "sum", "cpOld")
    /\ Ops["cpOld"] = Op("log", "old", "cpOldSum")
    /\ Ops["cpOldSum"] = Op("sum", "oldSum", "open")
    /\ Ops["cpBack"] = Op("old", "log", "cpBackSum")
    /\ Ops["cpBackSum"] = Op("oldSum", "sum", "open")
    /\ Ops["rmLog"] = Op("none", "log", "rmSum")
    /\ Ops["rmSum"] = Op("none", "sum", "rmOld")
    /\ Ops["rmOld"] = Op("none", "old", "rmOldSum")
    /\ Ops["rmOldSum"] = Op("none", "oldSum", "open")
    /\ Ops["flSum"] = Op("none", "sum", "flOld")
    /\ Ops["flOld"] = Op("none", "old", "flOldSum")
    /\ Ops["flOldSum"] = Op("none", "oldSum", "flEnd")
    /\ Ops["newSum"] = Op("log", "sum", "end")
    /\ DOMAIN Ops = {"mkSum", "cpOld", "cpOldSum", "cpBack", "cpBackSum", "rmLog", "rmSum",
                     "rmOld", "rmOldSum", "flSum", "flOld", "flOldSum", "newSum"}
BY DEF Ops

LEMMA OpIs ==
    ASSUME NEW a, NEW b, NEW c
    PROVE  Op(a, b, c).from = a /\ Op(a, b, c).to = b /\ Op(a, b, c).next = c
BY DEF Op

\* One operation on whole files, from its entry in Ops.
LEMMA Operation ==
    ASSUME NEW p \in Procs, NEW a, NEW b, NEW c,
           Operate(p), Ops[pc[p]] = Op(a, b, c)
    PROVE  Turn(p, pc[p], b, IF a = "none" THEN <<>>
                             ELSE IF a # "log" /\ file[a] = <<>> THEN file[b] ELSE file[a], c)
<1>1. /\ Ops[pc[p]].from = a /\ Ops[pc[p]].to = b /\ Ops[pc[p]].next = c
  BY OpIs
<1>2. file' = [file EXCEPT ![b] = Result(Ops[pc[p]])] /\ Goes(p, c)
  BY <1>1 DEF Operate
<1>3. Result(Ops[pc[p]]) = IF a = "none" THEN <<>>
                           ELSE IF a # "log" /\ file[a] = <<>> THEN file[b] ELSE file[a]
  BY <1>1 DEF Result
<1> QED BY <1>2, <1>3 DEF Turn, Sets

LEMMA Operations ==
    ASSUME Typed, NEW p \in Procs, Operate(p)
    PROVE  /\ \/ Turn(p, "mkSum", "sum", L, "cpOld")
              \/ Turn(p, "cpOld", "old", L, "cpOldSum")
              \/ Turn(p, "cpOldSum", "oldSum", IF S = <<>> THEN Z ELSE S, "open")
              \/ Turn(p, "cpBack", "log", IF O = <<>> THEN L ELSE O, "cpBackSum")
              \/ Turn(p, "cpBackSum", "sum", IF Z = <<>> THEN S ELSE Z, "open")
              \/ Turn(p, "rmLog", "log", <<>>, "rmSum")
              \/ Turn(p, "rmSum", "sum", <<>>, "rmOld")
              \/ Turn(p, "rmOld", "old", <<>>, "rmOldSum")
              \/ Turn(p, "rmOldSum", "oldSum", <<>>, "open")
              \/ Turn(p, "flSum", "sum", <<>>, "flOld") /\ p = "user"
              \/ Turn(p, "flOld", "old", <<>>, "flOldSum") /\ p = "user"
              \/ Turn(p, "flOldSum", "oldSum", <<>>, "flEnd") /\ p = "user"
              \/ Turn(p, "newSum", "sum", L, "end") /\ p = "user"
           /\ UNCHANGED <<tmp, mem, init, re, idx, rec, env, done, gone, harm>>
<1>1. UNCHANGED <<tmp, mem, init, re, idx, rec, env, done, gone, harm>>
  BY DEF Operate, hist
<1>2. pc[p] \in DOMAIN Ops
  BY DEF Operate
<1>3. pc[p] \in {"flSum", "flOld", "flOldSum", "newSum"} => p = "user"
  BY DEF Typed, TypedRun, Procs, Pre, Back
<1>4. pc[p] = "mkSum" => Turn(p, "mkSum", "sum", L, "cpOld")
  BY OpsAre, Operation DEF L, S, O, Z
<1>5. pc[p] = "cpOld" => Turn(p, "cpOld", "old", L, "cpOldSum")
  BY OpsAre, Operation DEF L, S, O, Z
<1>6. pc[p] = "cpOldSum" => Turn(p, "cpOldSum", "oldSum", IF S = <<>> THEN Z ELSE S, "open")
  BY OpsAre, Operation DEF L, S, O, Z
<1>7. pc[p] = "cpBack" => Turn(p, "cpBack", "log", IF O = <<>> THEN L ELSE O, "cpBackSum")
  BY OpsAre, Operation DEF L, S, O, Z
<1>8. pc[p] = "cpBackSum" => Turn(p, "cpBackSum", "sum", IF Z = <<>> THEN S ELSE Z, "open")
  BY OpsAre, Operation DEF L, S, O, Z
<1>9. pc[p] = "rmLog" => Turn(p, "rmLog", "log", <<>>, "rmSum")
  BY OpsAre, Operation
<1>10. pc[p] = "rmSum" => Turn(p, "rmSum", "sum", <<>>, "rmOld")
  BY OpsAre, Operation
<1>11. pc[p] = "rmOld" => Turn(p, "rmOld", "old", <<>>, "rmOldSum")
  BY OpsAre, Operation
<1>12. pc[p] = "rmOldSum" => Turn(p, "rmOldSum", "oldSum", <<>>, "open")
  BY OpsAre, Operation
<1>13. pc[p] = "flSum" => Turn(p, "flSum", "sum", <<>>, "flOld")
  BY OpsAre, Operation
<1>14. pc[p] = "flOld" => Turn(p, "flOld", "old", <<>>, "flOldSum")
  BY OpsAre, Operation
<1>15. pc[p] = "flOldSum" => Turn(p, "flOldSum", "oldSum", <<>>, "flEnd")
  BY OpsAre, Operation
<1>16. pc[p] = "newSum" => Turn(p, "newSum", "sum", L, "end")
  BY OpsAre, Operation DEF L, S, O, Z
<1> QED BY <1>1, <1>2, <1>3, <1>4, <1>5, <1>6, <1>7, <1>8, <1>9, <1>10, <1>11,
        <1>12, <1>13, <1>14, <1>15, <1>16, OpsAre

\* What check_abnormal_log finds: no checksum, a right one, a copy to go back to, or
\* nothing to go on with.
Right == L # <<>> /\ L = S
Sure == O # <<>> /\ O = Z

LEMMA Checked ==
    /\ Valid("log", "sum") <=> Right
    /\ Valid("old", "oldSum") <=> Sure
    /\ Remedy \in {"mkSum", "cpOld", "cpBack", "rmLog"}
    /\ Remedy = "mkSum" => L # <<>> /\ S = <<>>
    /\ Remedy = "cpOld" => Right
    /\ Remedy = "cpBack" => ~Right /\ (L # <<>> => S # <<>>) /\ Sure
    /\ Remedy = "rmLog" => ~Right /\ (L # <<>> => S # <<>>) /\ ~Sure
<1>1. (Valid("log", "sum") <=> Right) /\ (Valid("old", "oldSum") <=> Sure)
  BY DEF Valid, Right, Sure, L, S, O, Z
<1>2. CASE L # <<>> /\ S = <<>>
  BY <1>1, <1>2 DEF Remedy, Right, L, S
<1>3. CASE Right
  BY <1>1, <1>3 DEF Remedy, Right, L, S
<1>4. CASE ~Right /\ (L # <<>> => S # <<>>)
  BY <1>1, <1>4 DEF Remedy, L, S
<1> QED BY <1>1, <1>2, <1>3, <1>4

-----------------------------------------------------------------------------
(* Types.                                                                  *)

LEMMA TypedInit == Init => Typed
<1> SUFFICES ASSUME Init PROVE Typed
  OBVIOUS
<1>1. TypedFiles
  BY SeqsHas DEF Init, TypedFiles, Files
<1>2. TypedRun
  <2>1. pc = [q \in Procs |-> pc[q]] /\ pc["user"] = "idle" /\ pc["task"] = "wait"
    BY DEF Init, Procs
  <2>2. re \in [Procs -> BOOLEAN]
    <3>1. re = [q \in Procs |-> re[q]] /\ re["user"] = FALSE /\ re["task"] = FALSE
      BY DEF Init, Procs
    <3>2. \A q \in Procs : re[q] \in BOOLEAN
      BY <3>1 DEF Procs
    <3> QED BY <3>1, <3>2
  <2> QED BY <2>1, <2>2 DEF Init, TypedRun
<1>3. TypedHist
  BY LogAssumption DEF Init, TypedHist, Writes, Before, Pre, Back, LogAssumption
<1> QED BY <1>1, <1>2, <1>3 DEF Typed

LEMMA TypedOperate == ASSUME Typed, NEW p \in Procs, Operate(p) PROVE Typed'
<1>1. UNCHANGED <<tmp, mem, init, re, idx, rec, env, done, gone, harm>>
  BY Operations
<1>2. PICK n \in Names, f \in Files : Sets(n, f)
  BY Operations, FourFiles DEF Turn, Names
<1>3. TypedFiles'
  BY <1>1, <1>2, Setting DEF Typed, TypedFiles
<1>4. PICK l \in Pre \cup Flushing \cup {"end"} :
          Goes(p, l) /\ (l \notin Pre => p = "user") /\ (p = "user" /\ l \in Writes => pc[p] \in Writes)
  BY Operations DEF Turn, Pre, Back, Flushing, Writes, Before
<1>6. TypedRun'
  BY <1>1, <1>4, Going DEF Typed, TypedRun, Procs, Writes, Before
<1>7. TypedHist'
  BY <1>1, <1>4, Going DEF Typed, TypedHist, Procs
<1> QED BY <1>3, <1>6, <1>7 DEF Typed

LEMMA TypedCheck == ASSUME Typed, NEW p \in Procs, Check(p) PROVE Typed'
<1>1. UNCHANGED <<disk, mem, init, idx, rec, env, hist>> /\ pc[p] = "check"
  BY DEF Check
<1>2. TypedFiles'
  BY <1>1 DEF Typed, TypedFiles, disk
<1>3. Remedy \in Pre /\ Goes(p, Remedy)
  BY Checked DEF Check, Pre, Back
<1>4. re' \in [Procs -> BOOLEAN]
  BY DEF Check, Typed, TypedRun
<1>5. TypedRun'
  BY <1>1, <1>3, <1>4, Going DEF Typed, TypedRun, Procs, Writes, Before
<1>6. TypedHist'
  BY <1>1, <1>3, Going DEF Typed, TypedHist, Procs, hist, Writes, Before, Pre
<1> QED BY <1>2, <1>5, <1>6 DEF Typed

LEMMA TypedOpen == ASSUME Typed, NEW p \in Procs, Open(p) PROVE Typed'
<1>1. UNCHANGED <<tmp, rec, env, hist>> /\ pc[p] = "open"
  BY DEF Open
<1>2. file' = file \/ Sets("log", Empty)
  BY DEF Open, Sets
<1>3. mem' \in Seqs
  BY FourFiles, SeqsHas DEF Open, Typed, TypedFiles
<1>4. TypedFiles'
  BY <1>1, <1>2, <1>3, Setting, Special DEF Typed, TypedFiles, Names
<1>5. PICK l \in {"room", "ready"} :
          Goes(p, l) /\ (l = "room" <=> p = "user")
  BY DEF Open
<1>6. re' \in [Procs -> BOOLEAN] /\ init' \in BOOLEAN
  BY DEF Open, Typed, TypedRun
<1>7. idx' \in Nat
  BY <1>3, SeqForm DEF Open, Typed, TypedRun
<1>8. TypedRun'
  BY <1>5, <1>6, <1>7, Going DEF Typed, TypedRun, Procs, Writes, Before
<1>9. TypedHist'
  BY <1>1, <1>5, Going DEF Typed, TypedHist, Procs, hist, Writes, Before, Pre
<1> QED BY <1>4, <1>8, <1>9 DEF Typed

LEMMA TypedPlace ==     \* where only the writer's place and less change
    ASSUME Typed, TypedFiles', NEW l, Goes("user", l), l \in {"idle"} \cup Writes \cup Flushing,
           init' = init, re' = re, idx' \in Nat, rec' \in 0..MaxRec, rec' >= rec,
           l \in Writes => rec' > 0, env' \in 0..MaxEnv,
           done' \in Seq(Nat), \A i \in DOMAIN done' : done'[i] \in 1..rec',
           gone' \subseteq 1..rec', harm' \subseteq {"start", "move", "read", "bare"}
    PROVE  Typed'
<1>1. TypedRun'
  BY Going DEF Typed, TypedRun, Procs
<1>2. TypedHist'
  BY Going DEF TypedHist, Procs
<1> QED BY <1>1, <1>2 DEF Typed

LEMMA TypedWithin ==    \* in the middle of a write
    ASSUME Typed, TypedFiles', pc["user"] \in Writes, NEW l \in Writes, Goes("user", l),
           UNCHANGED <<init, re, rec, env, done, gone>>, idx' \in Nat,
           harm' = harm \/ harm' = harm \cup {"move"}
    PROVE  Typed'
<1>1. TypedRun'
  BY Going DEF Typed, TypedRun, Procs
<1>2. TypedHist'
  BY Going DEF Typed, TypedHist, Procs
<1> QED BY <1>1, <1>2 DEF Typed

LEMMA TypedWrite == ASSUME Typed, Wr_Alm_Pkt_to_log PROVE Typed'
<1> USE DEF TypedHist, TypedRun, TypedFiles
<1>0. /\ done \in Seq(Nat) /\ \A i \in DOMAIN done : done[i] \in 1..rec
      /\ rec \in 0..MaxRec /\ \A i \in Int : i \in 1..rec => i \in 1..rec + 1
      /\ pc["user"] \in Writes => rec > 0
  BY DEF Typed
<1> DEFINE label == {"idle"} \cup Writes \cup Flushing
<1>1. {"check", "append", "rm", "mv", "index", "newSum", "idle"} \subseteq label
  BY DEF Writes, Before, Pre
<1>2. /\ "room" \in Writes /\ "rm" \in Writes /\ "mv" \in Writes /\ "append" \in Writes
      /\ "index" \in Writes /\ "newSum" \in Writes /\ "end" \in Writes
  BY DEF Writes, Before
<1>3. CASE Begin
  <2>1. TypedFiles' /\ rec' = rec + 1 /\ rec' \in 0..MaxRec /\ Goes("user", "check")
    BY <1>3, LogAssumption DEF Begin, disk, Typed, LogAssumption
  <2>2. \A i \in DOMAIN done' : done'[i] \in 1..rec'
    BY <1>0, <1>3, <2>1 DEF Begin
  <2>3. gone' \subseteq 1..rec' /\ harm' \subseteq {"start", "move", "read", "bare"}
    BY <1>3, <2>1 DEF Begin, Meets, Typed
  <2>4. rec' >= rec /\ rec' > 0 /\ "check" \in label
    BY <1>0, <1>1, <2>1
  <2>5. /\ init' = init /\ re' = re /\ idx' \in Nat /\ env' \in 0..MaxEnv
        /\ done' \in Seq(Nat)
    BY <1>3 DEF Begin, Typed
  <2> QED BY <2>1, <2>2, <2>3, <2>4, <2>5, TypedPlace
<1>4. CASE Clear
  <2>1. Sets("log", IF L = <<>> THEN <<>> ELSE Log(<<>>, <<>>))
    BY <1>4, Rewriting, SeqsHas DEF Clear, Sets
  <2>2. TypedFiles'
    BY <1>4, <2>1, Setting, SeqsHas, LogIsFile, FourFiles DEF Clear, Typed, Names
  <2> QED BY <1>2, <1>4, <2>2, TypedWithin DEF Clear, Typed
<1>5. CASE HasRoom
  BY <1>2, <1>5, TypedWithin DEF HasRoom, disk, hist, Typed
<1>6. CASE Move
  <2>1. mem' \in Seqs /\ Newest(Body) \in Seqs
    BY <1>6, NewestFacts, FourFiles DEF Move, Typed
  <2>2. Append(Newest(Body), Part) \in Seqs
    BY <2>1, SeqsHas, LogAssumption DEF Part, LogAssumption
  <2>3. TypedFiles'
    BY <1>6, <2>1, <2>2, LogIsFile DEF Move, Typed
  <2>4. harm' = harm \/ harm' = harm \cup {"move"}
    BY <1>6 DEF Move, Typed
  <2> QED BY <1>2, <1>6, <2>3, <2>4, TypedWithin DEF Move, Typed
<1>7. CASE MoveFails
  <2>1. TypedFiles'
    BY <1>7, NewestFacts, Special DEF MoveFails, Typed
  <2>2. harm' = harm \/ harm' = harm \cup {"move"}
    BY <1>7 DEF MoveFails, Typed
  <2> QED BY <1>2, <1>7, <2>1, <2>2, TypedWithin DEF MoveFails, Typed
<1>8. CASE Remove
  <2>1. TypedFiles'
    BY <1>8, Setting, FourFiles DEF Remove, Sets, Typed, Names
  <2> QED BY <1>2, <1>8, <2>1, TypedWithin DEF Remove, hist, Typed
<1>9. CASE Place
  <2>1. TypedFiles'
    BY <1>9, Setting, FourFiles DEF Place, Sets, Typed, Names
  <2>2. idx' \in Nat
    BY <1>9, SeqForm DEF Place, Typed
  <2> QED BY <1>2, <1>9, <2>1, <2>2, TypedWithin DEF Place, hist, Typed
<1>10. CASE AppendPkt
  <2>1. Append(Body, rec) \in Seqs
    BY FourFiles, SeqsHas DEF Typed
  <2>2. Sets("log", IF L = <<>> THEN <<>> ELSE Log(Idx, Append(Body, rec)))
    BY <1>10, <2>1, Rewriting, FourFiles DEF AppendPkt, Sets
  <2>3. TypedFiles'
    BY <1>10, <2>1, <2>2, Setting, LogIsFile, FourFiles DEF AppendPkt, Typed, Names
  <2> QED BY <1>2, <1>10, <2>3, TypedWithin DEF AppendPkt, hist, Typed
<1>11. CASE AppendFails
  BY <1>2, <1>11, TypedWithin DEF AppendFails, disk, hist, Typed
<1>12. CASE Index
  <2>1. mem' \in Seqs
    BY <1>12, PutFacts DEF Index, Typed
  <2>2. Sets("log", IF L = <<>> THEN <<>> ELSE Log(mem', Body))
    BY <1>12, <2>1, Rewriting, FourFiles DEF Index, Sets
  <2>3. TypedFiles'
    BY <1>12, <2>1, <2>2, Setting, LogIsFile, FourFiles DEF Index, Typed, Names
  <2> QED BY <1>2, <1>12, <2>3, TypedWithin DEF Index, hist, Typed
<1>13. CASE Written
  <2>1. rec \in 1..rec
    BY <1>0, <1>2, <1>13 DEF Written
  <2>2. done' \in Seq(Nat) /\ \A i \in DOMAIN done' : done'[i] \in 1..rec
    BY <1>0, <1>13, <2>1 DEF Written
  <2> QED BY <1>1, <1>13, <2>2, TypedPlace DEF Written, disk, Typed, Writes, Before, Pre, Back
<1> QED BY <1>3, <1>4, <1>5, <1>6, <1>7, <1>8, <1>9, <1>10, <1>11, <1>12, <1>13
        DEF Wr_Alm_Pkt_to_log

LEMMA TypedFlush == ASSUME Typed, Flush \/ Cut \/ Flushes PROVE Typed'
<1> USE DEF TypedHist, TypedRun, TypedFiles
<1>1. "cut" \in Flushing /\ "flSum" \in Flushing
  BY DEF Flushing
<1>2. "idle" \notin Writes /\ "cut" \notin Writes /\ "flSum" \notin Writes
  BY DEF Writes, Before, Pre, Back
<1>3. CASE Flush
  <2>1. Sets("log", Log(<<>>, Body)) /\ Log(<<>>, Body) \in Files
    BY <1>3, FourFiles, LogIsFile, SeqsHas DEF Flush, Sets
  <2>2. TypedFiles'
    BY <1>3, <2>1, Setting, SeqsHas DEF Flush, Typed, Names
  <2>3. harm' \subseteq {"start", "move", "read", "bare"}
    BY <1>3 DEF Flush, Meets, Typed
  <2>4. /\ init' = init /\ re' = re /\ idx' \in Nat /\ rec' = rec /\ rec' \in 0..MaxRec
        /\ rec' >= rec /\ env' \in 0..MaxEnv /\ gone' \subseteq 1..rec'
    BY <1>3, LogAssumption DEF Flush, Typed, LogAssumption
  <2>5. done' \in Seq(Nat) /\ \A i \in DOMAIN done' : done'[i] \in 1..rec'
    BY <1>3 DEF Flush
  <2>6. Goes("user", "cut")
    BY <1>3 DEF Flush
  <2> QED BY <1>1, <1>2, <2>2, <2>3, <2>4, <2>5, <2>6, TypedPlace
<1>4. CASE Cut
  <2>1. Sets("log", IF L = <<>> THEN <<>> ELSE Log(Idx, <<>>))
    BY <1>4, Rewriting, FourFiles, SeqsHas DEF Cut, Sets
  <2>2. TypedFiles'
    BY <1>4, <2>1, Setting, FourFiles, LogIsFile, SeqsHas DEF Cut, Typed, Names
  <2>3. Goes("user", "flSum") /\ UNCHANGED <<init, re, idx, rec, env, done, gone, harm>>
    BY <1>4 DEF Cut, hist
  <2> QED BY <1>1, <1>2, <2>2, <2>3, TypedPlace DEF Typed
<1>5. CASE Flushes
  <2>1. Goes("user", "idle") /\ UNCHANGED <<file, tmp, mem, init, re, idx, rec, env, done, harm>>
    BY <1>5 DEF Flushes, disk
  <2>2. TypedFiles' /\ gone' \subseteq 1..rec'
    BY <1>5, <2>1 DEF Flushes, Typed
  <2>3. /\ idx' \in Nat /\ rec' \in 0..MaxRec /\ rec' >= rec /\ env' \in 0..MaxEnv
        /\ done' \in Seq(Nat) /\ \A i \in DOMAIN done' : done'[i] \in 1..rec'
        /\ harm' \subseteq {"start", "move", "read", "bare"}
    BY <2>1, LogAssumption DEF Typed, LogAssumption
  <2> QED BY <1>2, <2>1, <2>2, <2>3, TypedPlace
<1> QED BY <1>3, <1>4, <1>5

LEMMA TypedStart == ASSUME Typed, Start \/ Read PROVE Typed'
<1>1. CASE Start
  <2>1. Goes("task", "check") /\ "check" \in Pre
    BY <1>1 DEF Start, Pre
  <2>2. TypedRun'
    BY <1>1, <2>1, Going DEF Start, Typed, TypedRun, Procs
  <2>3. TypedHist'
    BY <1>1, <2>1, Going DEF Start, Meets, Typed, TypedHist, Procs
  <2>4. TypedFiles'
    BY <1>1 DEF Start, disk, Typed, TypedFiles
  <2> QED BY <2>2, <2>3, <2>4 DEF Typed
<1>2. CASE Read
  <2>1. TypedFiles'
    BY <1>2, Setting, Special, SeqsHas DEF Read, Sets, Typed, TypedFiles, Names
  <2>2. TypedRun' /\ TypedHist'
    BY <1>2 DEF Read, Typed, TypedRun, TypedHist
  <2> QED BY <2>1, <2>2 DEF Typed
<1> QED BY <1>1, <1>2

\* What a power failure leaves of a file that is being written.
Cuts(h, n, f) == h = [file EXCEPT ![n] = f]

LEMMA Halves ==
    ASSUME Typed, NEW p \in Procs, NEW h \in Half(p)
    PROVE  \/ /\ pc[p] \in {"mkSum", "cpBackSum", "newSum"}
              /\ \E f \in {<<>>, NoSum} : Cuts(h, "sum", f)
           \/ pc[p] = "cpOld" /\ \E f \in {<<>>, Torn} : Cuts(h, "old", f)
           \/ pc[p] = "cpOldSum" /\ \E f \in {<<>>, NoSum} : Cuts(h, "oldSum", f)
           \/ pc[p] = "cpBack" /\ \E f \in {<<>>, Torn} : Cuts(h, "log", f)
           \/ /\ pc[p] = "append"
              /\ Cuts(h, "log", IF L = <<>> THEN <<>> ELSE Log(Idx, Append(Body, Part)))
           \/ pc[p] = "index" /\ Cuts(h, "log", IF L = <<>> THEN <<>> ELSE Log(<<Part>>, Body))
           \/ pc[p] = "mv" /\ Cuts(h, "log", Torn)
<1>1. CASE pc[p] \in DOMAIN Ops /\ Ops[pc[p]].from # "none"
  <2> DEFINE to == Ops[pc[p]].to
  <2>1. \E f \in {<<>>, IF to \in {"log", "old"} THEN Torn ELSE NoSum} : Cuts(h, to, f)
    <3>0. pc[p] # "append" /\ pc[p] # "index" /\ pc[p] # "mv"
      BY <1>1, OpsAre
    <3>1. Half(p) = {[file EXCEPT ![Ops[pc[p]].to] = f] :
                        f \in {<<>>, IF Ops[pc[p]].to \in {"log", "old"} THEN Torn ELSE NoSum}}
      BY <1>1, <3>0, Zenon DEF Half
    <3> QED BY <3>1 DEF Cuts
  <2>2. \/ pc[p] \in {"mkSum", "cpBackSum", "newSum"} /\ to = "sum"
        \/ pc[p] = "cpOld" /\ to = "old"
        \/ pc[p] = "cpOldSum" /\ to = "oldSum"
        \/ pc[p] = "cpBack" /\ to = "log"
    BY <1>1, OpsAre, OpIs
  <2> HIDE DEF to
  <2> QED BY <2>1, <2>2
<1>2. CASE pc[p] = "append"
  <2>1. pc[p] \notin DOMAIN Ops
    BY <1>2, OpsAre
  <2>2. h = Rewritten(Idx, Append(Body, Part))
    BY <1>2, <2>1 DEF Half
  <2>3. Append(Body, Part) \in Seqs
    BY FourFiles, SeqsHas, LogAssumption DEF Part, LogAssumption
  <2> QED BY <1>2, <2>2, <2>3, FourFiles, Rewriting DEF Cuts
<1>3. CASE pc[p] = "index"
  <2>1. pc[p] \notin DOMAIN Ops
    BY <1>3, OpsAre
  <2>2. h = Rewritten(<<Part>>, Body)
    BY <1>3, <2>1 DEF Half
  <2> QED BY <1>3, <2>2, FourFiles, SeqsHas, Rewriting DEF Cuts
<1>4. CASE pc[p] = "mv"
  BY <1>4, OpsAre DEF Half, Cuts
<1>5. CASE /\ ~(pc[p] \in DOMAIN Ops /\ Ops[pc[p]].from # "none")
           /\ pc[p] \notin {"append", "index", "mv"}
  BY <1>5 DEF Half
<1> QED BY <1>1, <1>2, <1>3, <1>4, <1>5

\* After a crash: everything in memory is lost, and the files are as they were but for
\* the one that was being written.
LEMMA Crashed ==
    ASSUME Typed, Crash
    PROVE  /\ harm = {} /\ harm' = IF Bare THEN {"bare"} ELSE {}
           /\ pc'["user"] = "idle" /\ pc'["task"] = "wait"
           /\ file' = file \/ \E p \in Procs : file' \in Half(p)
           /\ tmp' \in {tmp, <<>>} /\ mem' = <<>> /\ init' = FALSE /\ idx' = 0
           /\ UNCHANGED <<rec, done, gone>>
BY DEF Crash, Procs

LEMMA TypedCrash == ASSUME Typed, Crash PROVE Typed'
<1>1. file' \in [Names -> Files]
  <2>1. CASE file' = file
    BY <2>1 DEF Typed, TypedFiles
  <2>2. ASSUME NEW p \in Procs, file' \in Half(p) PROVE file' \in [Names -> Files]
    <3>1. PICK n \in Names, f \in Files : Cuts(file', n, f)
      <4>1. /\ Append(Body, Part) \in Seqs /\ Body \in Seqs /\ Idx \in Seqs
            /\ <<Part>> \in Seqs
        BY FourFiles, SeqsHas, LogAssumption DEF Part, LogAssumption
      <4> QED BY <2>2, <4>1, Halves, Special, LogIsFile, FourFiles DEF Names
    <3> QED BY <3>1, Setting DEF Cuts, Sets
  <2> QED BY <2>1, <2>2, Crashed
<1>2. TypedFiles'
  BY <1>1, Crashed, SeqsHas, FourFiles DEF Typed, TypedFiles
<1>3. re' \in [Procs -> BOOLEAN]
  <2>1. re' = [q \in Procs |-> re'[q]] /\ re'["user"] = FALSE /\ re'["task"] = FALSE
    BY DEF Crash, Procs
  <2> QED BY <2>1 DEF Procs
<1>4. pc' = [q \in Procs |-> pc'[q]]
  BY DEF Crash, Procs
<1>5. TypedRun'
  BY <1>3, <1>4, Crashed DEF TypedRun
<1>6. env' \in 0..MaxEnv
  BY LogAssumption DEF Crash, Typed, TypedHist, LogAssumption
<1>7. "idle" \notin Writes
  BY DEF Writes, Before, Pre, Back
<1>8. TypedHist'
  BY <1>6, <1>7, Crashed DEF Typed, TypedHist
<1> QED BY <1>2, <1>5, <1>8 DEF Typed

LEMMA TypedStep == Typed /\ [Next]_vars => Typed'
<1> SUFFICES ASSUME Typed, [Next]_vars PROVE Typed'
  OBVIOUS
<1>1. ASSUME NEW p \in Procs, Check(p) \/ Operate(p) \/ Open(p) PROVE Typed'
  BY <1>1, TypedCheck, TypedOperate, TypedOpen
<1>2. CASE UNCHANGED vars
  BY <1>2 DEF vars, disk, run, hist, Typed, TypedFiles, TypedRun, TypedHist
<1> QED BY <1>1, <1>2, TypedWrite, TypedFlush, TypedStart, TypedCrash DEF Next, Procs

-----------------------------------------------------------------------------
(* The inductive invariant, part 1: while nothing has done harm, whatever  *)
(* file is half written at a power failure, the next start recovers what   *)
(* was kept, from the log or from its copy.                                *)

SumLike(f) == f = <<>> \/ f = NoSum \/ Fine(f)

Sound ==
    /\ SumLike(S) /\ SumLike(Z)
    /\ O = <<>> \/ O = Torn \/ Fine(O)
    /\ S = Empty => done = <<>>

BackUp == IF Sure THEN Good(O, done) ELSE done = <<>>

\* What check_abnormal_log, were it to run now, would go on with.
Recovers ==
    /\ L # <<>> /\ (S = <<>> \/ S = L) => Good(L, done)
    /\ ~Right => BackUp
    /\ L = <<>> /\ Sure => S # <<>>

Same == Right /\ O = L /\ Z = L
NoLog == L = <<>> \/ L = Empty
Fresh == done = <<>> /\ NoLog /\ S = <<>> /\ O = <<>>
MemIs(s) == mem = s /\ idx = Len(mem)

\* What a program finds when it stands at l.
At(l) ==
    /\ l = "mkSum" => L # <<>> /\ S = <<>>
    /\ l = "cpOld" => Right
    /\ l = "cpOldSum" => Right /\ O = L
    /\ l = "cpBack" => Sure /\ Good(O, done) /\ S # <<>>
    /\ l = "cpBackSum" => Sure /\ Good(O, done) /\ S # <<>> /\ L = O
    /\ l = "rmLog" => ~Sure /\ done = <<>>
    /\ l = "rmSum" => ~Sure /\ done = <<>> /\ NoLog
    /\ l = "rmOld" => ~Sure /\ done = <<>> /\ NoLog /\ S = <<>>
    /\ l = "rmOldSum" => Fresh
    /\ l = "open" => (Same /\ Good(L, done)) \/ Fresh
    /\ l = "room" => Good(L, done) /\ MemIs(IdxOf(L)) /\ (Same \/ Fresh)
    /\ l = "rm" => Good(L, done) /\ Same /\ Good(tmp, done) /\ IdxOf(tmp) = mem
    /\ l = "mv" => L = <<>> /\ S # <<>> /\ BackUp /\ Good(tmp, done) /\ IdxOf(tmp) = mem
    /\ l = "append" => Good(L, done) /\ MemIs(IdxOf(L)) /\ BackUp
    /\ l = "index" => /\ L = Log(mem, Append(mem, rec)) /\ idx = Len(mem) /\ BackUp
                      /\ Good(Log(Append(mem, rec), Append(mem, rec)), done)
    /\ l = "newSum" => Good(L, done) /\ mem = IdxOf(L) /\ BackUp
    /\ l = "end" => Right /\ Good(L, done) /\ mem = IdxOf(L)
    /\ l = "cut" => L # <<>> /\ IdxOf(L) = <<>> /\ mem = <<>> /\ done = <<>>
    /\ l \in Flushing \ {"cut"} => L = Empty /\ mem = <<>> /\ done = <<>>
    /\ l \in {"flOld", "flOldSum", "flEnd"} => S = <<>>
    /\ l \in {"flOldSum", "flEnd"} => O = <<>>

Alone == ~(Active("user") /\ Active("task"))

Clean == harm = {} => /\ Alone /\ Sound /\ (Bare \/ Recovers)
                      /\ At(pc["user"]) /\ At(pc["task"])

-----------------------------------------------------------------------------
(* Part 2: what is in the log and in its copy has not been removed by a    *)
(* flush, and is older than the record that is being written.              *)

Top == IF pc["user"] \in Before THEN rec - 1 ELSE rec
Under(f, top, g) == \A r \in Ranged(BodyOf(f)) : r <= top /\ r \notin g

Live == harm = {} =>
    /\ Under(L, Top, gone) /\ Under(O, Top, gone)
    /\ pc["user"] \in {"rm", "mv"} => Under(tmp, Top, gone)
    /\ pc["user"] \in Before => rec \notin gone

(* Part 3: once the log has been read or recovered it is not recovered     *)
(* again, and the index in memory is that of the log.                      *)

Fit == L # <<>> /\ (S = <<>> \/ S = L) /\ mem = IdxOf(L)

Known ==
    \/ init /\ pc["user"] \in Pre
    \/ harm = {} /\ pc["user"] \in Pre \cup {"idle"} /\ (init \/ pc["task"] = "ready")

Fitting == Known => Fit /\ pc["user"] \notin Back /\ pc["task"] \notin Back

(* Part 4: the index never outgrows its room.  It is full only in a log    *)
(* that was lost in a move, never in the copy of a log that is not full.   *)

LenOf(f) == Len(IdxOf(f))
Lower(f) == LenOf(f) < MaxRange

Bounded ==
    /\ Len(mem) <= MaxRange /\ idx <= MaxRange
    /\ LenOf(L) <= MaxRange /\ LenOf(O) <= MaxRange /\ LenOf(tmp) <= MaxRange
    /\ harm = {} \/ pc["user"] \in Pre => Lower(O) \/ LenOf(L) = 0 \/ LenOf(L) = MaxRange
    /\ pc["user"] \in {"rm", "mv"} => Lower(L) /\ Lower(O) /\ Len(mem) < MaxRange
    /\ pc["user"] = "room" /\ MovMax <= idx /\ idx < MaxRange => Lower(L) /\ Lower(O)
    /\ pc["user"] \in {"append", "index"} => idx < MaxRange
    /\ harm = {} /\ pc["user"] \in {"append", "index"} => Lower(O)

-----------------------------------------------------------------------------
LEMMA FilesNow ==
    ASSUME Typed, NEW f \in Files
    PROVE  /\ Sets("log", f) => L' = f /\ S' = S /\ O' = O /\ Z' = Z
           /\ Sets("sum", f) => L' = L /\ S' = f /\ O' = O /\ Z' = Z
           /\ Sets("old", f) => L' = L /\ S' = S /\ O' = f /\ Z' = Z
           /\ Sets("oldSum", f) => L' = L /\ S' = S /\ O' = O /\ Z' = f
BY DEF Typed, TypedFiles, Sets, L, S, O, Z, Names

LEMMA SameFiles == file' = file => L' = L /\ S' = S /\ O' = O /\ Z' = Z
BY DEF L, S, O, Z

LEMMA GoodFacts ==
    /\ \A f, d : Good(f, d) => f # <<>> /\ Fine(f)
    /\ \A f : Fine(f) => Good(f, <<>>) /\ f # <<>> /\ f # NoSum /\ f # Torn
    /\ \A d \in Seq(Nat) : Good(Empty, d) => d = <<>>
    /\ Good(Empty, <<>>) /\ Empty # <<>> /\ Torn # <<>> /\ NoSum # <<>> /\ Torn # NoSum
BY Special, KeptNone, NothingKept DEF Good, Fine

LEMMA DoneIsSeq == Typed => done \in Seq(Nat)
BY DEF Typed, TypedHist

LEMMA CleanStep ==      \* p goes on while the other program does nothing
    ASSUME Typed, Clean, NEW p \in Procs, NEW l, Goes(p, l),
           harm' = {} => /\ harm = {}
                         /\ \A q \in Procs : q # p => ~Active(q)
                         /\ Sound' /\ (Bare \/ Recovers)' /\ At(l)'
    PROVE  Clean'
<1> SUFFICES ASSUME harm' = {}
             PROVE  /\ Alone' /\ Sound' /\ (Bare \/ Recovers)'
                    /\ At(pc["user"])' /\ At(pc["task"])'
  BY DEF Clean
<1>1. PICK q \in Procs : q # p /\ ~Active(q) /\ Procs = {p, q}
  BY DEF Procs
<1>2. pc'[p] = l /\ pc'[q] = pc[q] /\ pc[q] \in {"idle", "wait", "ready"}
  BY <1>1, Going DEF Active
<1>3. Alone'
  BY <1>1, <1>2 DEF Alone, Active, Procs
<1>4. CASE p = "user"
  <2>1. pc'["user"] = l /\ pc'["task"] \in {"idle", "wait", "ready"}
    BY <1>1, <1>2, <1>4 DEF Procs
  <2> QED BY <1>3, <2>1 DEF At, Flushing
<1>5. CASE p = "task"
  <2>1. pc'["task"] = l /\ pc'["user"] \in {"idle", "wait", "ready"}
    BY <1>1, <1>2, <1>5 DEF Procs
  <2> QED BY <1>3, <2>1 DEF At, Flushing
<1> QED BY <1>4, <1>5 DEF Procs

LEMMA Standing ==
    ASSUME Typed, Clean, harm = {}, NEW p \in Procs, Active(p)
    PROVE  /\ \A q \in Procs : q # p => ~Active(q)
           /\ Sound /\ At(pc[p])
           /\ pc[p] \notin {"append", "index", "cut"} => Recovers
<1>1. Alone /\ Sound /\ (Bare \/ Recovers) /\ At(pc["user"]) /\ At(pc["task"])
  BY DEF Clean
<1>2. \A q \in Procs : q # p => ~Active(q)
  BY <1>1 DEF Alone, Procs
<1>3. pc[p] \notin {"append", "index", "cut"} => ~Bare
  BY <1>2 DEF Bare, Procs, Active
<1> QED BY <1>1, <1>2, <1>3 DEF Procs

LEMMA CleanOperate == ASSUME Typed, Clean, NEW p \in Procs, Operate(p) PROVE Clean'
<1>1. UNCHANGED <<tmp, mem, idx, rec, done, harm>>
  BY Operations
<1>2. SUFFICES ASSUME harm = {} PROVE Clean'
  BY <1>1 DEF Clean
<1>3. Active(p)
  BY Operations DEF Turn, Active
<1>4. /\ \A q \in Procs : q # p => ~Active(q)
      /\ Sound /\ At(pc[p])
      /\ pc[p] \notin {"append", "index", "cut"} => Recovers
  BY <1>2, <1>3, Standing
<1>5. done \in Seq(Nat)
  BY DoneIsSeq
<1> DEFINE Fits(l) == Goes(p, l) /\ Sound' /\ Recovers' /\ At(l)'
<1>6. ASSUME NEW l, Fits(l) PROVE Clean'
  BY <1>1, <1>4, <1>6, CleanStep
<1> HIDE DEF Fits
<1>7. CASE Turn(p, "mkSum", "sum", L, "cpOld")
  <2>1. /\ pc[p] = "mkSum" /\ Goes(p, "cpOld")
        /\ L' = L /\ S' = L /\ O' = O /\ Z' = Z
    BY <1>7, FilesNow, FourFiles DEF Turn
  <2>2. Sound' /\ Recovers' /\ At("cpOld")'
    BY <1>1, <1>4, <1>5, <2>1, GoodFacts
       DEF Sound, SumLike, Recovers, Right, Sure, BackUp, At, Same, NoLog, Fresh, Flushing
  <2> QED BY <1>6, <2>1, <2>2 DEF Fits
<1>8. CASE Turn(p, "cpOld", "old", L, "cpOldSum")
  <2>1. /\ pc[p] = "cpOld" /\ Goes(p, "cpOldSum")
        /\ L' = L /\ S' = S /\ O' = L /\ Z' = Z
    BY <1>8, FilesNow, FourFiles DEF Turn
  <2>2. Sound' /\ Recovers' /\ At("cpOldSum")'
    BY <1>1, <1>4, <1>5, <2>1, GoodFacts
       DEF Sound, SumLike, Recovers, Right, Sure, BackUp, At, Same, NoLog, Fresh, Flushing
  <2> QED BY <1>6, <2>1, <2>2 DEF Fits
<1>9. CASE Turn(p, "cpOldSum", "oldSum", IF S = <<>> THEN Z ELSE S, "open")
  <2>1. /\ pc[p] = "cpOldSum" /\ Goes(p, "open")
        /\ L' = L /\ S' = S /\ O' = O /\ Z' = (IF S = <<>> THEN Z ELSE S)
    BY <1>9, FilesNow, FourFiles DEF Turn
  <2>2. Sound' /\ Recovers' /\ At("open")'
    BY <1>1, <1>4, <1>5, <2>1, GoodFacts
       DEF Sound, SumLike, Recovers, Right, Sure, BackUp, At, Same, NoLog, Fresh, Flushing
  <2> QED BY <1>6, <2>1, <2>2 DEF Fits
<1>10. CASE Turn(p, "cpBack", "log", IF O = <<>> THEN L ELSE O, "cpBackSum")
  <2>1. /\ pc[p] = "cpBack" /\ Goes(p, "cpBackSum")
        /\ L' = (IF O = <<>> THEN L ELSE O) /\ S' = S /\ O' = O /\ Z' = Z
    BY <1>10, FilesNow, FourFiles DEF Turn
  <2>2. Sound' /\ Recovers' /\ At("cpBackSum")'
    BY <1>1, <1>4, <1>5, <2>1, GoodFacts
       DEF Sound, SumLike, Recovers, Right, Sure, BackUp, At, Same, NoLog, Fresh, Flushing
  <2> QED BY <1>6, <2>1, <2>2 DEF Fits
<1>11. CASE Turn(p, "cpBackSum", "sum", IF Z = <<>> THEN S ELSE Z, "open")
  <2>1. /\ pc[p] = "cpBackSum" /\ Goes(p, "open")
        /\ L' = L /\ S' = (IF Z = <<>> THEN S ELSE Z) /\ O' = O /\ Z' = Z
    BY <1>11, FilesNow, FourFiles DEF Turn
  <2>2. Sound' /\ Recovers' /\ At("open")'
    BY <1>1, <1>4, <1>5, <2>1, GoodFacts
       DEF Sound, SumLike, Recovers, Right, Sure, BackUp, At, Same, NoLog, Fresh, Flushing
  <2> QED BY <1>6, <2>1, <2>2 DEF Fits
<1>12. CASE Turn(p, "rmLog", "log", <<>>, "rmSum")
  <2>1. /\ pc[p] = "rmLog" /\ Goes(p, "rmSum")
        /\ L' = <<>> /\ S' = S /\ O' = O /\ Z' = Z
    BY <1>12, FilesNow, FourFiles DEF Turn
  <2>2. Sound' /\ Recovers' /\ At("rmSum")'
    BY <1>1, <1>4, <1>5, <2>1, GoodFacts
       DEF Sound, SumLike, Recovers, Right, Sure, BackUp, At, Same, NoLog, Fresh, Flushing
  <2> QED BY <1>6, <2>1, <2>2 DEF Fits
<1>13. CASE Turn(p, "rmSum", "sum", <<>>, "rmOld")
  <2>1. /\ pc[p] = "rmSum" /\ Goes(p, "rmOld")
        /\ L' = L /\ S' = <<>> /\ O' = O /\ Z' = Z
    BY <1>13, FilesNow, FourFiles DEF Turn
  <2>2. Sound' /\ Recovers' /\ At("rmOld")'
    BY <1>1, <1>4, <1>5, <2>1, GoodFacts
       DEF Sound, SumLike, Recovers, Right, Sure, BackUp, At, Same, NoLog, Fresh, Flushing
  <2> QED BY <1>6, <2>1, <2>2 DEF Fits
<1>14. CASE Turn(p, "rmOld", "old", <<>>, "rmOldSum")
  <2>1. /\ pc[p] = "rmOld" /\ Goes(p, "rmOldSum")
        /\ L' = L /\ S' = S /\ O' = <<>> /\ Z' = Z
    BY <1>14, FilesNow, FourFiles DEF Turn
  <2>2. Sound' /\ Recovers' /\ At("rmOldSum")'
    BY <1>1, <1>4, <1>5, <2>1, GoodFacts
       DEF Sound, SumLike, Recovers, Right, Sure, BackUp, At, Same, NoLog, Fresh, Flushing
  <2> QED BY <1>6, <2>1, <2>2 DEF Fits
<1>15. CASE Turn(p, "rmOldSum", "oldSum", <<>>, "open")
  <2>1. /\ pc[p] = "rmOldSum" /\ Goes(p, "open")
        /\ L' = L /\ S' = S /\ O' = O /\ Z' = <<>>
    BY <1>15, FilesNow, FourFiles DEF Turn
  <2>2. Sound' /\ Recovers' /\ At("open")'
    BY <1>1, <1>4, <1>5, <2>1, GoodFacts
       DEF Sound, SumLike, Recovers, Right, Sure, BackUp, At, Same, NoLog, Fresh, Flushing
  <2> QED BY <1>6, <2>1, <2>2 DEF Fits
<1>16. CASE Turn(p, "flSum", "sum", <<>>, "flOld")
  <2>1. /\ pc[p] = "flSum" /\ Goes(p, "flOld")
        /\ L' = L /\ S' = <<>> /\ O' = O /\ Z' = Z
    BY <1>16, FilesNow, FourFiles DEF Turn
  <2>2. Sound' /\ Recovers' /\ At("flOld")'
    BY <1>1, <1>4, <1>5, <2>1, GoodFacts
       DEF Sound, SumLike, Recovers, Right, Sure, BackUp, At, Same, NoLog, Fresh, Flushing
  <2> QED BY <1>6, <2>1, <2>2 DEF Fits
<1>17. CASE Turn(p, "flOld", "old", <<>>, "flOldSum")
  <2>1. /\ pc[p] = "flOld" /\ Goes(p, "flOldSum")
        /\ L' = L /\ S' = S /\ O' = <<>> /\ Z' = Z
    BY <1>17, FilesNow, FourFiles DEF Turn
  <2>2. Sound' /\ Recovers' /\ At("flOldSum")'
    BY <1>1, <1>4, <1>5, <2>1, GoodFacts
       DEF Sound, SumLike, Recovers, Right, Sure, BackUp, At, Same, NoLog, Fresh, Flushing
  <2> QED BY <1>6, <2>1, <2>2 DEF Fits
<1>18. CASE Turn(p, "flOldSum", "oldSum", <<>>, "flEnd")
  <2>1. /\ pc[p] = "flOldSum" /\ Goes(p, "flEnd")
        /\ L' = L /\ S' = S /\ O' = O /\ Z' = <<>>
    BY <1>18, FilesNow, FourFiles DEF Turn
  <2>2. Sound' /\ Recovers' /\ At("flEnd")'
    BY <1>1, <1>4, <1>5, <2>1, GoodFacts
       DEF Sound, SumLike, Recovers, Right, Sure, BackUp, At, Same, NoLog, Fresh, Flushing
  <2> QED BY <1>6, <2>1, <2>2 DEF Fits
<1>19. CASE Turn(p, "newSum", "sum", L, "end")
  <2>1. /\ pc[p] = "newSum" /\ Goes(p, "end")
        /\ L' = L /\ S' = L /\ O' = O /\ Z' = Z
    BY <1>19, FilesNow, FourFiles DEF Turn
  <2>2. Sound' /\ Recovers' /\ At("end")'
    BY <1>1, <1>4, <1>5, <2>1, GoodFacts
       DEF Sound, SumLike, Recovers, Right, Sure, BackUp, At, Same, NoLog, Fresh, Flushing
  <2> QED BY <1>6, <2>1, <2>2 DEF Fits
<1> QED BY <1>7, <1>8, <1>9, <1>10, <1>11, <1>12, <1>13, <1>14, <1>15, <1>16, <1>17, <1>18, <1>19, Operations

LEMMA CleanCheck == ASSUME Typed, Clean, NEW p \in Procs, Check(p) PROVE Clean'
<1>1. UNCHANGED <<file, tmp, mem, idx, rec, done, harm>> /\ pc[p] = "check" /\ Active(p)
  BY DEF Check, disk, hist, Active
<1>2. SUFFICES ASSUME harm = {} PROVE Clean'
  BY <1>1 DEF Clean
<1>3. L' = L /\ S' = S /\ O' = O /\ Z' = Z
  BY <1>1, SameFiles
<1>4. (\A q \in Procs : q # p => ~Active(q)) /\ Sound /\ Recovers
  BY <1>1, <1>2, Standing
<1>5. PICK l \in {"mkSum", "cpOld", "cpBack", "rmLog"} : Goes(p, l) /\ l = Remedy
  BY Checked DEF Check
<1>6. Sound' /\ Recovers'
  BY <1>1, <1>3, <1>4 DEF Sound, Recovers, Right, Sure, BackUp
<1>7. At(l)'
  <2>1. /\ l = "mkSum" => L # <<>> /\ S = <<>>
        /\ l = "cpOld" => Right
        /\ l = "cpBack" => Sure /\ BackUp /\ S # <<>>
        /\ l = "rmLog" => ~Sure /\ BackUp
    BY <1>4, <1>5, Checked DEF Recovers
  <2> QED BY <1>1, <1>3, <1>5, <2>1 DEF At, Right, Sure, BackUp, Flushing
<1> QED BY <1>1, <1>2, <1>4, <1>5, <1>6, <1>7, CleanStep

LEMMA CleanOpen == ASSUME Typed, Clean, Fitting, NEW p \in Procs, Open(p) PROVE Clean'
<1>1. UNCHANGED <<tmp, rec, done, harm>> /\ pc[p] = "open" /\ Active(p)
  BY DEF Open, hist, Active
<1>2. SUFFICES ASSUME harm = {} PROVE Clean'
  BY <1>1 DEF Clean
<1>3. /\ \A q \in Procs : q # p => ~Active(q)
      /\ Sound /\ Recovers /\ ((Same /\ Good(L, done)) \/ Fresh)
  <2>1. (\A q \in Procs : q # p => ~Active(q)) /\ Sound /\ At("open") /\ Recovers
    BY <1>1, <1>2, Standing
  <2> QED BY <2>1 DEF At
<1>4. p = "user" /\ init => mem = IdxOf(L)
  BY <1>1 DEF Fitting, Fit, Known, Pre
<1>5. /\ L' = IF L = <<>> THEN Empty ELSE L
      /\ S' = S /\ O' = O /\ Z' = Z /\ Good(L', done) /\ (Same \/ Fresh)'
  <2>1. CASE L = <<>>
    <3>1. Sets("log", Empty)
      BY <2>1 DEF Open, Sets, L
    <3>2. L' = Empty /\ S' = S /\ O' = O /\ Z' = Z
      BY <3>1, FilesNow, Special
    <3> QED BY <1>1, <1>3, <2>1, <3>2, GoodFacts DEF Same, Fresh, NoLog, Right
  <2>2. CASE L # <<>>
    <3>1. L' = L /\ S' = S /\ O' = O /\ Z' = Z
      BY <2>2, SameFiles DEF Open, L
    <3> QED BY <1>1, <1>3, <2>2, <3>1, GoodFacts DEF Same, Fresh, NoLog, Right
  <2> QED BY <2>1, <2>2
<1>6. Sound' /\ Recovers'
  BY <1>1, <1>3, <1>5, GoodFacts DEF Sound, Recovers, Right, Sure, BackUp, Same, Fresh, NoLog
<1>7. CASE p = "user"
  <2>1. mem' = IdxOf(L') /\ idx' = Len(mem')
    BY <1>4, <1>5, <1>7, FourFiles, Special DEF Open, L
  <2>2. At("room")'
    BY <1>1, <1>5, <2>1 DEF At, MemIs, Flushing
  <2> QED BY <1>1, <1>2, <1>3, <1>6, <1>7, <2>2, CleanStep DEF Open
<1>8. CASE p = "task"
  <2>1. At("ready")'
    BY DEF At, Flushing
  <2> QED BY <1>1, <1>2, <1>3, <1>6, <1>8, <2>1, CleanStep DEF Open
<1> QED BY <1>7, <1>8 DEF Procs

\* The steps of the writer: p is "user", and LOG_Task does nothing meanwhile.
LEMMA CleanUser ==
    ASSUME Typed, Clean, Active("user"), NEW l, Goes("user", l),
           harm' = {} => harm = {} /\ (Sound /\ (Bare \/ Recovers) /\ At(pc["user"])
                                         => Sound' /\ (Bare \/ Recovers)' /\ At(l)')
    PROVE  Clean'
<1>1. "user" \in Procs
  BY DEF Procs
<1>2. harm = {} => /\ \A q \in Procs : q # "user" => ~Active(q)
                   /\ Sound /\ (Bare \/ Recovers) /\ At(pc["user"])
  BY <1>1, Standing DEF Clean
<1> QED BY <1>1, <1>2, CleanStep

\* Newest of a whole log that is long enough keeps what the log kept.
LEMMA NewestGood ==
    ASSUME Typed, NEW f \in Files, Good(f, done), Len(IdxOf(f)) >= Keep
    PROVE  Good(Log(Newest(IdxOf(f)), Newest(BodyOf(f))), done)
<1>1. BodyOf(f) \in Seqs /\ IdxOf(f) = BodyOf(f) /\ Sorted(BodyOf(f)) /\ KeptOf(BodyOf(f), done)
  BY FileForm DEF Good, Fine
<1>2. Sorted(Newest(BodyOf(f))) /\ KeptOf(Newest(BodyOf(f)), done)
  BY <1>1, DoneIsSeq, NewestKeeps
<1> QED BY <1>1, <1>2, LogFacts DEF Good, Fine

LEMMA CleanMove == ASSUME Typed, Clean, Move \/ MoveFails PROVE Clean'
<1>1. /\ pc["user"] = "room" /\ MovMax <= idx /\ Active("user")
      /\ UNCHANGED <<file, idx, rec, done>>
  BY DEF Move, MoveFails, Active
<1>2. L' = L /\ S' = S /\ O' = O /\ Z' = Z
  BY <1>1, SameFiles
<1>3. SUFFICES ASSUME harm' = {}, Sound, Bare \/ Recovers, At("room"),
                      NEW l, Goes("user", l), (Move /\ l = "rm") \/ (MoveFails /\ l = "append")
               PROVE  harm = {} /\ Sound' /\ (Bare \/ Recovers)' /\ At(l)'
  <2>1. \E l : Goes("user", l) /\ ((Move /\ l = "rm") \/ (MoveFails /\ l = "append"))
    BY DEF Move, MoveFails
  <2>2. harm' = {} => harm = {}
    BY DEF Move, MoveFails
  <2> QED BY <1>1, <1>3, <2>1, <2>2, CleanUser
<1>4. harm = {} /\ Recovers
  BY <1>1, <1>3 DEF Move, MoveFails, Bare
<1>5. Sound' /\ Recovers'
  BY <1>1, <1>2, <1>3, <1>4 DEF Sound, Recovers, Right, Sure, BackUp
<1>6. Good(L, done) /\ MemIs(IdxOf(L)) /\ (Same \/ Fresh)
  BY <1>3 DEF At
<1>7. Same
  <2>1. Len(IdxOf(L)) >= MovMax /\ MovMax > 0 /\ MovMax \in Nat
    BY <1>1, <1>6, LogAssumption DEF MemIs, LogAssumption
  <2>2. Len(<<>>) = 0
    OBVIOUS
  <2> QED BY <1>6, <2>1, <2>2, Special DEF Fresh, NoLog, Good, Fine
<1>8. CASE Move /\ l = "rm"
  <2>1. Len(IdxOf(L)) >= Keep
    BY <1>1, <1>6, LogAssumption, FourFiles, SeqForm DEF MemIs, LogAssumption, Typed, TypedRun
  <2>2. Good(Log(Newest(IdxOf(L)), Newest(BodyOf(L))), done)
    BY <1>6, <2>1, NewestGood, FourFiles
  <2>3. mem' = Newest(mem) /\ tmp' = Log(mem', Newest(BodyOf(L)))
    <3>1. harm' = harm \cup {"move"} => FALSE
      BY <1>3
    <3> QED BY <1>8, <3>1, FourFiles DEF Move
  <2>4. mem' = Newest(IdxOf(L)) /\ Good(tmp', done) /\ IdxOf(tmp') = mem'
    BY <1>6, <2>2, <2>3, LogFacts DEF MemIs
  <2>5. At("rm")'
    BY <1>1, <1>2, <1>6, <1>7, <2>4 DEF At, Same, Right, Flushing
  <2> QED BY <1>4, <1>5, <1>8, <2>5
<1>9. CASE MoveFails /\ l = "append"
  <2>1. mem' = mem
    <3>1. harm' = harm \cup {"move"} => FALSE
      BY <1>3
    <3> QED BY <1>9, <3>1 DEF MoveFails
  <2>2. At("append")'
    BY <1>1, <1>2, <1>6, <1>7, <2>1, GoodFacts
       DEF At, Same, Right, Sure, BackUp, MemIs, Flushing
  <2> QED BY <1>4, <1>5, <1>9, <2>2
<1> QED BY <1>3, <1>8, <1>9

LEMMA CleanAppend == ASSUME Typed, Clean, Live, AppendPkt PROVE Clean'
<1>1. /\ pc["user"] = "append" /\ Active("user") /\ Goes("user", "index")
      /\ UNCHANGED <<tmp, mem, idx, rec, done, harm>>
  BY DEF AppendPkt, Active, hist
<1>2. SUFFICES ASSUME harm = {}, Sound, Bare \/ Recovers, At("append")
               PROVE  Sound' /\ (Bare \/ Recovers)' /\ At("index")'
  BY <1>1, <1>2, CleanUser
<1>3. /\ Good(L, done) /\ mem = IdxOf(L) /\ idx = Len(mem) /\ BackUp
      /\ mem = BodyOf(L) /\ Sorted(mem) /\ KeptOf(mem, done) /\ mem \in Seqs /\ L # <<>>
  BY <1>2, FourFiles, GoodFacts DEF At, MemIs, Good, Fine
<1> DEFINE t == Append(mem, rec)
<1>4. t \in Seqs /\ t # <<>> /\ t # mem
  <2>1. rec \in 0..MaxRec /\ Len(mem) \in Nat
    BY <1>3, SeqForm DEF Typed, TypedHist
  <2>2. t \in Seqs /\ Len(t) = Len(mem) + 1
    BY <1>3, <2>1, SeqsHas
  <2>3. Len(<<>>) = 0
    OBVIOUS
  <2> QED BY <2>1, <2>2, <2>3
<1>5. Good(Log(t, t), done)
  <2>1. \A k \in Ranged(mem) : k < rec
    <3>1. \A k \in Ranged(BodyOf(L)) : k <= rec - 1
      BY <1>1, <1>2 DEF Live, Under, Top, Before
    <3>2. \A k \in Ranged(mem) : k \in Nat
      BY <1>3, SeqForm DEF Ranged
    <3> QED BY <1>3, <3>1, <3>2 DEF Typed, TypedHist
  <2>2. rec \in 0..MaxRec /\ rec \in Nat
    BY LogAssumption DEF Typed, TypedHist, LogAssumption
  <2>3. Sorted(t) /\ KeptOf(t, done)
    BY <1>3, <2>1, <2>2, DoneIsSeq, AppendKeeps
  <2> QED BY <2>3, LogFacts DEF Good, Fine
<1>6. L' = Log(mem, t) /\ S' = S /\ O' = O /\ Z' = Z
  <2>1. Sets("log", Log(mem, t))
    BY <1>3, <1>4, FourFiles, Rewriting DEF AppendPkt, Sets
  <2> QED BY <1>3, <1>4, <2>1, FilesNow, LogIsFile
<1> HIDE DEF t
<1>7. L' # <<>> /\ L' # NoSum /\ ~Fine(L')
  BY <1>4, <1>6, LogFacts, Special DEF Fine
<1>8. Sound' /\ (Bare \/ Recovers)'
  <2>1. pc'["user"] = "index"
    BY <1>1, Going DEF Procs
  <2> QED BY <1>1, <1>2, <1>3, <1>6, <1>7, <2>1
          DEF Sound, SumLike, Recovers, Right, Sure, BackUp, Bare, S
<1>9. At("index")'
  BY <1>1, <1>3, <1>5, <1>6 DEF At, BackUp, Sure, Flushing, t
<1> QED BY <1>8, <1>9

LEMMA CleanIndex == ASSUME Typed, Clean, Index PROVE Clean'
<1>1. /\ pc["user"] = "index" /\ Active("user") /\ Goes("user", "newSum")
      /\ UNCHANGED <<tmp, idx, rec, done, harm>>
  BY DEF Index, Active, hist
<1>2. SUFFICES ASSUME harm = {}, Sound, Bare \/ Recovers, At("index")
               PROVE  Sound' /\ (Bare \/ Recovers)' /\ At("newSum")'
  BY <1>1, <1>2, CleanUser
<1> DEFINE t == Append(mem, rec)
<1>3. L = Log(mem, t) /\ idx = Len(mem) /\ BackUp /\ Good(Log(t, t), done)
  BY <1>2 DEF At
<1>4. mem' = t /\ t \in Seqs
  <2>1. mem \in Seqs /\ rec \in 0..MaxRec
    BY DEF Typed, TypedFiles, TypedHist
  <2> QED BY <1>3, <2>1, PutIsAppend, SeqsHas DEF Index
<1>5. L' = Log(t, t) /\ S' = S /\ O' = O /\ Z' = Z
  <2>1. L # <<>> /\ Body = t
    BY <1>3, LogFacts, FourFiles
  <2>2. Sets("log", Log(t, t))
    BY <1>4, <2>1, Rewriting DEF Index, Sets
  <2> QED BY <1>4, <2>2, FilesNow, LogIsFile
<1> HIDE DEF t
<1>6. Sound' /\ Recovers'
  BY <1>1, <1>2, <1>3, <1>5, GoodFacts
     DEF Sound, SumLike, Recovers, Right, Sure, BackUp
<1>7. At("newSum")'
  BY <1>1, <1>3, <1>4, <1>5, LogFacts DEF At, BackUp, Sure, Flushing
<1> QED BY <1>6, <1>7

LEMMA CleanWrite == ASSUME Typed, Clean, Live, Wr_Alm_Pkt_to_log PROVE Clean'
<1> USE DEF Procs
<1>1. CASE Begin
  <2>1. L' = L /\ S' = S /\ O' = O /\ Z' = Z
    BY <1>1, SameFiles DEF Begin, disk
  <2>2. SUFFICES ASSUME harm' = {} PROVE Clean'
    BY DEF Clean
  <2>3. harm = {} /\ ~Active("user") /\ ~Active("task")
    BY <1>1, <2>2 DEF Begin, Meets
  <2>4. Sound /\ Recovers
    BY <2>3 DEF Clean, Bare, Active
  <2>5. Sound' /\ Recovers' /\ At("check")'
    BY <1>1, <2>1, <2>4 DEF Begin, Sound, Recovers, Right, Sure, BackUp, At, Flushing
  <2> QED BY <1>1, <2>3, <2>5, CleanStep DEF Begin
<1>2. CASE Clear
  BY <1>2 DEF Clear, Clean
<1>3. CASE HasRoom
  <2>1. L' = L /\ S' = S /\ O' = O /\ Z' = Z
    BY <1>3, SameFiles DEF HasRoom, disk
  <2>2. Active("user") /\ Goes("user", "append") /\ harm' = harm
    BY <1>3 DEF HasRoom, Active, hist
  <2>3. ASSUME Sound, Bare \/ Recovers, At("room")
        PROVE  Sound' /\ (Bare \/ Recovers)' /\ At("append")'
    <3>1. Good(L, done) /\ MemIs(IdxOf(L)) /\ (Same \/ Fresh) /\ Recovers
      BY <1>3, <2>3 DEF At, HasRoom, Bare
    <3>2. Sound' /\ Recovers'
      BY <1>3, <2>1, <2>3, <3>1 DEF HasRoom, hist, Sound, Recovers, Right, Sure, BackUp
    <3>3. At("append")'
      BY <1>3, <2>1, <3>1, GoodFacts
         DEF HasRoom, hist, At, Same, Fresh, Right, Sure, BackUp, MemIs, Flushing
    <3> QED BY <3>2, <3>3
  <2> QED BY <1>3, <2>2, <2>3, CleanUser DEF HasRoom
<1>4. CASE Move \/ MoveFails
  BY <1>4, CleanMove
<1>5. CASE Remove
  <2>1. L' = <<>> /\ S' = S /\ O' = O /\ Z' = Z
    BY <1>5, FilesNow, FourFiles DEF Remove, Sets
  <2>2. Active("user") /\ Goes("user", "mv") /\ harm' = harm
    BY <1>5 DEF Remove, Active, hist
  <2>3. ASSUME Sound, Bare \/ Recovers, At("rm")
        PROVE  Sound' /\ (Bare \/ Recovers)' /\ At("mv")'
    BY <1>5, <2>1, <2>3, GoodFacts
       DEF Remove, hist, Sound, Recovers, Right, Sure, BackUp, At, Same, Bare, Flushing
  <2> QED BY <1>5, <2>2, <2>3, CleanUser DEF Remove
<1>6. CASE Place
  <2>1. L' = tmp /\ S' = S /\ O' = O /\ Z' = Z
    BY <1>6, FilesNow DEF Place, Sets, Typed, TypedFiles
  <2>2. Active("user") /\ Goes("user", "append") /\ harm' = harm
    BY <1>6 DEF Place, Active, hist
  <2>3. ASSUME Sound, Bare \/ Recovers, At("mv")
        PROVE  Sound' /\ (Bare \/ Recovers)' /\ At("append")'
    BY <1>6, <2>1, <2>3, GoodFacts
       DEF Place, hist, Sound, Recovers, Right, Sure, BackUp, At, MemIs, Flushing
  <2> QED BY <1>6, <2>2, <2>3, CleanUser DEF Place
<1>7. CASE AppendPkt
  BY <1>7, CleanAppend
<1>8. CASE AppendFails
  <2>1. L' = L /\ S' = S /\ O' = O /\ Z' = Z
    BY <1>8, SameFiles DEF AppendFails, disk
  <2>2. Active("user") /\ Goes("user", "newSum") /\ harm' = harm
    BY <1>8 DEF AppendFails, Active, hist
  <2>3. ASSUME Sound, Bare \/ Recovers, At("append")
        PROVE  Sound' /\ (Bare \/ Recovers)' /\ At("newSum")'
    BY <1>8, <2>1, <2>3, GoodFacts
       DEF AppendFails, hist, Sound, Recovers, Right, Sure, BackUp, At, MemIs, Flushing
  <2> QED BY <1>8, <2>2, <2>3, CleanUser DEF AppendFails
<1>9. CASE Index
  BY <1>9, CleanIndex
<1>10. CASE Written
  <2>1. L' = L /\ S' = S /\ O' = O /\ Z' = Z
    BY <1>10, SameFiles DEF Written, disk
  <2>2. Active("user") /\ Goes("user", "idle") /\ harm' = harm
    BY <1>10 DEF Written, Active
  <2>3. ASSUME Sound, Bare \/ Recovers, At("end")
        PROVE  Sound' /\ (Bare \/ Recovers)' /\ At("idle")'
    <3>1. Right /\ Good(L, done)
      BY <2>3 DEF At
    <3>2. Good(L, done') /\ done' \in Seq(Nat)
      <4>1. done \in Seq(Nat) /\ rec \in Nat
        BY LogAssumption DEF Typed, TypedHist, LogAssumption
      <4>2. CASE rec \in Ranged(Body)
        <5>1. done' = Append(done, rec)
          BY <1>10, <4>2 DEF Written
        <5>2. KeptOf(BodyOf(L), done')
          BY <3>1, <4>1, <4>2, <5>1, WrittenKept, FourFiles DEF Good
        <5> QED BY <3>1, <4>1, <5>1, <5>2 DEF Good
      <4>3. CASE rec \notin Ranged(Body)
        BY <1>10, <3>1, <4>1, <4>3 DEF Written
      <4> QED BY <4>2, <4>3
    <3>3. Sound' /\ Recovers'
      BY <2>1, <2>3, <3>1, <3>2, GoodFacts DEF Sound, Recovers, Right, Sure, BackUp
    <3> QED BY <3>3 DEF At, Flushing
  <2> QED BY <1>10, <2>2, <2>3, CleanUser DEF Written
<1> QED BY <1>1, <1>2, <1>3, <1>4, <1>5, <1>6, <1>7, <1>8, <1>9, <1>10
        DEF Wr_Alm_Pkt_to_log

\* Whatever copy is left of the log before, a flush may go back to it.
LEMMA NothingLost == Sound /\ done = <<>> => BackUp
BY GoodFacts DEF Sound, SumLike, Sure, BackUp

LEMMA CleanFlush == ASSUME Typed, Clean, Flush \/ Cut \/ Flushes PROVE Clean'
<1> USE DEF Procs
<1>1. CASE Flush
  <2>1. /\ Sets("log", Log(<<>>, Body)) /\ Log(<<>>, Body) \in Files
        /\ Log(<<>>, Body) # <<>> /\ IdxOf(Log(<<>>, Body)) = <<>>
    BY <1>1, FourFiles, LogIsFile, SeqsHas, LogFacts DEF Flush, Sets
  <2>2. L' # <<>> /\ IdxOf(L') = <<>> /\ S' = S /\ O' = O /\ Z' = Z
    BY <2>1, FilesNow
  <2>3. SUFFICES ASSUME harm' = {} PROVE Clean'
    BY DEF Clean
  <2>4. harm = {} /\ ~Active("user") /\ ~Active("task")
    BY <1>1, <2>3 DEF Flush, Meets
  <2>5. Sound
    BY <2>4 DEF Clean
  <2>6. Sound'
    BY <1>1, <2>2, <2>5 DEF Flush, Sound
  <2>7. Recovers' \/ Bare'
    <3>1. pc'["user"] = "cut"
      BY <1>1, Going DEF Flush
    <3>2. CASE S = <<>>
      BY <2>2, <3>1, <3>2 DEF Bare, S
    <3>3. CASE S # <<>>
      <4>1. BackUp'
        BY <1>1, <2>6, GoodFacts DEF Flush, Sound, SumLike, Sure, BackUp
      <4>2. S' = L' => Fine(L')
        BY <2>2, <2>5, <3>3, Special DEF Sound, SumLike
      <4> QED BY <1>1, <2>2, <3>3, <4>1, <4>2, GoodFacts DEF Flush, Recovers
    <3> QED BY <3>2, <3>3
  <2>8. At("cut")'
    BY <1>1, <2>2 DEF Flush, At, Flushing
  <2> QED BY <1>1, <2>4, <2>6, <2>7, <2>8, CleanStep DEF Flush
<1>2. CASE Cut
  <2>1. Active("user") /\ Goes("user", "flSum") /\ harm' = harm
    BY <1>2 DEF Cut, Active, hist
  <2>2. ASSUME Sound, Bare \/ Recovers, At("cut")
        PROVE  Sound' /\ (Bare \/ Recovers)' /\ At("flSum")'
    <3>1. L # <<>> /\ IdxOf(L) = <<>> /\ mem = <<>> /\ done = <<>>
      BY <2>2 DEF At
    <3>2. Sets("log", Empty)
      BY <1>2, <3>1, FourFiles, Rewriting, SeqsHas DEF Cut, Sets, Empty
    <3>3. L' = Empty /\ S' = S /\ O' = O /\ Z' = Z /\ done' = <<>> /\ mem' = <<>>
      BY <1>2, <3>1, <3>2, FilesNow, Special DEF Cut, hist
    <3>4. Sound' /\ BackUp'
      BY <2>2, <3>1, <3>3, NothingLost DEF Sound, BackUp, Sure
    <3> QED BY <3>3, <3>4, GoodFacts DEF Recovers, At, Flushing
  <2> QED BY <1>2, <2>1, <2>2, CleanUser DEF Cut
<1>3. CASE Flushes
  <2>1. L' = L /\ S' = S /\ O' = O /\ Z' = Z
    BY <1>3, SameFiles DEF Flushes, disk
  <2>2. Active("user") /\ Goes("user", "idle") /\ harm' = harm
    BY <1>3 DEF Flushes, Active
  <2>3. ASSUME Sound, Bare \/ Recovers, At("flEnd")
        PROVE  Sound' /\ (Bare \/ Recovers)' /\ At("idle")'
    BY <1>3, <2>1, <2>3 DEF Flushes, Sound, Recovers, Right, Sure, BackUp, Bare, At, Flushing
  <2> QED BY <1>3, <2>2, <2>3, CleanUser DEF Flushes
<1> QED BY <1>1, <1>2, <1>3

LEMMA CleanStart == ASSUME Typed, Clean, Start PROVE Clean'
<1>1. SUFFICES ASSUME harm' = {} PROVE Clean'
  BY DEF Clean
<1>2. L' = L /\ S' = S /\ O' = O /\ Z' = Z /\ done' = done
  BY SameFiles DEF Start, disk
<1>3. harm = {} /\ ~Active("user") /\ ~Active("task")
  BY <1>1 DEF Start, Meets
<1>4. Sound /\ Recovers
  BY <1>3 DEF Clean, Bare, Active
<1>5. Sound' /\ Recovers' /\ At("check")'
  BY <1>2, <1>4 DEF Sound, Recovers, Right, Sure, BackUp, At, Flushing
<1> QED BY <1>3, <1>5, CleanStep DEF Start, Procs

LEMMA CleanRead == ASSUME Typed, Clean, Read PROVE Clean'
<1>1. SUFFICES ASSUME harm' = {} PROVE Clean'
  BY DEF Clean
<1>2. harm = {} /\ pc["user"] # "mv"
  BY <1>1 DEF Read
<1>3. pc["task"] # "mv"
  BY DEF Typed, TypedRun, Pre, Back
<1>4. L = <<>> /\ L' = Empty /\ S' = S /\ O' = O /\ Z' = Z
  <2>1. L = <<>> /\ Sets("log", Empty)
    BY DEF Read, Sets, L
  <2> QED BY <2>1, FilesNow, Special
<1>5. UNCHANGED <<pc, tmp, idx, rec, done>> /\ mem' = <<>>
  BY DEF Read
<1>6. Alone /\ Sound /\ (Bare \/ Recovers) /\ At(pc["user"]) /\ At(pc["task"])
  BY <1>2 DEF Clean
<1>7. Recovers
  BY <1>4, <1>6, GoodFacts, LogFacts DEF At, Bare, Flushing
<1>8. Sound' /\ Recovers'
  BY <1>4, <1>5, <1>6, <1>7, GoodFacts
     DEF Sound, SumLike, Recovers, Right, Sure, BackUp
<1>9. At(pc["user"])'
  BY <1>2, <1>4, <1>5, <1>6, GoodFacts, LogFacts
     DEF At, Same, Fresh, NoLog, MemIs, Right, Sure, BackUp, Flushing
<1>10. At(pc["task"])'
  BY <1>3, <1>4, <1>5, <1>6, GoodFacts, LogFacts
     DEF At, Same, Fresh, NoLog, MemIs, Right, Sure, BackUp, Flushing
<1>11. Alone'
  BY <1>5, <1>6 DEF Alone, Active
<1> QED BY <1>8, <1>9, <1>10, <1>11 DEF Clean

LEMMA CleanCrash == ASSUME Typed, Clean, Crash PROVE Clean'
<1>1. SUFFICES ASSUME harm' = {} PROVE Clean'
  BY DEF Clean
<1>2. harm = {} /\ ~Bare /\ done' = done
  BY <1>1, Crashed
<1>3. Sound /\ Recovers /\ At(pc["user"]) /\ At(pc["task"])
  BY <1>2 DEF Clean
<1>4. Sound' /\ Recovers'
  <2>1. CASE file' = file
    BY <1>2, <1>3, <2>1, SameFiles DEF Sound, Recovers, Right, Sure, BackUp
  <2>2. ASSUME NEW p \in Procs, file' \in Half(p) PROVE Sound' /\ Recovers'
    <3> USE DEF Sound, SumLike, Recovers, Right, Sure, BackUp
    <3>1. At(pc[p])
      BY <1>3 DEF Procs
    <3>2. pc[p] \in {"append", "index"} => S # <<>> /\ p = "user"
      BY <1>2 DEF Bare, Procs, Typed, TypedRun, Pre, Back, S
    <3>3. CASE pc[p] \in {"mkSum", "cpBackSum", "newSum"} /\ \E f \in {<<>>, NoSum} : Cuts(file', "sum", f)
      <4>1. L' = L /\ S' \in {<<>>, NoSum} /\ O' = O /\ Z' = Z
        BY <3>3, FilesNow, Special, FourFiles DEF Cuts, Sets
      <4>2. Good(L, done) /\ L # <<>> /\ BackUp
        BY <1>3, <3>1, <3>3, GoodFacts DEF At
      <4> QED BY <1>2, <1>3, <4>1, <4>2, GoodFacts, Special
    <3>4. CASE pc[p] = "cpOld" /\ \E f \in {<<>>, Torn} : Cuts(file', "old", f)
      <4>1. L' = L /\ S' = S /\ O' \in {<<>>, Torn} /\ Z' = Z
        BY <3>4, FilesNow, Special, FourFiles DEF Cuts, Sets
      <4> QED BY <1>2, <1>3, <3>1, <3>4, <4>1, GoodFacts, Special DEF At
    <3>5. CASE pc[p] = "cpOldSum" /\ \E f \in {<<>>, NoSum} : Cuts(file', "oldSum", f)
      <4>1. L' = L /\ S' = S /\ O' = O /\ Z' \in {<<>>, NoSum}
        BY <3>5, FilesNow, Special, FourFiles DEF Cuts, Sets
      <4> QED BY <1>2, <1>3, <3>1, <3>5, <4>1, GoodFacts, Special DEF At
    <3>6. CASE pc[p] = "cpBack" /\ \E f \in {<<>>, Torn} : Cuts(file', "log", f)
      <4>1. L' \in {<<>>, Torn} /\ S' = S /\ O' = O /\ Z' = Z
        BY <3>6, FilesNow, Special, FourFiles DEF Cuts, Sets
      <4> QED BY <1>2, <1>3, <3>1, <3>6, <4>1, GoodFacts, Special DEF At
    <3>7. CASE /\ pc[p] = "append"
               /\ Cuts(file', "log", IF L = <<>> THEN <<>> ELSE Log(Idx, Append(Body, Part)))
      <4>1. /\ L # <<>> /\ IdxOf(L) = BodyOf(L) /\ BackUp
            /\ Append(Body, Part) \in Seqs /\ Append(Body, Part) # Body /\ Append(Body, Part) # <<>>
        <5>1. L # <<>> /\ IdxOf(L) = BodyOf(L) /\ BackUp
          BY <3>1, <3>7, GoodFacts DEF At, Good, Fine
        <5>2. Body \in Seqs /\ Len(Body) \in Nat /\ Part \in 0..MaxRec /\ Len(<<>>) = 0
          BY FourFiles, SeqForm, LogAssumption DEF Part, LogAssumption
        <5>3. Append(Body, Part) \in Seqs /\ Len(Append(Body, Part)) = Len(Body) + 1
          BY <5>2, SeqsHas
        <5> QED BY <5>1, <5>2, <5>3
      <4>2. L' = Log(Idx, Append(Body, Part)) /\ S' = S /\ O' = O /\ Z' = Z
        BY <3>7, <4>1, FilesNow, FourFiles, LogIsFile DEF Cuts, Sets
      <4>3. L' # <<>> /\ L' # NoSum /\ ~Fine(L')
        <5>1. IdxOf(L') = Idx /\ BodyOf(L') = Append(Body, Part) /\ L' # <<>> /\ Idx = Body
          BY <4>1, <4>2, LogFacts, FourFiles
        <5>2. BodyOf(NoSum) = <<>>
          BY Special
        <5> QED BY <4>1, <5>1, <5>2, Zenon DEF Fine
      <4> QED BY <1>2, <1>3, <3>2, <3>7, <4>1, <4>2, <4>3
    <3>8. CASE /\ pc[p] = "index"
               /\ Cuts(file', "log", IF L = <<>> THEN <<>> ELSE Log(<<Part>>, Body))
      <4>1. L = Log(mem, Append(mem, rec)) /\ BackUp /\ mem \in Seqs /\ rec \in 1..MaxRec
        <5>1. rec > 0
          BY <3>2, <3>8 DEF Typed, TypedHist, Writes
        <5> QED BY <3>1, <3>8, <5>1, LogAssumption DEF At, Typed, TypedHist, TypedFiles, LogAssumption
      <4>2. /\ Body = Append(mem, rec) /\ Body \in Seqs /\ L # <<>>
            /\ Body # <<Part>> /\ Body # <<>>
        <5>1. Body = Append(mem, rec) /\ Body \in Seqs /\ L # <<>>
          BY <4>1, LogFacts, FourFiles
        <5>2. Len(mem) \in Nat /\ Len(<<>>) = 0 /\ Len(<<Part>>) = 1 /\ <<Part>>[1] = 0
          BY <4>1, SeqForm DEF Part
        <5> HIDE DEF SumLike, Recovers, Right, Sure, BackUp
        <5>3. Len(Body) = Len(mem) + 1 /\ Body[Len(mem) + 1] = rec
          <6> DEFINE T == 0..MaxRec
          <6>1. mem \in Seq(T) /\ rec \in T
            BY <4>1 DEF Seqs
          <6> HIDE DEF T
          <6> QED BY <5>1, <6>1
        <5>4. rec > 0 /\ rec # 0
          BY <4>1
        <5>5. ASSUME Body = <<Part>> PROVE FALSE
          <6>1. Len(Body) = 1 /\ Body[1] = 0
            BY <5>2, <5>5
          <6>2. Len(mem) + 1 = 1
            BY <5>2, <5>3, <6>1
          <6> QED BY <5>3, <5>4, <6>1, <6>2
        <5>6. Body # <<>>
          <6> SUFFICES ASSUME Body = <<>> PROVE FALSE
            OBVIOUS
          <6>1. Len(Body) = 0
            BY <5>2
          <6> QED BY <5>2, <5>3, <6>1
        <5> QED BY <5>1, <5>5, <5>6
      <4>3. L' = Log(<<Part>>, Body) /\ S' = S /\ O' = O /\ Z' = Z
        BY <3>8, <4>2, FilesNow, SeqsHas, LogIsFile DEF Cuts, Sets
      <4>4. L' # <<>> /\ L' # NoSum /\ ~Fine(L')
        <5>1. IdxOf(L') = <<Part>> /\ BodyOf(L') = Body /\ L' # <<>>
          BY <4>3, LogFacts
        <5>2. BodyOf(NoSum) = <<>>
          BY Special
        <5> QED BY <4>2, <5>1, <5>2, Zenon DEF Fine
      <4> QED BY <1>2, <1>3, <3>2, <3>8, <4>1, <4>3, <4>4
    <3>9. CASE pc[p] = "mv" /\ Cuts(file', "log", Torn)
      <4>1. L' = Torn /\ S' = S /\ O' = O /\ Z' = Z
        BY <3>9, FilesNow, Special DEF Cuts, Sets
      <4> QED BY <1>2, <1>3, <3>1, <3>9, <4>1, GoodFacts, Special DEF At
    <3> HIDE DEF Sound, SumLike, Recovers, Right, Sure, BackUp
    <3> QED BY <2>2, <3>3, <3>4, <3>5, <3>6, <3>7, <3>8, <3>9, Halves
  <2> QED BY <2>1, <2>2, Crashed
<1>5. pc'["user"] = "idle" /\ pc'["task"] = "wait"
  BY Crashed
<1> QED BY <1>4, <1>5 DEF Clean, Alone, Active, At, Flushing

LEMMA CleanInit == Init => Clean
<1> SUFFICES ASSUME Init PROVE Clean
  OBVIOUS
<1>1. L = <<>> /\ S = <<>> /\ O = <<>> /\ Z = <<>> /\ done = <<>>
  BY DEF Init, L, S, O, Z, Names
<1>2. pc["user"] = "idle" /\ pc["task"] = "wait"
  BY DEF Init
<1>3. Sound /\ Recovers
  BY <1>1, Special DEF Sound, SumLike, Recovers, Right, Sure, BackUp
<1> QED BY <1>2, <1>3 DEF Clean, Alone, Active, At, Flushing

LEMMA CleanNext == ASSUME Typed, Clean, Live, Fitting, [Next]_vars PROVE Clean'
<1>1. ASSUME NEW p \in Procs, Check(p) \/ Operate(p) \/ Open(p) PROVE Clean'
  BY <1>1, CleanCheck, CleanOperate, CleanOpen
<1>2. CASE UNCHANGED vars
  <2>1. UNCHANGED <<file, tmp, mem, pc, idx, rec, done, harm>>
    BY <1>2 DEF vars, disk, run, hist
  <2>2. L' = L /\ S' = S /\ O' = O /\ Z' = Z
    BY <2>1, SameFiles
  <2> QED BY <2>1, <2>2 DEF Clean, Alone, Active, Bare, Sound, Recovers, Right, Sure,
          BackUp, At, Same, Fresh, NoLog, MemIs, Flushing, S
<1> QED BY <1>1, <1>2, CleanWrite, CleanFlush, CleanStart, CleanRead, CleanCrash
        DEF Next, Procs

-----------------------------------------------------------------------------
(* Part 2.                                                                 *)

LEMMA UnderFacts ==
    /\ \A t, g : Under(<<>>, t, g) /\ Under(Empty, t, g)
    /\ \A t \in Nat : \A g : 0 \notin g => Under(Torn, t, g)
    /\ \A f, h, t, g : Under(f, t, g) /\ BodyOf(h) = BodyOf(f) => Under(h, t, g)
<1>1. Ranged(<<>>) = {} /\ Ranged(<<Part>>) = {0}
  BY DEF Ranged, Part
<1> QED BY <1>1, Special, NoFile DEF Under

LEMMA Older ==
    ASSUME NEW f \in Files, NEW t \in Int, NEW u \in Int, t <= u, NEW g, Under(f, t, g)
    PROVE  Under(f, u, g)
<1>1. \A r \in Ranged(BodyOf(f)) : r \in Nat
  BY FileForm, SeqForm DEF Ranged
<1> QED BY <1>1 DEF Under

LEMMA AppendUnder ==
    ASSUME NEW s \in Seqs, NEW r \in 0..MaxRec, NEW t, NEW g, NEW i,
           \A k \in Ranged(s) : k <= t /\ k \notin g, r <= t, r \notin g
    PROVE  Under(Log(i, Append(s, r)), t, g)
<1>1. ASSUME NEW k \in Ranged(Append(s, r)) PROVE k \in Ranged(s) \/ k = r
  <2>1. PICK j \in 1..Len(s) + 1 : k = Append(s, r)[j]
    BY SeqForm DEF Ranged
  <2> QED BY <2>1, SeqForm DEF Ranged
<1> QED BY <1>1, LogFacts DEF Under

LEMMA TopFacts ==
    Typed => /\ Top \in Nat /\ Top <= rec /\ rec \in Nat
             /\ rec \in 0..MaxRec /\ gone \subseteq 1..rec /\ 0 \notin gone
BY LogAssumption DEF Typed, TypedHist, Top, Writes, LogAssumption

LEMMA LiveStep ==
    ASSUME Typed, Live, harm' = {} => harm = {}, rec' = rec, gone' = gone,
           tmp' = tmp, L' \in {<<>>, Empty, L, O}, O' \in {<<>>, L, O},
           pc'["user"] \in Before <=> pc["user"] \in Before,
           pc'["user"] \in {"rm", "mv"} => pc["user"] \in {"rm", "mv"}
    PROVE  Live'
<1>1. Top' = Top
  BY DEF Top
<1> QED BY <1>1, UnderFacts DEF Live

LEMMA OpPlaces ==
    ASSUME Typed, NEW p \in Procs, Operate(p)
    PROVE  /\ pc[p] \in Pre \cup Flushing \cup {"newSum"}
           /\ \E l \in Pre \cup Flushing \cup {"end"} : Goes(p, l) /\ (pc[p] \in Pre <=> l \in Pre)
BY Operations DEF Turn, Pre, Back, Flushing

LEMMA OpFiles ==
    ASSUME Typed, NEW p \in Procs, Operate(p)
    PROVE  L' \in {<<>>, L, O} /\ O' \in {<<>>, L, O}
BY Operations, FilesNow, FourFiles DEF Turn

LEMMA LiveRun ==
    ASSUME Typed, Live, NEW p \in Procs, Check(p) \/ Operate(p) \/ Open(p)
    PROVE  Live'
<1>1. UNCHANGED <<tmp, rec, gone, harm>>
  BY Operations DEF Check, Open, disk, hist
<1>2. CASE Check(p)
  <2>1. L' = L /\ O' = O
    BY <1>2, SameFiles DEF Check, disk
  <2>2. PICK l \in {"mkSum", "cpOld", "cpBack", "rmLog"} : Goes(p, l)
    BY <1>2, Checked DEF Check
  <2>3. pc'["user"] \in Before <=> pc["user"] \in Before
    BY <1>2, <2>2, Going DEF Check, Procs, Before, Pre, Back
  <2>4. pc'["user"] \in {"rm", "mv"} => pc["user"] \in {"rm", "mv"}
    BY <1>2, <2>2, Going DEF Check, Procs
  <2> QED BY <1>1, <2>1, <2>3, <2>4, LiveStep
<1>3. CASE Operate(p)
  <2>1. PICK l \in Pre \cup Flushing \cup {"end"} : Goes(p, l) /\ (pc[p] \in Pre <=> l \in Pre)
    BY <1>3, OpPlaces
  <2>2. pc[p] \in Pre \cup Flushing \cup {"newSum"}
    BY <1>3, OpPlaces
  <2>3. pc'["user"] \in Before <=> pc["user"] \in Before
    BY <2>1, <2>2, Going DEF Procs, Before, Flushing
  <2>4. pc'["user"] \in {"rm", "mv"} => pc["user"] \in {"rm", "mv"}
    BY <2>1, Going DEF Procs, Pre, Back, Flushing
  <2> QED BY <1>1, <1>3, <2>3, <2>4, OpFiles, LiveStep
<1>4. CASE Open(p)
  <2>1. O' = O /\ L' \in {L, Empty}
    <3>1. file' = file \/ Sets("log", Empty)
      BY <1>4 DEF Open, Sets
    <3> QED BY <3>1, SameFiles, FilesNow, Special
  <2>2. PICK l \in {"room", "ready"} : Goes(p, l) /\ (l = "room" <=> p = "user")
    BY <1>4 DEF Open
  <2>3. pc'["user"] \in Before <=> pc["user"] \in Before
    BY <1>4, <2>2, Going DEF Open, Procs, Before, Pre
  <2>4. pc'["user"] \in {"rm", "mv"} => pc["user"] \in {"rm", "mv"}
    BY <1>4, <2>2, Going DEF Open, Procs
  <2> QED BY <1>1, <2>1, <2>3, <2>4, LiveStep
<1> QED BY <1>2, <1>3, <1>4

LEMMA LiveWrite == ASSUME Typed, Clean, Live, Wr_Alm_Pkt_to_log PROVE Live'
<1> USE DEF Procs
<1>1. CASE Begin
  <2>1. L' = L /\ O' = O
    BY <1>1, SameFiles DEF Begin, disk
  <2>2. /\ Top = rec /\ Top' = rec /\ gone' = gone /\ pc'["user"] = "check"
        /\ harm = {} /\ rec' \notin gone
    BY <1>1, Going, TopFacts DEF Begin, Top, Before, Pre, Back
  <2> QED BY <2>1, <2>2 DEF Live
<1>2. CASE Clear
  BY <1>2 DEF Clear, Live
<1>3. CASE HasRoom
  <2>1. L' = L /\ O' = O /\ UNCHANGED <<tmp, rec, gone, harm>>
    BY <1>3, SameFiles DEF HasRoom, disk, hist
  <2>2. pc["user"] = "room" /\ pc'["user"] = "append"
    BY <1>3, Going DEF HasRoom
  <2> QED BY <2>1, <2>2, LiveStep DEF Before
<1>4. CASE Move \/ MoveFails
  <2>1. SUFFICES ASSUME harm' = {} PROVE Live'
    BY DEF Live
  <2>2. harm = {} /\ L' = L /\ O' = O /\ UNCHANGED <<rec, gone>>
    BY <1>4, <2>1, SameFiles DEF Move, MoveFails
  <2>3. pc["user"] = "room" /\ pc'["user"] \in {"rm", "append"} /\ Top' = Top
    BY <1>4, <2>2, Going DEF Move, MoveFails, Top, Before
  <2>4. pc'["user"] = "rm" => Under(tmp', Top, gone)
    <3>1. SUFFICES ASSUME Move PROVE Under(tmp', Top, gone)
      BY <1>4, Going DEF MoveFails
    <3>2. tmp' = Log(mem', Newest(Body))
      <4>1. harm' = harm \cup {"move"} => FALSE
        BY <2>1
      <4> QED BY <3>1, <4>1 DEF Move
    <3>3. Ranged(Newest(Body)) \subseteq Ranged(BodyOf(L))
      BY FourFiles, NewestFacts
    <3> QED BY <2>2, <3>2, <3>3, LogFacts DEF Live, Under
  <2> QED BY <2>2, <2>3, <2>4 DEF Live, Before
<1>5. CASE Remove
  <2>1. L' = <<>> /\ O' = O
    BY <1>5, FilesNow, FourFiles DEF Remove, Sets
  <2>2. UNCHANGED <<tmp, rec, gone, harm>> /\ pc["user"] = "rm" /\ pc'["user"] = "mv"
    BY <1>5, Going DEF Remove, hist
  <2> QED BY <2>1, <2>2, LiveStep DEF Before
<1>6. CASE Place
  <2>1. L' = tmp /\ O' = O
    BY <1>6, FilesNow DEF Place, Sets, Typed, TypedFiles
  <2>2. UNCHANGED <<rec, gone, harm>> /\ pc["user"] = "mv" /\ pc'["user"] = "append"
    BY <1>6, Going DEF Place, hist
  <2> QED BY <2>1, <2>2 DEF Live, Top, Before
<1>7. CASE AppendPkt
  <2>1. UNCHANGED <<rec, gone, harm>> /\ pc["user"] = "append" /\ pc'["user"] = "index"
    BY <1>7, Going DEF AppendPkt, hist
  <2>2. SUFFICES ASSUME harm = {} PROVE Live'
    BY <2>1 DEF Live
  <2>3. Top = rec - 1 /\ Top' = rec
    BY <2>1 DEF Top, Before, Pre, Back
  <2>4. Under(O, rec, gone) /\ Under(L, rec, gone)
    BY <2>2, <2>3, TopFacts, Older, FourFiles DEF Live
  <2>5. Under(Log(Idx, Append(Body, rec)), rec, gone)
    BY <2>1, <2>2, <2>4, TopFacts, AppendUnder, FourFiles DEF Live, Under, Before
  <2>6. Append(Body, rec) \in Seqs
    BY TopFacts, SeqsHas, FourFiles
  <2>7. O' = O /\ L' \in {<<>>, Log(Idx, Append(Body, rec))}
    <3>1. Sets("log", IF L = <<>> THEN <<>> ELSE Log(Idx, Append(Body, rec)))
      BY <1>7, <2>6, Rewriting, FourFiles DEF AppendPkt, Sets
    <3> QED BY <2>6, <3>1, FilesNow, LogIsFile, FourFiles
  <2> QED BY <2>1, <2>3, <2>4, <2>5, <2>7, UnderFacts DEF Live, Before, Pre, Back
<1>8. CASE AppendFails
  <2>1. L' = L /\ O' = O /\ UNCHANGED <<tmp, rec, gone, harm>>
    BY <1>8, SameFiles DEF AppendFails, disk, hist
  <2>2. pc["user"] = "append" /\ pc'["user"] = "newSum"
    BY <1>8, Going DEF AppendFails
  <2>3. Top = rec - 1 /\ Top' = rec
    BY <2>1, <2>2 DEF Top, Before, Pre, Back
  <2>4. harm = {} => Under(O, rec, gone) /\ Under(L, rec, gone)
    BY <2>3, TopFacts, Older, FourFiles DEF Live
  <2> QED BY <2>1, <2>2, <2>3, <2>4 DEF Live, Before, Pre, Back
<1>9. CASE Index
  <2>1. UNCHANGED <<rec, gone, harm>> /\ pc["user"] = "index" /\ pc'["user"] = "newSum"
    BY <1>9, Going DEF Index, hist
  <2>2. Top' = Top
    BY <2>1 DEF Top, Before, Pre, Back
  <2>3. O' = O /\ BodyOf(L') = BodyOf(L)
    <3>1. mem' \in Seqs
      BY <1>9, PutFacts DEF Index, Typed, TypedFiles, TypedRun, TypedHist
    <3>2. Sets("log", IF L = <<>> THEN <<>> ELSE Log(mem', Body))
      BY <1>9, <3>1, Rewriting, FourFiles DEF Index, Sets
    <3> QED BY <3>1, <3>2, FilesNow, LogIsFile, LogFacts, FourFiles
  <2> QED BY <2>1, <2>2, <2>3, UnderFacts DEF Live, Before, Pre, Back
<1>10. CASE Written
  <2>1. L' = L /\ O' = O /\ UNCHANGED <<tmp, rec, gone, harm>>
    BY <1>10, SameFiles DEF Written, disk
  <2>2. pc["user"] = "end" /\ pc'["user"] = "idle"
    BY <1>10, Going DEF Written
  <2> QED BY <2>1, <2>2, LiveStep DEF Before, Pre, Back
<1> QED BY <1>1, <1>2, <1>3, <1>4, <1>5, <1>6, <1>7, <1>8, <1>9, <1>10
        DEF Wr_Alm_Pkt_to_log

LEMMA LiveFlush == ASSUME Typed, Clean, Live, Flush \/ Cut \/ Flushes PROVE Live'
<1> USE DEF Procs
<1>1. CASE Flush
  <2>1. UNCHANGED <<rec, gone>> /\ pc["user"] = "idle" /\ pc'["user"] = "cut" /\ harm = {}
    BY <1>1, Going DEF Flush
  <2>2. Top' = Top
    BY <2>1 DEF Top, Before, Pre, Back
  <2>3. O' = O /\ BodyOf(L') = BodyOf(L)
    <3>1. Sets("log", Log(<<>>, Body)) /\ Log(<<>>, Body) \in Files
      BY <1>1, FourFiles, LogIsFile, SeqsHas DEF Flush, Sets
    <3> QED BY <3>1, FilesNow, LogFacts, FourFiles
  <2> QED BY <2>1, <2>2, <2>3, UnderFacts DEF Live, Before, Pre, Back
<1>2. CASE Cut
  <2>1. UNCHANGED <<rec, gone, harm>> /\ pc["user"] = "cut" /\ pc'["user"] = "flSum"
    BY <1>2, Going DEF Cut, hist
  <2>2. Top' = Top
    BY <2>1 DEF Top, Before, Pre, Back
  <2>3. O' = O /\ BodyOf(L') = <<>>
    <3>1. Sets("log", IF L = <<>> THEN <<>> ELSE Log(Idx, <<>>))
      BY <1>2, Rewriting, FourFiles, SeqsHas DEF Cut, Sets
    <3> QED BY <3>1, FilesNow, LogFacts, LogIsFile, SeqsHas, FourFiles, NoFile
  <2>4. BodyOf(L') = BodyOf(<<>>)
    BY <2>3, NoFile
  <2> QED BY <2>1, <2>2, <2>3, <2>4, UnderFacts DEF Live, Before, Pre, Back
<1>3. CASE Flushes
  <2>1. L' = L /\ O' = O /\ UNCHANGED <<rec, harm>>
    BY <1>3, SameFiles DEF Flushes, disk
  <2>2. pc["user"] = "flEnd" /\ pc'["user"] = "idle"
    BY <1>3, Going DEF Flushes
  <2>3. harm = {} => L = Empty /\ O = <<>>
    BY <2>2 DEF Clean, At, Flushing
  <2> QED BY <2>1, <2>2, <2>3, UnderFacts DEF Live, Before, Pre, Back
<1> QED BY <1>1, <1>2, <1>3

LEMMA LiveStart == ASSUME Typed, Live, Start \/ Read PROVE Live'
<1>1. CASE Start
  <2>1. L' = L /\ O' = O /\ UNCHANGED <<tmp, rec, gone>> /\ (harm' = {} => harm = {})
    BY <1>1, SameFiles DEF Start, Meets, disk
  <2>2. pc'["user"] = pc["user"]
    BY <1>1, Going DEF Start, Procs
  <2> QED BY <2>1, <2>2, LiveStep
<1>2. CASE Read
  <2>1. Sets("log", Empty) /\ UNCHANGED <<tmp, rec, gone, pc>> /\ (harm' = {} => harm = {})
    BY <1>2 DEF Read, Sets
  <2>2. L' = Empty /\ O' = O
    BY <2>1, FilesNow, Special
  <2> QED BY <2>1, <2>2, LiveStep
<1> QED BY <1>1, <1>2

LEMMA LiveCrash == ASSUME Typed, Live, Crash PROVE Live'
<1>1. harm = {} /\ UNCHANGED <<rec, gone>> /\ pc'["user"] = "idle"
  BY Crashed
<1>2. Top' = rec
  BY <1>1 DEF Top, Before, Pre, Back
<1>3. Under(L, rec, gone) /\ Under(O, rec, gone)
  BY <1>1, TopFacts, Older, FourFiles DEF Live
<1>4. Under(L', rec, gone) /\ Under(O', rec, gone)
  <2>1. CASE file' = file
    BY <1>3, <2>1, SameFiles
  <2>2. ASSUME NEW p \in Procs, file' \in Half(p)
        PROVE  Under(L', rec, gone) /\ Under(O', rec, gone)
    <3>1. /\ Append(Body, Part) \in Seqs /\ <<Part>> \in Seqs
          /\ Part \in 0..MaxRec /\ Part <= rec /\ Part \notin gone
      BY TopFacts, FourFiles, SeqsHas, LogAssumption DEF Part, LogAssumption
    <3>2. Under(Log(Idx, Append(Body, Part)), rec, gone)
      BY <1>3, <3>1, FourFiles, AppendUnder DEF Under
    <3>3. Under(Log(<<Part>>, Body), rec, gone)
      BY <1>3, LogFacts, FourFiles, UnderFacts
    <3>4. Under(Torn, rec, gone) /\ Under(<<>>, rec, gone)
      BY TopFacts, UnderFacts
    <3>5. /\ L' \in {L, <<>>, Torn, Log(Idx, Append(Body, Part)), Log(<<Part>>, Body)}
          /\ O' \in {O, <<>>, Torn}
      BY <2>2, <3>1, Halves, FilesNow, Special, LogIsFile, FourFiles DEF Cuts, Sets
    <3> QED BY <1>3, <3>2, <3>3, <3>4, <3>5
  <2> QED BY <2>1, <2>2, Crashed
<1> QED BY <1>1, <1>2, <1>4 DEF Live, Before, Pre, Back

LEMMA LiveInit == Init => Live
<1> SUFFICES ASSUME Init PROVE Live
  OBVIOUS
<1>1. L = <<>> /\ O = <<>> /\ pc["user"] = "idle"
  BY DEF Init, L, O, Names
<1> QED BY <1>1, UnderFacts DEF Live, Before, Pre, Back

LEMMA LiveNext == ASSUME Typed, Clean, Live, [Next]_vars PROVE Live'
<1>1. ASSUME NEW p \in Procs, Check(p) \/ Operate(p) \/ Open(p) PROVE Live'
  BY <1>1, LiveRun
<1>2. CASE UNCHANGED vars
  <2>1. UNCHANGED <<file, tmp, pc, rec, gone, harm>>
    BY <1>2 DEF vars, disk, run, hist
  <2> QED BY <2>1, SameFiles DEF Live, Top
<1> QED BY <1>1, <1>2, LiveWrite, LiveFlush, LiveStart, LiveCrash DEF Next, Procs

-----------------------------------------------------------------------------
(* Part 3.                                                                 *)

LEMMA FittingCheck == ASSUME Typed, Fitting, NEW p \in Procs, Check(p) PROVE Fitting'
<1>1. L' = L /\ S' = S /\ UNCHANGED <<mem, init, harm>> /\ pc[p] = "check"
  BY SameFiles DEF Check, disk, hist
<1>2. PICK l \in {"mkSum", "cpOld", "cpBack", "rmLog"} : Goes(p, l) /\ l = Remedy
  BY Checked DEF Check
<1>3. SUFFICES ASSUME Known' PROVE (Fit /\ pc["user"] \notin Back /\ pc["task"] \notin Back)'
  BY DEF Fitting
<1>4. Known
  <2>1. pc'["task"] = "ready" => pc["task"] = "ready"
    BY <1>1, <1>2, Going DEF Procs
  <2>2. pc'["user"] \in Pre => pc["user"] \in Pre
    BY <1>1, <1>2, Going DEF Procs, Pre
  <2>3. pc'["user"] = "idle" => pc["user"] = "idle"
    BY <1>1, <1>2, Going DEF Procs
  <2> QED BY <1>1, <1>3, <2>1, <2>2, <2>3 DEF Known
<1>5. Fit /\ pc["user"] \notin Back /\ pc["task"] \notin Back
  BY <1>4 DEF Fitting
<1>6. l \in {"mkSum", "cpOld"}
  BY <1>2, <1>5, Checked DEF Fit, Right
<1>7. pc'["user"] \notin Back /\ pc'["task"] \notin Back
  BY <1>2, <1>5, <1>6, Going DEF Procs, Back
<1> QED BY <1>1, <1>5, <1>7 DEF Fit

LEMMA FittingOperate == ASSUME Typed, Fitting, NEW p \in Procs, Operate(p) PROVE Fitting'
<1>1. UNCHANGED <<mem, init, harm>>
  BY Operations
<1>2. PICK l \in Pre \cup Flushing \cup {"end"} : Goes(p, l) /\ (pc[p] \in Pre <=> l \in Pre)
  BY OpPlaces
<1>3. SUFFICES ASSUME Known' PROVE (Fit /\ pc["user"] \notin Back /\ pc["task"] \notin Back)'
  BY DEF Fitting
<1>4. Known
  <2>1. pc'["task"] = "ready" => pc["task"] = "ready"
    BY <1>2, Going DEF Procs, Pre, Back, Flushing
  <2>2. pc'["user"] \in Pre => pc["user"] \in Pre
    BY <1>2, Going DEF Procs
  <2>3. pc'["user"] = "idle" => pc["user"] = "idle"
    BY <1>2, Going DEF Procs, Pre, Back, Flushing
  <2> QED BY <1>1, <1>3, <2>1, <2>2, <2>3 DEF Known
<1>5. Fit /\ pc["user"] \notin Back /\ pc["task"] \notin Back
  BY <1>4 DEF Fitting
<1>6. pc["user"] \in Pre \cup {"idle"}
  BY <1>4 DEF Known
<1>7. pc[p] \in Pre \ Back
  <2>1. pc[p] \in Pre \cup Flushing \cup {"newSum"}
    BY OpPlaces
  <2>2. pc[p] \in Pre \cup {"idle", "wait", "ready"}
    BY <1>6 DEF Typed, TypedRun, Procs
  <2> QED BY <1>5, <2>1, <2>2 DEF Procs, Flushing
<1>8. PICK to \in {"cpOld", "cpOldSum", "open"} :
         /\ Goes(p, to)
         /\ \/ Turn(p, "mkSum", "sum", L, "cpOld")
            \/ Turn(p, "cpOld", "old", L, "cpOldSum")
            \/ Turn(p, "cpOldSum", "oldSum", IF S = <<>> THEN Z ELSE S, "open")
  BY <1>7, Operations DEF Turn, Pre, Back
<1>9. L' = L /\ S' \in {S, L}
  BY <1>8, FilesNow, FourFiles DEF Turn
<1>10. pc'["user"] \notin Back /\ pc'["task"] \notin Back
  BY <1>5, <1>8, Going DEF Procs, Back
<1> QED BY <1>1, <1>5, <1>9, <1>10 DEF Fit

LEMMA FittingOpen ==
    ASSUME Typed, Clean, Fitting, NEW p \in Procs, Open(p)
    PROVE  Fitting'
<1>1. harm' = harm /\ pc[p] = "open" /\ Active(p)
  BY DEF Open, hist, Active
<1>2. CASE p = "user"
  <2>1. pc'["user"] = "room"
    BY <1>2, Going DEF Open
  <2> QED BY <2>1 DEF Fitting, Known, Pre, Back
<1>3. CASE p = "task"
  <2>1. /\ pc'["task"] = "ready" /\ pc'["user"] = pc["user"] /\ init' = init
        /\ mem' = IF L = <<>> THEN <<>> ELSE IdxOf(L)
    <3>1. pc'["task"] = "ready" /\ pc'["user"] = pc["user"]
      BY <1>3, Going DEF Open
    <3> QED BY <1>3, <3>1, FourFiles DEF Open, L, Typed, TypedRun
  <2>2. SUFFICES ASSUME Known' PROVE (Fit /\ pc["user"] \notin Back /\ pc["task"] \notin Back)'
    BY DEF Fitting
  <2>3. /\ L' = IF L = <<>> THEN Empty ELSE L
        /\ S' = S
    <3>1. CASE L = <<>>
      <4>1. Sets("log", Empty)
        BY <3>1 DEF Open, Sets, L
      <4> QED BY <3>1, <4>1, FilesNow, Special
    <3>2. CASE L # <<>>
      BY <3>2, SameFiles DEF Open, L
    <3> QED BY <3>1, <3>2
  <2>4. CASE Known
    BY <2>1, <2>3, <2>4 DEF Fitting, Fit, Back
  <2>5. CASE ~Known
    <3>1. harm = {} /\ pc["user"] \in Pre \cup {"idle"}
      BY <1>1, <2>1, <2>2, <2>5 DEF Known
    <3>2. Alone /\ At("open")
      BY <1>1, <1>3, <3>1 DEF Clean
    <3>3. pc["user"] = "idle"
      BY <1>1, <1>3, <3>1, <3>2 DEF Alone, Active, Pre, Back
    <3>4. (L # <<>> /\ S = L) \/ ((L = <<>> \/ L = Empty) /\ S = <<>>)
      BY <3>2 DEF At, Same, Fresh, NoLog, Right
    <3> QED BY <2>1, <2>3, <3>3, <3>4, Special DEF Fit, Back
  <2> QED BY <2>4, <2>5
<1> QED BY <1>2, <1>3 DEF Procs

LEMMA FittingWrite == ASSUME Typed, Clean, Fitting, Wr_Alm_Pkt_to_log PROVE Fitting'
<1> USE DEF Procs
<1>1. CASE Begin
  <2>1. L' = L /\ S' = S /\ UNCHANGED <<mem, init>> /\ harm = {}
    BY <1>1, SameFiles DEF Begin, disk
  <2>2. pc["user"] = "idle" /\ pc'["user"] = "check" /\ pc'["task"] = pc["task"]
    BY <1>1, Going DEF Begin
  <2>3. Known' => Known
    BY <2>1, <2>2 DEF Known
  <2> QED BY <2>1, <2>2, <2>3 DEF Fitting, Fit, Back
<1>2. CASE Written
  <2>1. L' = L /\ S' = S /\ UNCHANGED <<mem, init, harm>>
    BY <1>2, SameFiles DEF Written, disk
  <2>2. pc["user"] = "end" /\ pc'["user"] = "idle" /\ pc'["task"] = pc["task"]
    BY <1>2, Going DEF Written
  <2>3. Known' => harm = {}
    BY <2>1, <2>2 DEF Known, Pre, Back
  <2>4. harm = {} => Right /\ mem = IdxOf(L) /\ pc["task"] \notin Back
    BY <2>2 DEF Clean, Alone, Active, At, Back
  <2> QED BY <2>1, <2>2, <2>3, <2>4 DEF Fitting, Fit, Right, Back
<1>3. CASE Clear \/ HasRoom \/ Move \/ MoveFails \/ Remove \/ Place \/ AppendPkt \/ AppendFails \/ Index
  <2>1. pc'["user"] \in {"append", "rm", "mv", "index", "newSum"}
    BY <1>3, Going DEF Clear, HasRoom, Move, MoveFails, Remove, Place, AppendPkt, AppendFails, Index
  <2> QED BY <2>1 DEF Fitting, Known, Pre, Back
<1> QED BY <1>1, <1>2, <1>3 DEF Wr_Alm_Pkt_to_log

LEMMA FittingFlush == ASSUME Typed, Clean, Fitting, Flush \/ Cut \/ Flushes PROVE Fitting'
<1> USE DEF Procs
<1>1. CASE Flush \/ Cut
  <2>1. pc'["user"] \in {"cut", "flSum"}
    BY <1>1, Going DEF Flush, Cut
  <2> QED BY <2>1 DEF Fitting, Known, Pre, Back
<1>2. CASE Flushes
  <2>1. L' = L /\ S' = S /\ UNCHANGED <<mem, init, harm>>
    BY <1>2, SameFiles DEF Flushes, disk
  <2>2. pc["user"] = "flEnd" /\ pc'["user"] = "idle" /\ pc'["task"] = pc["task"]
    BY <1>2, Going DEF Flushes
  <2>3. Known' => harm = {}
    BY <2>1, <2>2 DEF Known, Pre, Back
  <2>4. harm = {} => L = Empty /\ S = <<>> /\ mem = <<>> /\ pc["task"] \notin Back
    BY <2>2 DEF Clean, Alone, Active, At, Flushing, Back
  <2> QED BY <2>1, <2>2, <2>3, <2>4, Special DEF Fitting, Fit, Back
<1> QED BY <1>1, <1>2

LEMMA FittingStart == ASSUME Typed, Fitting, Start \/ Read PROVE Fitting'
<1>1. CASE Start
  <2>1. L' = L /\ S' = S /\ UNCHANGED <<mem, init>> /\ (harm' = {} => harm = {})
    BY <1>1, SameFiles DEF Start, Meets, disk
  <2>2. pc["task"] = "wait" /\ pc'["task"] = "check" /\ pc'["user"] = pc["user"]
    BY <1>1, Going DEF Start, Procs
  <2>3. Known' => Known
    BY <2>1, <2>2 DEF Known
  <2> QED BY <2>1, <2>2, <2>3 DEF Fitting, Fit, Back
<1>2. CASE Read
  <2>1. L = <<>> /\ UNCHANGED <<pc, init>> /\ (harm' = {} => harm = {})
    BY <1>2 DEF Read, L
  <2>2. Known' => Known
    BY <2>1 DEF Known
  <2> QED BY <2>1, <2>2 DEF Fitting, Fit
<1> QED BY <1>1, <1>2

LEMMA FittingNext == ASSUME Typed, Clean, Fitting, [Next]_vars PROVE Fitting'
<1>1. ASSUME NEW p \in Procs, Check(p) \/ Operate(p) \/ Open(p) PROVE Fitting'
  BY <1>1, FittingCheck, FittingOperate, FittingOpen
<1>2. CASE UNCHANGED vars
  <2>1. UNCHANGED <<file, mem, init, pc, harm>>
    BY <1>2 DEF vars, disk, run, hist
  <2> QED BY <2>1, SameFiles DEF Fitting, Fit, Known
<1>3. CASE Crash
  BY <1>3, Crashed DEF Fitting, Known
<1> QED BY <1>1, <1>2, <1>3, FittingWrite, FittingFlush, FittingStart DEF Next, Procs

-----------------------------------------------------------------------------
(* Part 4.                                                                 *)

LEMMA LenFacts ==
    /\ \A f \in Files : LenOf(f) \in Nat
    /\ LenOf(<<>>) = 0 /\ LenOf(Empty) = 0 /\ LenOf(Torn) = 0
    /\ \A i, b : LenOf(Log(i, b)) = Len(i)
<1>1. Len(<<>>) = 0
  OBVIOUS
<1> QED BY <1>1, FileForm, SeqForm, NoFile, Special, LogFacts DEF LenOf

LEMMA SomeLengths ==
    ASSUME Typed
    PROVE  /\ LenOf(L) \in Nat /\ LenOf(O) \in Nat /\ LenOf(tmp) \in Nat
           /\ Len(mem) \in Nat /\ idx \in Nat /\ Len(Idx) = LenOf(L)
           /\ Keep \in Nat /\ MovMax \in Nat /\ MaxRange \in Nat
           /\ 0 < Keep /\ Keep < MovMax /\ MovMax < MaxRange
BY FourFiles, LenFacts, SeqForm, LogAssumption DEF Typed, TypedFiles, TypedRun, LogAssumption, LenOf

\* The files after a step, by the lengths of their indices: a log may come from its
\* copy or a copy from its log.
Copied ==
    \/ LenOf(L') = LenOf(L) /\ LenOf(O') \in {0, LenOf(L), LenOf(O)}
    \/ LenOf(O') = LenOf(O) /\ LenOf(L') \in {0, LenOf(O)}

LEMMA BoundedStep ==
    ASSUME Typed, Bounded, Copied, harm' = {} => harm = {},
           mem' \in {mem, <<>>, IdxOf(L)}, LenOf(tmp') \in {0, LenOf(tmp)}, idx' \in {0, idx},
           pc'["user"] \in Pre => pc["user"] \in Pre \/ harm = {},
           pc'["user"] \in {"rm", "mv"} => pc["user"] \in {"rm", "mv"},
           pc'["user"] = "room" => pc["user"] = "room",
           pc'["user"] \in {"append", "index"} => idx' < MaxRange /\ (harm' = {} => Lower(O'))
    PROVE  Bounded'
<1>1. Len(mem') \in {0, Len(mem), LenOf(L)}
  BY DEF LenOf
<1>2. Lower(L) /\ Lower(O) => Lower(L') /\ Lower(O')
  BY SomeLengths DEF Copied, Lower
<1>3. LenOf(L') <= MaxRange /\ LenOf(O') <= MaxRange
  BY SomeLengths DEF Copied, Bounded
<1>4. harm' = {} \/ pc'["user"] \in Pre => Lower(O') \/ LenOf(L') = 0 \/ LenOf(L') = MaxRange
  <2>1. SUFFICES ASSUME Lower(O) \/ LenOf(L) = 0 \/ LenOf(L) = MaxRange
                 PROVE  Lower(O') \/ LenOf(L') = 0 \/ LenOf(L') = MaxRange
    BY DEF Bounded
  <2> QED BY <2>1, SomeLengths DEF Copied, Lower, Bounded
<1>5. pc'["user"] \in {"rm", "mv"} => Lower(L') /\ Lower(O') /\ Len(mem') < MaxRange
  BY <1>1, <1>2, SomeLengths DEF Bounded, Lower
<1>6. pc'["user"] = "room" /\ MovMax <= idx' /\ idx' < MaxRange => Lower(L') /\ Lower(O')
  BY <1>2, SomeLengths DEF Bounded
<1>7. Len(mem') <= MaxRange /\ idx' <= MaxRange /\ LenOf(tmp') <= MaxRange
  BY <1>1, SomeLengths DEF Bounded
<1> QED BY <1>3, <1>4, <1>5, <1>6, <1>7 DEF Bounded

LEMMA BoundedStill ==   \* where the writer is not at its index, or stays there
    ASSUME Typed, Bounded, Copied, harm' = {} => harm = {},
           mem' \in {mem, <<>>, IdxOf(L)}, LenOf(tmp') \in {0, LenOf(tmp)}, idx' \in {0, idx},
           pc'["user"] \in Pre => pc["user"] \in Pre \/ harm = {},
           pc'["user"] \in {"rm", "mv"} => pc["user"] \in {"rm", "mv"},
           pc'["user"] = "room" => pc["user"] = "room",
           pc'["user"] \in {"append", "index"} =>
              pc["user"] \in {"append", "index"} /\ (harm = {} => O' = O)
    PROVE  Bounded'
<1>1. pc'["user"] \in {"append", "index"} => idx' < MaxRange /\ (harm' = {} => Lower(O'))
  BY SomeLengths DEF Bounded
<1> QED BY <1>1, BoundedStep

LEMMA BoundedRun ==
    ASSUME Typed, Clean, Bounded, NEW p \in Procs,
           Check(p) \/ Operate(p) \/ (Open(p) /\ p = "task")
    PROVE  Bounded'
<1> USE DEF Procs
<1>1. UNCHANGED <<tmp, idx, harm>> /\ Active(p)
  BY Operations DEF Check, Open, disk, hist, Active, Turn
<1>2. harm = {} => \A q \in Procs : q # p => ~Active(q)
  BY <1>1, Standing
<1>3. CASE Check(p)
  <2>1. L' = L /\ O' = O /\ mem' = mem /\ pc[p] = "check"
    BY <1>3, SameFiles DEF Check, disk
  <2>2. PICK l \in {"mkSum", "cpOld", "cpBack", "rmLog"} : Goes(p, l)
    BY <1>3, Checked DEF Check
  <2>3. /\ pc'["user"] \in Pre => pc["user"] \in Pre
        /\ pc'["user"] \in {"rm", "mv"} => pc["user"] \in {"rm", "mv"}
        /\ pc'["user"] = "room" => pc["user"] = "room"
        /\ pc'["user"] \in {"append", "index"} => pc["user"] \in {"append", "index"}
    BY <2>1, <2>2, Going DEF Pre
  <2> QED BY <1>1, <2>1, <2>3, BoundedStill DEF Copied
<1>4. CASE Operate(p)
  <2>1. /\ mem' = mem
        /\ \/ L' = L /\ O' \in {<<>>, L, O}
           \/ O' = O /\ L' \in {<<>>, O}
    BY <1>4, Operations, FilesNow, FourFiles DEF Turn
  <2>2. PICK l \in Pre \cup Flushing \cup {"end"} : Goes(p, l) /\ (pc[p] \in Pre <=> l \in Pre)
    BY <1>4, OpPlaces
  <2>3. /\ pc'["user"] \in Pre => pc["user"] \in Pre
        /\ pc'["user"] \in {"rm", "mv"} => pc["user"] \in {"rm", "mv"}
        /\ pc'["user"] = "room" => pc["user"] = "room"
        /\ pc'["user"] \in {"append", "index"} => pc["user"] \in {"append", "index"} /\ p = "task"
    BY <2>2, Going DEF Pre, Back, Flushing
  <2>4. pc'["user"] \in {"append", "index"} => harm # {}
    BY <1>2, <2>3 DEF Active
  <2> QED BY <1>1, <2>1, <2>3, <2>4, LenFacts, BoundedStill DEF Copied
<1>5. CASE Open(p) /\ p = "task"
  <2>1. O' = O /\ L' \in {L, Empty} /\ mem' \in {<<>>, IdxOf(L)}
    <3>1. file' = file \/ Sets("log", Empty)
      BY <1>5 DEF Open, Sets
    <3>2. mem' \in {<<>>, Idx}
      BY <1>5 DEF Open
    <3> QED BY <3>1, <3>2, SameFiles, FilesNow, FourFiles, Special
  <2>2. pc'["user"] = pc["user"]
    BY <1>5, Going DEF Open
  <2> QED BY <1>1, <2>1, <2>2, LenFacts, BoundedStill DEF Copied
<1> QED BY <1>3, <1>4, <1>5

LEMMA BoundedOpen ==
    ASSUME Typed, Fitting, Bounded, Open("user")
    PROVE  Bounded'
<1>1. UNCHANGED <<tmp, harm>> /\ pc["user"] = "open" /\ pc'["user"] = "room"
  BY Going DEF Open, hist, Procs
<1>2. init => mem = IdxOf(L)
  BY <1>1 DEF Fitting, Fit, Known, Pre
<1>3. O' = O /\ L' = (IF L = <<>> THEN Empty ELSE L) /\ mem' = IdxOf(L')
  <2>1. CASE L = <<>>
    <3>1. Sets("log", Empty) /\ mem' = <<>>
      BY <2>1 DEF Open, Sets, L
    <3> QED BY <2>1, <3>1, FilesNow, Special
  <2>2. CASE L # <<>>
    <3>1. file' = file /\ mem' = IdxOf(L)
      BY <1>2, <2>2, FourFiles DEF Open, L
    <3> QED BY <2>2, <3>1, SameFiles
  <2> QED BY <2>1, <2>2
<1>4. /\ LenOf(L') \in Nat /\ LenOf(L') <= MaxRange /\ Len(mem') = LenOf(L') /\ idx' = LenOf(L')
      /\ LenOf(L') = LenOf(L) \/ LenOf(L') = 0
  <2>1. idx' = Len(mem')
    BY DEF Open
  <2> QED BY <1>3, <2>1, SomeLengths, LenFacts DEF Bounded, LenOf
<1>5. Lower(O) \/ LenOf(L') = 0 \/ LenOf(L') = MaxRange
  BY <1>1, <1>4 DEF Bounded, Pre
<1> QED BY <1>1, <1>3, <1>4, <1>5, SomeLengths DEF Bounded, Lower, Pre, Back

LEMMA BoundedWrite ==
    ASSUME Typed, Clean, Bounded, Wr_Alm_Pkt_to_log
    PROVE  Bounded'
<1> USE DEF Procs
<1>1. CASE Begin \/ HasRoom \/ AppendFails \/ Written
  <2>1. L' = L /\ O' = O /\ mem' = mem /\ tmp' = tmp /\ idx' \in {0, idx}
    BY <1>1, SameFiles DEF Begin, HasRoom, AppendFails, Written, disk
  <2>2. CASE HasRoom
    <3>1. pc["user"] = "room" /\ pc'["user"] = "append" /\ idx < MovMax /\ idx' = idx /\ harm' = harm
      BY <2>2, Going DEF HasRoom, hist
    <3>2. harm = {} => Lower(O)
      <4>1. harm = {} => (LenOf(L) = Len(mem) /\ Len(mem) = idx /\ (O = L \/ O = <<>>))
        BY <3>1 DEF Clean, At, MemIs, Same, Fresh, LenOf
      <4> QED BY <3>1, <4>1, SomeLengths, LenFacts DEF Lower
    <3> QED BY <2>1, <3>1, <3>2, SomeLengths, BoundedStep DEF Copied, Pre, Back
  <2>3. CASE Begin \/ AppendFails \/ Written
    <3>1. pc'["user"] \in {"check", "newSum", "idle"}
      BY <2>3, Going DEF Begin, AppendFails, Written
    <3>2. (harm' = {} => harm = {}) /\ (pc'["user"] = "check" => harm = {})
      BY <2>3, Going DEF Begin, AppendFails, Written, hist
    <3> QED BY <2>1, <3>1, <3>2, BoundedStill DEF Copied, Pre, Back
  <2> QED BY <1>1, <2>2, <2>3
<1>2. CASE Clear
  <2>1. Sets("log", IF L = <<>> THEN <<>> ELSE Empty)
    BY <1>2, Rewriting, SeqsHas DEF Clear, Sets, Empty
  <2>2. L' \in {<<>>, Empty} /\ O' = O
    BY <2>1, FilesNow, Special, FourFiles
  <2>3. pc'["user"] = "append" /\ mem' = <<>> /\ idx' = 0 /\ tmp' = tmp /\ harm' # {}
    BY <1>2, Going DEF Clear
  <2> QED BY <2>2, <2>3, SomeLengths, LenFacts, BoundedStep DEF Copied, Pre, Back
<1>3. CASE MoveFails \/ Move
  <2>1. /\ L' = L /\ O' = O /\ idx' = idx /\ pc["user"] = "room"
        /\ MovMax <= idx /\ idx < MaxRange
    BY <1>3, SameFiles DEF MoveFails, Move
  <2>2. Lower(L) /\ Lower(O)
    BY <2>1 DEF Bounded
  <2>3. Len(Newest(mem)) <= Keep /\ Len(Newest(mem)) \in Nat
    BY NewestFacts, SeqForm DEF Typed, TypedFiles
  <2>4. Len(mem') <= MaxRange /\ (Move => Len(mem') < MaxRange)
    BY <1>3, <2>3, SomeLengths DEF MoveFails, Move, Bounded
  <2>5. LenOf(tmp') <= MaxRange
    <3>1. CASE tmp' = tmp \/ tmp' = Torn
      BY <3>1, SomeLengths, LenFacts DEF Bounded
    <3>2. CASE \E b : tmp' = Log(mem', b)
      BY <2>4, <3>2, LenFacts
    <3> QED BY <1>3, <3>1, <3>2 DEF MoveFails, Move
  <2>6. pc'["user"] \in {"append", "rm"} /\ (pc'["user"] = "rm" => Move)
    BY <1>3, Going DEF MoveFails, Move
  <2>7. harm' = {} => harm = {}
    BY <1>3 DEF MoveFails, Move
  <2> QED BY <2>1, <2>2, <2>4, <2>5, <2>6, <2>7, SomeLengths DEF Bounded, Pre, Back
<1>4. CASE Remove
  <2>1. L' = <<>> /\ O' = O
    BY <1>4, FilesNow, FourFiles DEF Remove, Sets
  <2>2. UNCHANGED <<tmp, mem, idx, harm>> /\ pc["user"] = "rm" /\ pc'["user"] = "mv"
    BY <1>4, Going DEF Remove, hist
  <2> QED BY <2>1, <2>2, LenFacts, BoundedStill DEF Copied, Pre, Back
<1>5. CASE Place
  <2>1. L' = tmp /\ O' = O /\ tmp' = <<>>
    BY <1>5, FilesNow DEF Place, Sets, Typed, TypedFiles
  <2>2. mem' = mem /\ idx' = Len(mem) /\ pc["user"] = "mv" /\ pc'["user"] = "append"
        /\ harm' = harm
    BY <1>5, Going DEF Place, hist
  <2>3. Lower(O) /\ Len(mem) < MaxRange
    BY <2>2 DEF Bounded
  <2> QED BY <2>1, <2>2, <2>3, SomeLengths, LenFacts DEF Bounded, Pre, Back
<1>6. CASE AppendPkt
  <2>1. UNCHANGED <<tmp, mem, idx, harm>> /\ pc["user"] = "append" /\ pc'["user"] = "index"
    BY <1>6, Going DEF AppendPkt, hist
  <2>2. O' = O /\ LenOf(L') = LenOf(L)
    <3>1. Append(Body, rec) \in Seqs
      BY TopFacts, SeqsHas, FourFiles
    <3>2. Sets("log", IF L = <<>> THEN <<>> ELSE Log(Idx, Append(Body, rec)))
      BY <1>6, <3>1, Rewriting, FourFiles DEF AppendPkt, Sets
    <3> QED BY <3>1, <3>2, FilesNow, LogIsFile, LenFacts, SomeLengths, FourFiles
  <2> QED BY <2>1, <2>2, BoundedStill DEF Copied, Pre, Back
<1>7. CASE Index
  <2>1. UNCHANGED <<tmp, idx, harm>> /\ pc["user"] = "index" /\ pc'["user"] = "newSum"
    BY <1>7, Going DEF Index, hist
  <2>2. mem' \in Seqs /\ Len(mem') = idx + 1 /\ idx < MaxRange
    BY <1>7, <2>1, PutFacts DEF Index, Bounded, Typed, TypedFiles, TypedRun, TypedHist
  <2>3. O' = O /\ LenOf(L') \in {0, idx + 1}
    <3>1. Sets("log", IF L = <<>> THEN <<>> ELSE Log(mem', Body))
      BY <1>7, <2>2, Rewriting, FourFiles DEF Index, Sets
    <3> QED BY <2>2, <3>1, FilesNow, LogIsFile, LenFacts, FourFiles
  <2>4. harm = {} => Lower(O)
    BY <2>1 DEF Bounded
  <2> QED BY <2>1, <2>2, <2>3, <2>4, SomeLengths DEF Bounded, Pre, Back
<1> QED BY <1>1, <1>2, <1>3, <1>4, <1>5, <1>6, <1>7 DEF Wr_Alm_Pkt_to_log

LEMMA BoundedFlush == ASSUME Typed, Bounded, Flush \/ Cut \/ Flushes PROVE Bounded'
<1> USE DEF Procs
<1>1. CASE Flush
  <2>1. O' = O /\ LenOf(L') = 0
    <3>1. Sets("log", Log(<<>>, Body)) /\ Log(<<>>, Body) \in Files /\ Len(<<>>) = 0
      BY <1>1, FourFiles, LogIsFile, SeqsHas DEF Flush, Sets
    <3> QED BY <3>1, FilesNow, LenFacts
  <2>2. tmp' = tmp /\ mem' = <<>> /\ idx' = idx /\ harm = {} /\ pc'["user"] = "cut"
    BY <1>1, Going DEF Flush
  <2> QED BY <2>1, <2>2, BoundedStill DEF Copied, Pre, Back
<1>2. CASE Cut
  <2>1. O' = O /\ LenOf(L') = LenOf(L)
    <3>1. Sets("log", IF L = <<>> THEN <<>> ELSE Log(Idx, <<>>))
      BY <1>2, Rewriting, FourFiles, SeqsHas DEF Cut, Sets
    <3> QED BY <3>1, FilesNow, LogIsFile, SeqsHas, LenFacts, SomeLengths, FourFiles
  <2>2. UNCHANGED <<tmp, mem, idx, harm>> /\ pc'["user"] = "flSum"
    BY <1>2, Going DEF Cut, hist
  <2> QED BY <2>1, <2>2, BoundedStill DEF Copied, Pre, Back
<1>3. CASE Flushes
  <2>1. L' = L /\ O' = O /\ UNCHANGED <<tmp, mem, idx, harm>> /\ pc'["user"] = "idle"
    BY <1>3, SameFiles, Going DEF Flushes, disk
  <2> QED BY <2>1, BoundedStill DEF Copied, Pre, Back
<1> QED BY <1>1, <1>2, <1>3

LEMMA BoundedStart == ASSUME Typed, Bounded, Start \/ Read PROVE Bounded'
<1>1. CASE Start
  <2>1. L' = L /\ O' = O /\ UNCHANGED <<tmp, mem, idx>> /\ (harm' = {} => harm = {})
    BY <1>1, SameFiles DEF Start, Meets, disk
  <2>2. pc'["user"] = pc["user"]
    BY <1>1, Going DEF Start, Procs
  <2> QED BY <2>1, <2>2, BoundedStill DEF Copied
<1>2. CASE Read
  <2>1. Sets("log", Empty) /\ UNCHANGED <<tmp, idx, pc>> /\ mem' = <<>> /\ (harm' = {} => harm = {})
    BY <1>2 DEF Read, Sets
  <2>2. L' = Empty /\ O' = O
    BY <2>1, FilesNow, Special
  <2> QED BY <2>1, <2>2, LenFacts, BoundedStill DEF Copied
<1> QED BY <1>1, <1>2

LEMMA BoundedCrash == ASSUME Typed, Bounded, Crash PROVE Bounded'
<1>1. /\ harm = {} /\ pc'["user"] = "idle" /\ tmp' \in {tmp, <<>>} /\ mem' = <<>> /\ idx' = 0
      /\ (harm' = {} => harm = {})
  BY Crashed
<1>2. CASE /\ LenOf(L') \in {0, LenOf(L)} /\ LenOf(O') \in {0, LenOf(O)}
           /\ LenOf(L') = LenOf(L) \/ LenOf(O') = LenOf(O)
  BY <1>1, <1>2, LenFacts, BoundedStill DEF Copied, Pre, Back
<1>3. CASE Lower(O) /\ O' = O /\ LenOf(L') \in {0, 1}
  <2>1. Len(<<>>) = 0
    OBVIOUS
  <2> QED BY <1>1, <1>3, <2>1, SomeLengths, LenFacts DEF Bounded, Lower, Pre, Back
<1>4. CASE file' = file
  BY <1>2, <1>4, SameFiles
<1>5. ASSUME NEW p \in Procs, file' \in Half(p) PROVE Bounded'
  <2>1. /\ Append(Body, Part) \in Seqs /\ <<Part>> \in Seqs /\ Len(<<Part>>) = 1
        /\ Idx \in Seqs /\ Body \in Seqs
    BY FourFiles, SeqsHas, LogAssumption DEF Part, LogAssumption
  <2>2. CASE pc[p] = "index"
    <3>1. p = "user"
      BY <2>2 DEF Procs, Typed, TypedRun, Pre, Back
    <3>2. Lower(O)
      BY <1>1, <2>2, <3>1 DEF Bounded
    <3>3. O' = O /\ L' \in {<<>>, Log(<<Part>>, Body)}
      BY <1>5, <2>1, <2>2, Halves, FilesNow, LogIsFile, FourFiles DEF Cuts, Sets
    <3> QED BY <1>3, <2>1, <3>2, <3>3, LenFacts
  <2>3. CASE pc[p] # "index"
    <3>1. \/ L' = L /\ O' \in {O, <<>>, Torn}
          \/ O' = O /\ L' \in {L, <<>>, Torn, Log(Idx, Append(Body, Part))}
      BY <1>5, <2>1, <2>3, Halves, FilesNow, Special, LogIsFile, FourFiles DEF Cuts, Sets
    <3>2. L' = Log(Idx, Append(Body, Part)) => LenOf(L') = LenOf(L)
      BY LenFacts, SomeLengths
    <3> QED BY <1>2, <3>1, <3>2, LenFacts
  <2> QED BY <2>2, <2>3
<1> QED BY <1>4, <1>5, Crashed

LEMMA BoundedInit == Init => Bounded
<1> SUFFICES ASSUME Init PROVE Bounded
  OBVIOUS
<1>1. L = <<>> /\ O = <<>> /\ tmp = <<>> /\ mem = <<>> /\ idx = 0 /\ pc["user"] = "idle"
  BY DEF Init, L, O, Names
<1>2. Len(<<>>) = 0
  OBVIOUS
<1> QED BY <1>1, <1>2, LenFacts, LogAssumption DEF Bounded, Lower, LogAssumption

LEMMA BoundedNext == ASSUME Typed, Clean, Fitting, Bounded, [Next]_vars PROVE Bounded'
<1>1. ASSUME NEW p \in Procs, Check(p) \/ Operate(p) \/ Open(p) PROVE Bounded'
  <2>1. CASE Open(p) /\ p = "user"
    BY <2>1, BoundedOpen
  <2>2. CASE ~(Open(p) /\ p = "user")
    BY <1>1, <2>2, BoundedRun DEF Procs
  <2> QED BY <2>1, <2>2
<1>2. CASE UNCHANGED vars
  <2>1. UNCHANGED <<file, tmp, mem, idx, pc, harm>>
    BY <1>2 DEF vars, disk, run, hist
  <2> QED BY <2>1, SameFiles DEF Bounded
<1> QED BY <1>1, <1>2, BoundedWrite, BoundedFlush, BoundedStart, BoundedCrash DEF Next, Procs

-----------------------------------------------------------------------------
(* What the invariant is for.                                              *)

IInv == Typed /\ Clean /\ Live /\ Fitting /\ Bounded

LEMMA Invariant == Spec => []IInv
<1>1. Init => IInv
  <2> SUFFICES ASSUME Init PROVE IInv
    OBVIOUS
  <2>1. Fitting
    BY DEF Init, Fitting, Known, Pre, Back
  <2> QED BY <2>1, TypedInit, CleanInit, LiveInit, BoundedInit DEF IInv
<1>2. IInv /\ [Next]_vars => IInv'
  BY TypedStep, CleanNext, LiveNext, FittingNext, BoundedNext DEF IInv
<1> QED BY <1>1, <1>2, PTL DEF Spec

LEMMA DoneType ==
    ASSUME NEW d \in Seq(Nat), NEW n, \A i \in DOMAIN d : d[i] \in 1..n
    PROVE  d \in Seq(1..n)
<1>1. Len(d) \in Nat /\ DOMAIN d = 1..Len(d) /\ d = [i \in 1..Len(d) |-> d[i]]
  OBVIOUS
<1> DEFINE T == 1..n
<1>2. d \in [1..Len(d) -> T]
  BY <1>1
<1> HIDE DEF T
<1>3. d \in UNION {[1..m -> T] : m \in Nat}
  BY <1>1, <1>2
<1>4. d \in Seq(T)
  BY <1>3, SeqDef, Zenon
<1> QED BY <1>4 DEF T

\* The types and the bound of the index in memory: AlmPkt_Log_Header and its users
\* never go past Alm_Pkt_Info[PKT_LOG_MAX_RANGE], whatever harm the log has come to.
THEOREM TypeCorrect == Spec => []TypeOK
<1>1. IInv => TypeOK
  <2> SUFFICES ASSUME IInv PROVE TypeOK
    OBVIOUS
  <2>1. Typed /\ Bounded
    BY DEF IInv
  <2>2. ASSUME NEW f \in Files PROVE File(f)
    <3>1. CASE f = <<>>
      BY <3>1 DEF File
    <3>2. ASSUME NEW i \in Seqs, NEW b \in Seqs, f = Log(i, b) PROVE File(f)
      BY <3>2 DEF File, Contents, Log, Seqs
    <3> QED BY <3>1, <3>2 DEF Files
  <2>3. /\ \A n \in Names : File(file[n])
        /\ File(tmp)
        /\ mem \in Seq(0..MaxRec)
        /\ init \in BOOLEAN /\ re \in [{"user", "task"} -> BOOLEAN]
        /\ rec \in 0..MaxRec /\ env \in 0..MaxEnv
        /\ gone \subseteq 1..rec
        /\ harm \subseteq {"start", "move", "read", "bare"}
    BY <2>1, <2>2 DEF Typed, TypedFiles, TypedRun, TypedHist, Procs, Seqs
  <2>4. Len(mem) <= MaxRange /\ idx \in 0..MaxRange
    BY <2>1, SomeLengths DEF Bounded
  <2>5. done \in Seq(1..rec)
    BY <2>1, DoneType DEF Typed, TypedHist
  <2>6. pc["user"] \in {"idle", "check", "open", "room", "rm", "mv", "append", "index", "end",
                        "cut", "flEnd"} \cup DOMAIN Ops
    BY <2>1, OpsAre DEF Typed, TypedRun, Writes, Before, Pre, Back, Flushing
  <2>7. pc["task"] \in {"wait", "check", "open", "ready"} \cup DOMAIN Ops
    BY <2>1, OpsAre DEF Typed, TypedRun, Pre, Back
  <2> QED BY <2>3, <2>4, <2>5, <2>6, <2>7 DEF TypeOK
<1> QED BY <1>1, Invariant, PTL

LEMMA RestGood ==
    IInv /\ Unharmed => /\ L # <<>> /\ Good(L, done) /\ Idx = Body /\ mem = Idx
                        /\ Body \in Seqs /\ Body = BodyOf(L) /\ done \in Seq(Nat)
<1> SUFFICES ASSUME IInv, Unharmed
             PROVE  /\ L # <<>> /\ Good(L, done) /\ Idx = Body /\ mem = Idx
                    /\ Body \in Seqs /\ Body = BodyOf(L) /\ done \in Seq(Nat)
  OBVIOUS
<1>1. pc["user"] = "idle" /\ pc["task"] = "ready" /\ harm = {}
  BY DEF Unharmed, AtRest
<1>2. L # <<>> /\ (S = <<>> \/ S = L) /\ mem = IdxOf(L)
  BY <1>1 DEF IInv, Fitting, Fit, Known
<1>3. Good(L, done)
  BY <1>1, <1>2 DEF IInv, Clean, Bare, Recovers
<1> QED BY <1>2, <1>3, FourFiles, DoneIsSeq DEF IInv, Good, Fine

\* Wherever the power failed in a write, a move, a recovery or a flush, and however
\* often, the log that goes on being used has the index of its records, and so has
\* the index in memory (check_abnormal_log, Wr_Alm_Pkt_to_log).
THEOREM LogWhole == Spec => []Whole
<1>1. IInv => Whole
  BY RestGood DEF Whole, L
<1> QED BY <1>1, Invariant, PTL

\* What Flush_gREMS_Pktlog_File has removed does not come back from the copy in a
\* later recovery.
THEOREM FlushedGone == Spec => []Flushed
<1>1. IInv => Flushed
  <2> SUFFICES ASSUME IInv, Unharmed PROVE Ranged(Body) \cap gone = {}
    BY DEF Flushed
  <2>1. Under(L, Top, gone)
    BY DEF Unharmed, IInv, Live
  <2> QED BY <2>1, RestGood DEF Under
<1> QED BY <1>1, Invariant, PTL

LEMMA KeepNewer ==
    ASSUME NEW s \in Seqs, Sorted(s), Len(s) >= Keep, NEW r \in Nat, s[Len(s) - Keep + 1] > r
    PROVE  Cardinality({k \in Ranged(s) : k > r}) >= Keep
<1> DEFINE T == {k \in Ranged(s) : k > r}
           n == Len(s) - Keep
           f == [j \in 1..Keep |-> s[j + n]]
<1>1. Keep \in Nat /\ Keep > 0 /\ Len(s) \in Nat /\ n \in Nat /\ MaxRec \in Nat
  BY LogAssumption, SeqForm DEF LogAssumption
<1>2. DOMAIN s = 1..Len(s) /\ \A k \in 1..Len(s) : s[k] \in Nat /\ s[k] <= MaxRec
  BY <1>1, SeqForm
<1>3. IsFiniteSet(T)
  <2>1. T \in SUBSET Nat /\ \A k \in T : k <= MaxRec
    BY <1>2 DEF Ranged
  <2> QED BY <1>1, <2>1, FS_BoundedSetOfNaturals
<1>4. \A j \in 1..Keep : j + n \in DOMAIN s /\ 1 + n \in DOMAIN s
  BY <1>1, <1>2
<1>5. n + 1 = Len(s) - Keep + 1 /\ s[1 + n] > r
  BY <1>1
<1> HIDE DEF n
<1>6. f \in [1..Keep -> T]
  <2> SUFFICES ASSUME NEW j \in 1..Keep PROVE s[j + n] \in T
    OBVIOUS
  <2>1. s[j + n] \in Ranged(s)
    BY <1>4 DEF Ranged
  <2>2. s[1 + n] <= s[j + n]
    <3>1. CASE j = 1
      BY <1>2, <1>4, <3>1
    <3>2. CASE j > 1
      <4>1. 1 + n \in DOMAIN s /\ j + n \in DOMAIN s /\ 1 + n < j + n
        BY <1>1, <1>4, <3>2
      <4>2. s[1 + n] < s[j + n]
        BY <4>1 DEF Sorted
      <4> QED BY <1>2, <4>1, <4>2
    <3> QED BY <3>1, <3>2
  <2>3. s[j + n] > r
    BY <1>2, <1>4, <1>5, <2>2
  <2> QED BY <2>1, <2>3
<1>7. ASSUME NEW a \in 1..Keep, NEW b \in 1..Keep, f[a] = f[b] PROVE a = b
  <2>1. /\ a + n \in DOMAIN s /\ b + n \in DOMAIN s /\ s[a + n] = s[b + n]
        /\ s[a + n] \in Nat /\ s[b + n] \in Nat
    BY <1>2, <1>4, <1>7
  <2>2. ~(a + n < b + n) /\ ~(b + n < a + n)
    BY <2>1 DEF Sorted
  <2> QED BY <1>1, <2>2
<1>8. f \in Injection(1..Keep, T)
  BY <1>6, <1>7 DEF Injection, IsInjective
<1>9. Cardinality(1..Keep) <= Cardinality(T)
  BY <1>3, <1>8, FS_Injection
<1>10. Cardinality(1..Keep) = Keep
  BY <1>1, FS_Interval
<1>11. Cardinality(T) \in Nat
  BY <1>3, FS_CardinalityType
<1> QED BY <1>1, <1>9, <1>10, <1>11

\* A record that was written and is not flushed stays in the log, through any later
\* failures, recoveries and moves, until Keep newer ones are in it.
THEOREM RecordsKept == Spec => []Kept
<1>1. IInv => Kept
  <2> SUFFICES ASSUME IInv, Unharmed, NEW i \in DOMAIN done, done[i] \notin Ranged(Body)
               PROVE  Cardinality({r \in Ranged(Body) : r > done[i]}) >= Keep
    BY DEF Kept
  <2>1. done[i] \in Nat
    BY RestGood
  <2>2. Sorted(Body) /\ Len(Body) >= Keep /\ Body[Len(Body) - Keep + 1] > done[i]
    BY RestGood DEF Good, Fine, KeptOf
  <2> QED BY <2>1, <2>2, RestGood, KeepNewer
<1> QED BY <1>1, Invariant, PTL
=============================================================================
